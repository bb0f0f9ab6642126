----------------------------- MODULE MCKernels -----------------------------
(***************************************************************************)
(* The algorithms in C and C++, one input at a time: a call with an        *)
(* input, and the properties say what it has computed when it returns.     *)
(***************************************************************************)
EXTENDS Generators, Fold, TLC

VARIABLES
    kernel,      \* what is called, or "none"
    input

vars == <<kernel, input, gvars>>

Call(k, x) == kernel = "none" /\ kernel' = k /\ input' = x /\ UNCHANGED gvars
Return     == kernel # "none" /\ kernel' = "none" /\ input' = <<>> /\ UNCHANGED gvars

Returns(k) == kernel = k /\ Return

-----------------------------------------------------------------------------
(* XMSS and SLH-DSA.                                                       *)

Xm == INSTANCE Xmss WITH Byte <- 16, NodeBytes <- 2, W <- 4
Sl == INSTANCE SlhDsa WITH Byte <- 16, NodeBytes <- 2, TreeHeight <- 2, Layers <- 2,
                           ForsHeight <- 2, ForsTrees <- 3, MaxContext <- 2

CallXmss == \E h \in 0 .. 2, idx \in -1 .. 4, msg \in {<<1>>, <<2, 3>>} :
                Call("xmss", [h |-> h, idx |-> idx, msg |-> msg])

CallDigest == \E high \in 0 .. 15, low \in {0, 7, 15} : Call("digest", 16 * high + low)

Prehashes == {"", "none", "sha256", "sha512", "sha3_512", "shake256", "md5"}
Contexts  == {<<>>, <<4>>, <<4, 5>>, <<4, 5, 6>>}

CallSlh ==
    \/ (\E seed \in 1 .. 2, rnd \in 1 .. 2, m \in {<<1>>, <<2, 3>>} :
            Call("slhdsa", [seed |-> seed, rnd |-> rnd, msg |-> m]))
    \/ (\E ctx \in Contexts, name \in Prehashes : Call("slhdsa prehash", [ctx |-> ctx, name |-> name]))

\* Every signature of XMSS verifies, for its message and leaf only: with another message,
\* leaf, randomizer, root, path or chain it does not, an index outside the tree is refused,
\* and no digest can be reached from another one's chains.  Making a key and signing of
\* SLH-DSA never hash different values under one address nor leave a field of one use in
\* the address of the next; the signature verifies, and for no other split of the bytes
\* into context and message, not as that of a digest, and for no other message.
HashTreesExact ==
    [][/\ Returns("digest") => Xm!NoDigestAhead(input)
       /\ Returns("xmss") =>
           LET h    == input.h
               root == Xm!Keygen(5, 7, h)
               sig  == Xm!Sign(5, 6, 7, h, input.idx, input.msg)
               V(m, s) == Xm!Verify(7, root, h, m, s)
           IN  IF h = 0 \/ input.idx < 0 \/ input.idx >= 2 ^ h THEN sig = "refused"
               ELSE /\ V(input.msg, sig)
                    /\ ~V(Append(input.msg, 1), sig)
                    /\ ~V(input.msg, [sig EXCEPT !.index = 2 ^ h])
                    /\ \A i \in 0 .. 2 ^ h - 1 \ {input.idx} : ~V(input.msg, [sig EXCEPT !.index = i])
                    /\ ~V(input.msg, [sig EXCEPT !.r = (@ + 1) % 256])
                    /\ \A k \in 1 .. h : ~V(input.msg, [sig EXCEPT !.auth[k] = (@ + 1) % 256])
                    /\ \A k \in 1 .. Xm!Chains : ~V(input.msg, [sig EXCEPT !.wots[k] = (@ + 1) % 256])
                    /\ ~V(input.msg, [sig EXCEPT !.auth = Tail(@)])
       /\ Returns("slhdsa") =>
           LET key == Sl!SeedKeypair(input.seed, 2, 3)
               M(ctx, oid, msg) == [internal |-> FALSE, ctx |-> ctx, oid |-> oid, msg |-> msg]
               m   == M(<<4>>, <<>>, input.msg)
               s   == Sl!Sign(key, input.rnd, m)
           IN  /\ Sl!AddressesExact(key.calls \cup s.calls)
               /\ Sl!Verify(key.pub, m, s.sig)
               /\ \A other \in {M(<<>>, <<>>, <<4>> \o input.msg), M(<<4>>, <<9>>, input.msg), M(<<4>>, <<>>, <<7>>)} :
                      ~Sl!Verify(key.pub, other, s.sig)
       /\ Returns("slhdsa prehash") =>
              Sl!PrehashBinds(Sl!SeedKeypair(1, 2, 3), 1, <<2, 3>>, input.ctx, input.name)]_vars

-----------------------------------------------------------------------------
(* ML-DSA.                                                                 *)

Md == INSTANCE MlDsa WITH Byte <- 16, NodeBytes <- 3, Q <- 769, N <- 4, Root <- 40, Mont <- 255,
                          K <- 2, L <- 1, Eta <- 2, Tau <- 2, Gamma1 <- 64, Gamma2Den <- 16,
                          Omega <- 2, D <- 6, Candidate <- 1024, MaxAttempts <- 12, MaxContext <- 2
Mw == INSTANCE MlDsaWidths

CallMlDsa ==
    \/ (\E seed \in 1 .. 2, rnd \in 0 .. 1 :
            Call("mldsa", [seed |-> seed, rnd |-> rnd, msg |-> <<2, 3>>]))
    \/ (\E x \in {<<<<4>>, "">>, <<<<4, 5>>, "none">>, <<<<>>, "sha256">>, <<<<4>>, "shake256">>,
                 <<<<4>>, "md5">>, <<<<4, 5, 6>>, "sha512">>} :
            Call("mldsa prehash", [ctx |-> x[1], name |-> x[2]]))
    \/ (\E p \in [1 .. 2 -> 0 .. 3], c \in [1 .. 2 -> 0 .. 3] :
            Call("mldsa hints", p \o c))
    \/ (\E a, b \in {<<1, 0, 0, 0>>, <<0, 768, 0, 0>>, <<5, 700, 0, 3>>, <<768, 768, 768, 768>>} :
            Call("mldsa product", <<a, b>>))

\* A signature verifies, the masked signer gives the same one, and it verifies for no
\* other message, no other border between context and message, and not as that of a
\* digest.  A block of hints has one spelling, and the transforms multiply.
MlDsaExact ==
    [][/\ Returns("mldsa") =>
           LET key  == Md!KeypairFromSeed(input.seed)
               sig  == Md!Sign(key, input.rnd, input.msg, <<4>>, <<>>)
               mu   == Md!ComputeMu(key.sk.tr, input.msg, <<4>>, <<>>)
               V(m, ctx, oid) == Md!Verify(key.pk, m, ctx, oid, sig)
           IN  /\ Md!SignMuMasked(key.sk, input.rnd, mu, 3) = sig
               /\ sig.why = "accepted" =>
                      /\ V(input.msg, <<4>>, <<>>)
                      /\ ~V(Append(input.msg, 1), <<4>>, <<>>)
                      /\ ~V(<<4>> \o input.msg, <<>>, <<>>)
                      /\ ~V(Tail(input.msg), <<4>>, <<Head(input.msg)>>)
       /\ Returns("mldsa prehash") =>
              Md!PrehashBinds(Md!KeypairFromSeed(1), 1, <<2, 3>>, input.ctx, input.name)
       /\ Returns("mldsa hints") => Md!HintsCanonical(input)
       /\ Returns("mldsa product") => Md!TransformsMultiply(input[1], input[2])]_vars

Groups(width) == IF width % 8 = 0 THEN 1 ELSE IF width % 4 = 0 THEN 2 ELSE IF width % 2 = 0 THEN 4 ELSE 8
CallMlDsaWidths ==
    \/ (\E mode \in {44, 65, 87} : Call("mldsa sums", mode))
    \/ (\E mode \in {44, 65, 87} : \E name \in {"t1", "t0", "eta", "z", "w1"} :
            LET width == Mw!Layouts(Mw!Params[mode])[name].width
            IN  \E i \in 1 .. Groups(width), bit \in -1 .. width - 1 :
                    Call("mldsa pack", [mode |-> mode, name |-> name, i |-> i, bit |-> bit]))
    \/ (\E mode \in {44, 65} : \E h \in {0, 1, Mw!Params[mode].den \div 2 - 1, Mw!Params[mode].den \div 2},
            e, o, s, t, f \in -1 .. 1 :
            Call("mldsa round", [mode |-> mode, h |-> h, e |-> e, o |-> o, s |-> s, t |-> t, f |-> f]))
    \/ (\E k \in {-511, -510, -256, -2, -1, 0, 1, 2, 255, 509, 510}, half \in 0 .. 1, o \in -1 .. 1 :
            Call("mldsa reduce", k * 2 ^ 22 + half * 2 ^ 21 + o))

-----------------------------------------------------------------------------
(* ML-KEM.                                                                 *)

Kw == INSTANCE MlKemWidths
Mk == INSTANCE MlKem WITH Byte <- 16, NodeBytes <- 3, Q <- 3329, N <- 32, Root <- 1062, Mont <- 2285,
                          K <- 2, Eta1 <- 3, Eta2 <- 2, Du <- 10, Dv <- 4, Candidate <- 4096

CallMlKem ==
    \/ Call("mlkem", [d |-> 1, z |-> 5, m |-> [i \in 1 .. 32 |-> ((i * 4) \div 5) % 2]])
    \/ (\E x \in {1, 3328} : Call("mlkem product", x))

CallMlKemWidths ==
    \/ (\E x \in {0, 1, 832, 833, 1664, 1665, 2496, 2497, 3327, 3328}, d \in {1, 4, 5, 10, 11} :
            Call("mlkem round", [x |-> x, d |-> d]))
    \/ (\E d \in {1, 4, 5, 10, 11} : Call("mlkem intervals", d))
    \/ (\E a \in {-32768, -3329, -1665, -1, 0, 1, 1664, 3329, 32767}, n \in {0, 1, 3328, 3329, 3408896} :
            Call("mlkem reduce", [a |-> a, n |-> n]))
    \/ (\E d \in {1, 4, 5, 10, 11}, s \in {0, 1, 1665, 3328} : Call("mlkem pack", [d |-> d, s |-> s]))
    \/ (\E k \in 2 .. 4 : Call("mlkem sums", k))

\* At the real moduli: no sum of a transform leaves its integer type, the shifts and
\* constants round as the standards' divisions do, the plain signer's hint, the masked
\* signer's and the verifier's agree, and every packed layout is the stream of bits.
WidthsExact ==
    [][/\ Returns("mldsa sums") => Mw!NoOverflow(Mw!Params[input]) /\ Mw!SizesExact(input)
       /\ Returns("mldsa reduce") => Mw!ReducesExact(input)
       /\ Returns("mldsa pack") =>
              LET layout == Mw!Layouts(Mw!Params[input.mode])[input.name]
              IN  Mw!PackedAsStream(layout, [i \in 1 .. Groups(layout.width) |->
                      IF input.bit = -1 THEN 2 ^ layout.width - 1 ELSE IF i = input.i THEN 2 ^ input.bit ELSE 0])
       /\ Returns("mldsa round") =>
              LET p == Mw!Params[input.mode]
                  g == Mw!Gamma2(p)
              IN  Mw!RoundingExact(p, (input.h * (2 * g) + input.e * g + input.o) % Mw!Q, input.s * p.beta,
                                   input.t * (g - 1) + input.f)
       /\ Returns("mlkem round") => Kw!Compresses(input.x, input.d)
       /\ Returns("mlkem intervals") => Kw!IntervalsExact(input)
       /\ Returns("mlkem reduce") => Kw!Reduces(input.a, input.n)
       /\ Returns("mlkem pack") => Kw!Packs([i \in 1 .. 8 |-> (i * i * 401 + input.s) % 4096], input.d)
       /\ Returns("mlkem sums") => Kw!NoOverflow(input)]_vars

-----------------------------------------------------------------------------
(* HQC.                                                                    *)

Hc == INSTANCE HqcCode
Hr == INSTANCE HqcRing
Hq == INSTANCE Hqc WITH Byte <- 16, NodeBytes <- 3, N <- 23, Copies <- 11, MessageBits <- 2,
                        Weight <- 2, WeightR <- 1, WeightE <- 1
CodeLevel == <<Hc!HQC1, Hc!HQC3, Hc!HQC5>>
RingLevel == <<Hr!HQC1, Hr!HQC3, Hr!HQC5>>

CallHqcCode ==
    \/ (\E a \in {0, 1, 2, 29, 142, 255} : Call("hqc field", a))
    \/ (\E l \in 1 .. 3, x \in 0 .. 1 : Call("hqc fft", [level |-> l, x |-> x]))
    \/ (\E l \in 1 .. 3, less \in 0 .. 1 : Call("hqc rs", [level |-> l, s |-> 1 + less, less |-> less]))
    \/ (\E byte \in {0, 1, 127, 128, 255}, times \in {3, 5}, w \in 0 .. 2 :
            Call("hqc rm", [byte |-> byte, copies |-> times, where |-> w]))

CallHqcRing ==
    \/ (\E i, j \in 0 .. 4 : Call("hqc words", <<i, j>>))
    \/ (\E n \in {5, 7, 11, 14, 23, 31}, w \in {3, 4}, s \in 1 .. 2 :
            n % w # 0 /\ Call("hqc product", [n |-> n, w |-> w, s |-> s]))
    \/ (\E l \in 1 .. 3, a \in {0, 1, 255}, b \in {0, 128, 255}, c \in {0, 127, 255}, i \in {0, 1, 74} :
            Call("hqc draw", [level |-> l, bytes |-> <<a, b, c, 128>>, i |-> i]))
    \/ (\E n \in {3, 5}, a, b, c \in {0, 60, 110, 160, 210, 255} :
            Call("hqc support", [n |-> n, draws |-> <<<<0, 0, 0, a>>, <<0, 0, 0, b>>, <<0, 0, 0, c>>>>]))
    \/ (\E l \in 1 .. 3 : Call("hqc scratch", l))

CallHqc == \E s \in 1 .. 2, m \in [1 .. 2 -> 0 .. 1], salt \in 1 .. 2 :
                Call("hqc", [seed |-> s, m |-> m, salt |-> salt])

\* A word of 64 bits: all ones, alternating, in blocks, the top bit alone
Word(k) ==
    [i \in 1 .. 64 |-> CASE k = 0 -> 1
                         [] k = 1 -> i % 2
                         [] k = 2 -> ((i * i) \div 3) % 2
                         [] k = 3 -> IF i = 64 THEN 1 ELSE 0
                         [] k = 4 -> IF i % 4 = 1 THEN 1 ELSE 0]

\* Decapsulation of ML-KEM, plain and masked, and of both versions of HQC gives the secret
\* of the encapsulation, and the implicit rejection's for the altered ciphertexts tried with
\* each key (two of ML-KEM's); the transforms multiply.  The field, the FFT, both codes, the products of polynomials and
\* the sampling of HQC compute what they are for, at the real sizes.
KemsExact ==
    [][/\ Returns("mlkem") => Mk!SecretsAgree(input.d, input.z, input.m, 4)
       /\ Returns("mlkem product") =>
              Mk!TransformsMultiply([i \in 1 .. 32 |-> (i * i * input) % 3329], [i \in 1 .. 32 |-> (7 * i + input) % 3329])
       /\ Returns("hqc field") => Hc!FieldExact(input, {0, 1, 2, 15, 16, 17, 128, 255, 200})
       /\ Returns("hqc fft") =>
              LET p == CodeLevel[input.level]
              IN  Hc!FftEvaluates(p, [i \in 1 .. p.delta + 1 |-> (i * i * input.x + 5 * i + input.x) % 256] \o <<>>)
       /\ Returns("hqc rs") =>
              LET p == CodeLevel[input.level]
                  At(j) == ((j * input.s - 1) % p.n1) + 1
                  hit == {At(j) : j \in 1 .. p.delta - input.less}
              IN  Hc!RsCorrects(p, [i \in 1 .. p.k |-> (i * i * input.s + 7) % 256] \o <<>>,
                                [i \in hit |-> ((i * 37 + input.s) % 255) + 1])
       /\ Returns("hqc rm") =>
              Hc!RmCorrects(input.byte, [c \in 1 .. input.copies |->
                  CASE input.where = 0 -> {}
                    [] input.where = 1 -> IF c = 1 THEN 1 .. 95 ELSE {}
                    [] input.where = 2 -> {b \in 1 .. 124 : b % 4 = c % 4}])
       /\ Returns("hqc words") => Hr!ClmulExact(Word(input[1]) \o <<>>, Word(input[2]) \o <<>>)
       /\ Returns("hqc product") =>
              Hr!RingExact([i \in 1 .. input.n |-> ((i * i) \div (input.s + 1)) % 2] \o <<>>,
                           [i \in 1 .. input.n |-> IF i % 3 = input.s THEN 0 ELSE 1] \o <<>>, input.n, input.w)
       /\ Returns("hqc draw") => Hr!DrawsExact(RingLevel[input.level], input.bytes, input.i)
       /\ Returns("hqc support") => Hr!WeightExact(input.draws, input.n)
       /\ Returns("hqc scratch") => Hr!ScratchFits(RingLevel[input])
       /\ Returns("hqc") =>
              /\ Hq!SecretsAgree(input.seed, input.seed + 7, input.m, input.salt)
              /\ Hq!SecretsAgree4(input.seed, <<1, 0>>, input.seed + 3, input.m, input.salt)]_vars

-----------------------------------------------------------------------------
(* The masked gadgets.                                                     *)

Wa == INSTANCE MaskedWords WITH WordBits <- 1
Wb == INSTANCE MaskedWords WITH WordBits <- 2
Ma == INSTANCE Masked WITH Q <- 3329, Bits <- 14
Mb == INSTANCE Masked WITH Q <- 8380417, Bits <- 25

CallMaskedWords ==
    \/ (\E op \in {"and", "xor"}, into \in {"x", "y", "z"} :
            Call("masked word", [op |-> op, into |-> into, c |-> 0, pub |-> 0]))
    \/ (\E into \in {"x", "z"}, c \in 1 .. 3, pub \in 0 .. 4 :
            (c = 1 \/ pub <= 1) /\ Call("masked public", [op |-> "pub", into |-> into, c |-> c, pub |-> pub]))

\* No primitive on two shares in its assembly forms, whichever operand it overwrites, shows
\* a secret in the value of a register or a stored word, or in the change from its old to
\* its new value.  (What a compiler makes of the portable C is its own affair.)
MaskedNoLeak ==
    [][/\ Returns("masked word") => Wa!NothingLeaks(input)
       /\ Returns("masked public") => Wb!NothingLeaks(input)]_vars

CallMasked ==
    \/ (\E x \in {0, 1, 832, 833, 2496, 2497, 3328}, share \in {0, 1665, 3328}, lo \in {0, 3328},
            w \in {1, 3329} :
            Call("masked test", [x |-> x, share |-> share, lo |-> lo, w |-> w]))
    \/ (\E eta \in 2 .. 3 : \E stream \in 0 .. 4 ^ eta - 1, r \in {0, 2, 3328} :
            Call("masked cbd", [eta |-> eta, stream |-> stream, r |-> r]))
    \/ (\E den \in {88, 32} : \E k \in {0, 1, den \div 2 - 1, den \div 2}, o, e, f \in -1 .. 1,
            share \in {0, 4000000} :
            Call("masked round", [den |-> den, k |-> k, o |-> o, e |-> e, f |-> f, share |-> share]))
    \/ (\E k \in 0 .. 2, j \in {1, 17, 32} : Call("masked lanes", <<k, j>>))

\* A masked gadget opens to what the standard says of the value its shares have, at every
\* boundary, and in every lane.
MaskedExact ==
    [][/\ Returns("masked test") => Ma!DecodesAndTests(input.x, input.share, input.lo, input.w, 9)
       /\ Returns("masked cbd") => Ma!SamplesCbd(input.stream, input.eta, input.r, 9)
       /\ Returns("masked round") =>
              LET g == (Mw!Q - 1) \div input.den
              IN  Mb!RoundsLikeDecompose((input.k * 2 * g + input.e * g + input.f * 78 + input.o) % Mw!Q,
                                         input.share, g, 78, 9)
       /\ Returns("masked lanes") => Ma!AllLanes(IF input[1] = 0 THEN {} ELSE {input}, 9)]_vars

-----------------------------------------------------------------------------
(* Keccak.                                                                 *)

Kc == INSTANCE Keccak WITH ByteBits <- 2, LaneBytes <- 2, Rounds <- 2

CallKeccak ==
    \E n \in {0, 3, 7}, rate \in {4, 6}, gives \in {<<5>>, <<3, 2, 4>>, <<0, 9>>} :
        \E cuts \in {<<n>>} \cup {<<i, n - i>> : i \in 0 .. n} \cup {[i \in 1 .. n |-> 1]} :
            Call("keccak", [n |-> n, rate |-> rate, gives |-> gives, cuts |-> cuts])

\* However the input comes and the output is asked for, the sponge gives what FIPS 202
\* says, and so does the masked sponge.
StreamsExact ==
    [][/\ Returns("keccak") =>
              Kc!SpongeExact([i \in 1 .. input.n |-> (i * i + i \div 2) % 4] \o <<>>, input.cuts, input.gives,
                             input.rate, 1, input.n)]_vars
-----------------------------------------------------------------------------
(* Digests, what is derived from them, and the generator.                  *)

Dg == INSTANCE Digests WITH Byte <- 16, NodeBytes <- 3, Block <- 4, LengthBase <- 8, PollEvery <- 2
Dr == INSTANCE Drbg

Lists == UNION {[1 .. n -> {<<>>, <<Dg!ByteToken(1)>>}] : n \in 1 .. 5}
CallDigests ==
    \/ (\E n \in 0 .. 13 :
            \E cuts \in {<<n>>} \cup {<<i, n - i>> : i \in 0 .. n} \cup {[i \in 1 .. n |-> 1]}
                          \cup {<<i, 1, n - i - 1>> : i \in 0 .. n - 1} :
                Call("digests", [n |-> n, cuts |-> cuts]))
    \/ (\E k \in {0, 1, 4, 5}, m \in {<<>>, <<3>>, <<1, 2>>}, iterations \in 1 .. 5, interrupt \in 0 .. 6 :
            Call("kdf", [key |-> k, msg |-> m, iterations |-> iterations, interrupt |-> interrupt]))
    \/ (\E chunks \in Lists : Call("merkle", chunks))
CallDrbg ==
    \/ Call("aes", <<>>)
    \/ (\E k \in {0, 3, 16}, n \in {1, 16, 17}, add \in {<<>>, <<7>>} :
            Call("drbg", [k |-> k, n |-> n, add |-> add]))

\* However a message is cut into calls its digests are the standards'; a key derivation
\* gives all of its key or none, a Merkle proof binds its chunk, and the cipher and its
\* generator give the published bytes with a counter that carries.
DigestsExact ==
    [][/\ Returns("digests") =>
              Dg!CutsDoNotMatter([i \in 1 .. input.n |-> (i * i + 3 * i) % 16] \o <<>>, input.cuts)
       /\ Returns("kdf") =>
              Dg!KeysDerived([i \in 1 .. input.key |-> i] \o <<>>, input.msg, input.iterations, input.interrupt)
       /\ Returns("merkle") => Dg!MerkleBinds(input, Lists)
       /\ Returns("aes") => Dr!CipherExact /\ Dr!GeneratorExact
       /\ Returns("drbg") =>
              Dr!RequestsExact([i \in 1 .. 16 |-> IF i > input.k THEN 255 ELSE i] \o <<>>, input.n, input.add)]_vars

-----------------------------------------------------------------------------
(* The readers of tables, JSON and DER.                                    *)

Cs == INSTANCE Csv WITH MaxColumns <- 4, Slack <- 2, IntDigits <- 2, IntMax <- 11, NumLen <- 6
De == INSTANCE Der WITH Classes <- 2, Tags <- 4, SizeBytes <- 3, WordMax <- 511, Exact <- 128, MaxDepth <- 2, MaxNodes <- 4

HexOf == ("0000" :> 0) @@ ("0061" :> 97) @@ ("D800" :> 55296) @@ ("D801" :> 55297) @@ ("DC00" :> 56320)
         @@ ("DFFF" :> 57343) @@ ("E000" :> 57344)
CharOf  == (97 :> "a") @@ (57344 :> "private") @@ (65536 :> "first") @@ (66559 :> "last of D800")
           @@ (66560 :> "first of D801") @@ (67583 :> "last of D801")
Js == INSTANCE Json WITH MaxDepth <- 3, Large <- 100, IntMax <- 11, WideLen <- 2, Exact <- 32, Past <- 128,
                         Huge <- 156, Hex <- HexOf, CharOf <- CharOf

Symbols == {"\"", ",", "\n", "\r", " ", "x"}
Texts   == {<<>>, <<"N", "A">>, <<"T">>, <<"FALSE">>, <<"0", "1">>, <<"-", "1", "1">>, <<"1", "2">>, <<"0", "0", "1">>,
            <<"1", ".">>, <<".", "e", "1">>, <<"1", "e", "+", "1">>, <<"1", " ">>, <<"1", "1", "1">>, <<"x">>}
Cells   == {<<>>, <<"x">>, <<",", "\"">>, <<"\n">>, <<" ", "\"", "\"">>}

BlankTexts == {<<>>, <<" ">>, <<" ", "\t">>}

CallCsv ==
    \/ (\E a, b \in Symbols : Call("csv text", <<a, b>>))
    \/ (\E a, b \in Texts : Call("csv column", <<a, b>>))
    \/ (\E a, b \in Cells : Call("csv table", <<a, b>>))
    \/ (\E name \in UNION {[1 .. n -> {"a", " "}] : n \in 0 .. 2} : Call("csv header", name))

Zeros(n) == Each(n, LAMBDA i : 0)
Primitive(c, t, v) == [class |-> c, constructed |-> FALSE, tag |-> t, value |-> v, children |-> <<>>]
Constructed(c, t, kids) == [class |-> c, constructed |-> TRUE, tag |-> t, value |-> <<>>, children |-> kids]
UpToTwo(S) == {<<>>} \cup {<<a>> : a \in S} \cup {<<a, b>> : a \in S, b \in S}

Leaves == {Primitive(c, t, v) : c \in 0 .. 1, t \in {1, 2, 3, 8, 129, 511},
                                v \in {<<>>, <<5>>, Zeros(7), Zeros(8), Zeros(16)}}
Few    == {Primitive(0, 1, <<>>), Primitive(1, 0, <<9>>), Primitive(1, 3, Zeros(8))}
Middle == {Constructed(0, 2, k) : k \in UpToTwo(Few)}
High   == {Constructed(1, 4, k) : k \in UpToTwo(Middle \cup Few)}
Higher == {Constructed(0, 1, <<k, Primitive(0, 1, <<>>)>>) : k \in High}
          \cup {Constructed(0, 1, <<Constructed(0, 1, <<k>>)>>) : k \in High}

CallDer ==
    \/ (\E a, b \in 0 .. 15 : Call("der bytes", <<a, b>>))
    \/ (\E node \in Leaves \cup Middle \cup High \cup Higher : Call("der", node))

Null      == [word |-> "null"]
Scalars   == {Null, [string |-> <<"a">>]}
Arrays(S) == {[array |-> vs] : vs \in UpToTwo(S)}
Objects(S, T) == {[object |-> <<a, b>>, names |-> <<<<"a">>, n>>] : a \in S, b \in T, n \in {<<"a">>, <<>>}}
Inner     == Scalars \cup Arrays(Scalars) \cup Objects(Scalars, Scalars)
             \cup {[object |-> <<a>>, names |-> <<<<>>>>] : a \in Scalars}
Outer     == Inner \cup Arrays(Inner) \cup Objects(Scalars, Inner)
Nested    == Outer \cup {[array |-> <<v>>] : v \in Outer} \cup {[array |-> <<[array |-> <<v>>]>>] : v \in Outer}

Figures == {"0", "1", "3", "4", "5", "6", "9"}
Whole   == {<<d>> : d \in Figures} \cup {<<d, e>> : d \in Figures \ {"0"}, e \in Figures}
           \cup {<<"1", d, e>> : d \in Figures, e \in Figures}

CallJson ==
    \/ (\E a, b \in Js!Letters : Call("json text", <<a, b>>))
    \/ (\E v \in Nested : Call("json value", v))
    \/ (\E n \in Whole : Call("json number", n))
    \/ (\E a, b \in DOMAIN HexOf : Call("json escapes", <<a, b>>))
    \/ (\E cp \in {0, 1, 127, 128, 129, 2047, 2048, 4095, 4096, 55295, 55296, 57343, 57344, 65535, 65536, 262143,
                    262144, 1114111, 1114112} : Call("utf8", cp))

\* A table is read as it was written, a character at a time, and a column's type does not
\* depend on the order of its values.  A DER structure has one encoding that is accepted.
\* A header's name between blanks is what it quotes.  The JSON that is parsed is that of the
\* grammar within the levels, with no key twice, and no number below the largest double and
\* no character of it is changed in silence.
ParsersExact ==
    [][/\ Returns("csv text") =>
              \A a, b, c \in Symbols : \A t \in {<<>>, <<a>>, <<a, b>>, <<a, b, c>>} : Cs!ReadsAsWritten(input \o t)
       /\ Returns("csv column") => \A t \in Texts : Cs!TypesExact(Append(input, t))
       /\ Returns("csv table") =>
              \A c, d \in Cells, break \in {<<"\n">>, <<"\r">>, <<"\r", "\n">>}, mark \in {<<>>, <<"bom">>}, nul \in BOOLEAN :
                  Cs!TableReadBack(<<input, <<c, d>>>>, break, mark, nul)
       /\ Returns("csv header") => \A pre, post \in BlankTexts : Cs!NameExact(pre, input, post)
       /\ Returns("der bytes") =>
              \A c, d \in 0 .. 15 : \A b \in {<<>>, <<c>>, <<c, d>>, <<c>> \o Zeros(7)} : De!AcceptedIsCanonical(input \o b)
       /\ Returns("der") =>
              LET bytes == De!Encoded(input)
              IN  /\ De!EncodingRead(input)
                  /\ \A i \in 1 .. Len(bytes), b \in 0 .. 15 : i <= 8 => De!AcceptedIsCanonical([bytes EXCEPT ![i] = b])
       /\ Returns("json text") => \A n \in 2 .. 6 : Js!GrammarExact(input, n)
       /\ Returns("json value") =>
              \A blank \in {<<>>, <<" ">>}, keep \in BOOLEAN : Js!ValueReadBack(input, blank, keep)
       /\ Returns("json number") => \A asChar \in BOOLEAN : Js!NumberKept(input, asChar) /\ Js!NumberKept(<<"-">> \o input, asChar)
       /\ Returns("json escapes") => Js!EscapesExact(input[1], input[2])
       /\ Returns("utf8") => Js!Utf8Exact(input)]_vars

-----------------------------------------------------------------------------
(* The verifiers of RSA and ECDSA signatures.                              *)

Nu == INSTANCE Numbers WITH ByteBits <- 1, LimbBytes <- 2, MaxLimbs <- 5, ModulusLimit <- 4, ExponentLimit <- 3
\* Curves with fewer and with more points than the field has elements
Ea == INSTANCE Ecdsa WITH P <- 23, Order <- 17, B <- 15, Gx <- 1, Gy <- 6, ByteBits <- 3, Width <- 2
Eb == INSTANCE Ecdsa WITH P <- 13, Order <- 19, B <- 1, Gx <- 0, Gy <- 1, ByteBits <- 3, Width <- 2

Bits(n) == [1 .. n -> 0 .. 1]

CallVerifiers ==
    \/ (\E a \in Bits(4) : Call("limbs", a))
    \/ (\E sig \in Bits(3) \cup Bits(4) : Call("rsa", sig))
    \/ (\E k \in 0 .. 40 : Call("multiple", k))
    \/ (\E d \in {1, 5, 12}, r \in 0 .. 19, digest \in {<<3>>, <<7, 7, 7>>} :
            Call("ecdsa", [d |-> d, r |-> r, digest |-> digest]))

\* The limbs compute with the numbers they are.  An RSA block is the power of a signature as
\* long as the modulus, which has no other encoding.  The multiples of a point are those of
\* repeated addition, past the order of the group, and an ECDSA signature verifies exactly
\* when its numbers solve the standard's equation for a key on the curve.
VerifiersExact ==
    [][/\ Returns("limbs") =>
              \A b \in Bits(4), m \in Bits(3) \cup {<<1, 0, 1, 1>>, <<0, 1, 1, 1>>} : Nu!LimbsExact(input, b, m)
       /\ Returns("rsa") => \A m \in Bits(3) \cup Bits(4), e \in Bits(1) \cup Bits(3) : Nu!RsaExact(input, m, e)
       /\ Returns("multiple") => Ea!MultiplesExact(input) /\ Eb!MultiplesExact(input)
       /\ Returns("ecdsa") =>
              \A s \in 0 .. 19 : /\ Ea!EcdsaExact(input.d, input.r, s, input.digest)
                                 /\ Eb!EcdsaExact(input.d, input.r, s, input.digest)]_vars

UseGenerators == kernel = "none" /\ GNext /\ UNCHANGED <<kernel, input>>
-----------------------------------------------------------------------------
Init == kernel = "none" /\ input = <<>> /\ GInit
Calls ==
    \/ CallXmss \/ CallDigest \/ CallSlh
    \/ CallMlDsa \/ CallMlDsaWidths \/ CallMlKem \/ CallMlKemWidths
    \/ CallHqcCode \/ CallHqcRing \/ CallHqc
    \/ CallMaskedWords \/ CallMasked \/ CallKeccak \/ CallDigests \/ CallDrbg
    \/ CallCsv \/ CallDer \/ CallJson \/ CallVerifiers
Next == (GInit /\ Calls) \/ Return \/ UseGenerators
Spec == Init /\ [][Next]_vars
=============================================================================
