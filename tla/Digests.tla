------------------------------ MODULE Digests ------------------------------
(***************************************************************************)
(* How the digests feed their compression functions (src/rmbl_core.cpp,    *)
(* src/rmbl_digest.cpp, src/rmbl_kdf.cpp): partial blocks, padding and     *)
(* lengths, the keyed constructions on top of them, and the Merkle tree.   *)
(* The compression itself is a toy, a byte has Byte values, a block Block  *)
(* bytes and a digest NodeBytes; a length is kept in digits of LengthBase. *)
(***************************************************************************)
EXTENDS ToyHash, Bitwise

CONSTANTS Block, LengthBase, PollEvery    \* PollEvery: the 4096 of PBKDF2

Zeros(n) == Each(n, LAMBDA i : 0)
Compress(h, block) == (3 * Fold(Stir, h, block) + 7) % Nodes
Take(s, n) == SubSeq(s, 1, IF n < Len(s) THEN n ELSE Len(s))
Drop(s, n) == SubSeq(s, n + 1, Len(s))

-----------------------------------------------------------------------------
(* SHA-256 and SHA-512: one and two words of length.                       *)

\* sha256_init(), sha512_init(), and the same with another standard's first state
ShaInit(iv) == [h |-> iv, data |-> <<>>, lo |-> 0, hi |-> 0]

\* bump() and its twin in sha512_final(): the carry shows as a fall
Bump(c, n) ==
    LET lo == (c.lo + n) % LengthBase
    IN  [c EXCEPT !.lo = lo, !.hi = (IF lo < c.lo THEN @ + 1 ELSE @) % LengthBase]

RECURSIVE Bulk(_, _)
Bulk(c, in) ==
    IF Len(in) < Block THEN [c EXCEPT !.data = IF in = <<>> THEN @ ELSE in]
    ELSE Bulk(Bump([c EXCEPT !.h = Compress(@, Take(in, Block))], Block), Drop(in, Block))

\* sha256_update(), sha512_update(): what fits goes into the partial block, then whole
\* blocks are taken from the input where it lies
ShaUpdate(c, in) ==
    LET want   == Block - Len(c.data)
        filled == c.data \o Take(in, want)
    IN  IF c.data = <<>> THEN Bulk(c, in)
        ELSE IF Len(filled) < Block THEN [c EXCEPT !.data = filled]
        ELSE Bulk(Bump([c EXCEPT !.h = Compress(@, filled), !.data = <<>>], Block), Drop(in, want))

\* sha256_final(), sha512_final(): the marker, zeros up to the length, in a block of their
\* own when the marker leaves no room, and the length
ShaFinal(c, words) ==
    LET limit  == Block - words
        marked == Append(c.data, Byte \div 2)
        length == Bump(c, Len(c.data))
        spill  == Len(marked) > limit
        h      == IF spill THEN Compress(c.h, marked \o Zeros(Block - Len(marked))) ELSE c.h
        rest   == IF spill THEN <<>> ELSE marked
    IN  Compress(h, rest \o Zeros(limit - Len(rest))
                         \o (IF words = 2 THEN <<length.hi, length.lo>> ELSE <<length.lo>>))

\* rmbl_sha256_raw(), rmbl_sha512_raw(), rmbl_sha224_raw(), rmbl_sha384_raw(), ...
Sha(iv, words, msg) == ShaFinal(ShaUpdate(ShaInit(iv), msg), words)

\* rmbl_sha256_midstate(), rmbl_sha512_midstate(), and resuming from that state
Midstate(iv, block) == Compress(iv, block)
Finish(state, blocks, tail, words) ==
    ShaFinal(ShaUpdate([ShaInit(state) EXCEPT !.lo = (blocks * Block) % LengthBase], tail), words)

\* C_rmbl_sha256_chunk_impl(): a call takes the state of the one before, a chunk, and says
\* whether it is the last; a state with a full partial block is refused
Chunk(state, chunk, last) ==
    LET c    == IF state = <<>> THEN ShaInit(5) ELSE state[1]
        next == ShaUpdate(c, chunk)
    IN  IF Len(c.data) >= Block THEN [why |-> "refused"]
        ELSE IF last THEN [why |-> "done", digest |-> ShaFinal(next, 1)]
        ELSE [why |-> "more", state |-> next]

\* rmbl_sha1_raw(): the padded message in one buffer
Sha1(iv, msg) ==
    LET total == ((Len(msg) + 2 + Block - 1) \div Block) * Block
        buf   == msg \o <<Byte \div 2>> \o Zeros(total - Len(msg) - 2) \o <<Len(msg) % LengthBase>>
    IN  For(LAMBDA h, k : Compress(h, SubSeq(buf, (k - 1) * Block + 1, k * Block)), iv, 1, total \div Block)

-----------------------------------------------------------------------------
(* BLAKE2b.                                                                *)

\* b2b_init(), refusing what the parameter block cannot say
B2Refused(outlen, key) == outlen < 1 \/ outlen > Block \/ Len(key) > Block
B2Init(outlen, key) ==
    [h |-> Mix(<<Len(key), outlen>>), t |-> [lo |-> 0, hi |-> 0],
     buf |-> IF key = <<>> THEN <<>> ELSE key \o Zeros(Block - Len(key))]

B2Compress(c, block, t, last) == Compress(c.h, block \o <<t.lo, t.hi, IF last THEN 1 ELSE 0>>)

\* b2b_update(): a full block waits for one more byte before it is compressed
B2Update(c, in) ==
    LET Take1(acc, b) ==
            LET t == Bump(acc.t, Block)
            IN  IF Len(acc.buf) = Block
                THEN [acc EXCEPT !.h = B2Compress(acc, acc.buf, t, FALSE), !.t = t, !.buf = <<b>>]
                ELSE [acc EXCEPT !.buf = Append(@, b)]
    IN  Fold(Take1, c, in)

B2Final(c) == B2Compress(c, c.buf \o Zeros(Block - Len(c.buf)), Bump(c.t, Len(c.buf)), TRUE)

\* rmbl_blake2b()
Blake2b(msg, key, outlen) ==
    IF B2Refused(outlen, key) THEN "refused" ELSE B2Final(B2Update(B2Init(outlen, key), msg))

-----------------------------------------------------------------------------
(* HMAC, MGF1 and PBKDF2.                                                  *)

H(in) == Bytes(Sha(5, 1, in))
Under(block, x) == Each(Len(block), LAMBDA i : block[i] ^^ x)

\* rmbl_hmac_sha256_raw(): a key longer than a block is its digest
HmacRaw(key, msg) ==
    LET k  == IF Len(key) > Block THEN H(key) ELSE key
        k0 == k \o Zeros(Block - Len(k))
    IN  H(Under(k0, 12) \o H(Under(k0, 6) \o msg))

\* rmbl_mgf1_shax(): the digests of the seed and a counter, cut to length
Mgf1(seed, outlen) ==
    LET Hash(ctr) == H(seed \o <<ctr \div Byte, ctr % Byte>>)
    IN  Take(Fold(LAMBDA out, ctr : out \o Hash(ctr), <<>>,
                  [i \in 1 .. (outlen + NodeBytes - 1) \div NodeBytes |-> i - 1]), outlen)

XorSeq(a, b) == Each(Len(a), LAMBDA i : a[i] ^^ b[i])

\* pbkdf2_inner(): an interrupt that is pending at a poll (the interrupt-th poll of the
\* call) clears all of the output
Pbkdf2(pass, salt, iterations, dklen, interrupt) ==
    LET blocks == (dklen + NodeBytes - 1) \div NodeBytes
        polls  == (iterations - 1) \div PollEvery
        First(i) == HmacRaw(pass, salt \o <<i \div Byte, i % Byte>>)
        Step(acc, j) == LET u == HmacRaw(pass, acc.u) IN [u |-> u, t |-> XorSeq(acc.t, u)]
        T(i) == For(Step, [u |-> First(i), t |-> First(i)], 1, iterations - 1).t
    IN  IF dklen < 1 \/ iterations < 1 THEN [why |-> "refused"]
        ELSE IF interrupt \in 1 .. blocks * polls THEN [why |-> "interrupted", out |-> Zeros(dklen)]
        ELSE [why |-> "done", out |-> Take(For(LAMBDA out, i : out \o T(i), <<>>, 1, blocks), dklen)]

-----------------------------------------------------------------------------
(* The Merkle tree.  A hash is the term of its input, so it never collides.*)

Hash(tokens)  == <<"hash", tokens>>
ByteToken(b)  == <<"byte", b>>
Prefix(scheme, b) == IF scheme = 2 THEN <<ByteToken(b)>> ELSE <<>>

\* leaves_from_chunks(), and the first step of .rmbl_mrk_walk()
Leaf(chunk, scheme) == Hash(Prefix(scheme, 0) \o chunk)
Interior(l, r, scheme) == Hash(Prefix(scheme, 1) \o <<l, r>>)

\* mutant: the odd node of a level is paired with itself
MerkleReduceDoubled(level, scheme) ==
    Each((Len(level) + 1) \div 2, LAMBDA i :
        Interior(level[2 * i - 1], IF 2 * i > Len(level) THEN level[2 * i - 1] ELSE level[2 * i], scheme))

\* merkle_reduce(): the odd node of a level goes up as it is
MerkleReduce(level, scheme) ==
    Each((Len(level) + 1) \div 2, LAMBDA i :
        IF 2 * i > Len(level) THEN level[2 * i - 1] ELSE Interior(level[2 * i - 1], level[2 * i], scheme))

RECURSIVE MerkleUp(_, _)
MerkleUp(level, scheme) == IF Len(level) = 1 THEN level[1] ELSE MerkleUp(MerkleReduce(level, scheme), scheme)

\* C_rmbl_merkle_root_impl()
MerkleRoot(chunks, scheme) == MerkleUp(Each(Len(chunks), LAMBDA i : Leaf(chunks[i], scheme)), scheme)

\* C_rmbl_merkle_proof_impl(): the siblings from leaf pos (from 0) up, with their sides
RECURSIVE Siblings(_, _, _)
Siblings(level, pos, scheme) ==
    IF Len(level) = 1 THEN <<>>
    ELSE LET up == Siblings(MerkleReduce(level, scheme), pos \div 2, scheme)
         IN  IF pos + 1 = Len(level) /\ Len(level) % 2 = 1 THEN up
             ELSE IF pos % 2 = 0 THEN <<[side |-> "right", node |-> level[pos + 2]]>> \o up
             ELSE <<[side |-> "left", node |-> level[pos]]>> \o up
MerkleProof(chunks, index, scheme) ==
    Siblings(Each(Len(chunks), LAMBDA i : Leaf(chunks[i], scheme)), index - 1, scheme)

\* .rmbl_mrk_scheme_for(): the scheme a proof is checked under, 0 if it does not meet the
\* one that is required; recorded and required are 0 when there is none
SchemeFor(recorded, required) ==
    IF required = 0 THEN IF recorded = 0 THEN 1 ELSE recorded
    ELSE IF recorded = required \/ (recorded = 0 /\ required = 1) THEN required ELSE 0

\* mrkvrf(), .rmbl_mrk_walk()
MerkleVerify(chunk, proof, root, recorded, required) ==
    LET scheme == SchemeFor(recorded, required)
        Step(node, s) == IF s.side = "right" THEN Interior(node, s.node, scheme) ELSE Interior(s.node, node, scheme)
    IN  scheme # 0 /\ Fold(Step, Leaf(chunk, scheme), proof) = root

-----------------------------------------------------------------------------
(* Properties.                                                             *)

\* FIPS 180-4: the message, the marker, zeros, and its length at the end of the last block
Standard(iv, words, msg) ==
    LET zeros == (-(Len(msg) + 1 + words)) % Block
        n     == Len(msg)
        all   == msg \o <<Byte \div 2>> \o Zeros(zeros)
                     \o (IF words = 2 THEN <<(n \div LengthBase) % LengthBase, n % LengthBase>> ELSE <<n % LengthBase>>)
    IN  For(LAMBDA h, k : Compress(h, SubSeq(all, (k - 1) * Block + 1, k * Block)), iv, 1, Len(all) \div Block)

\* RFC 7693: all blocks but the last with the bytes so far, the last with all of them
Rfc7693(msg, key, outlen) ==
    LET all  == (IF key = <<>> THEN <<>> ELSE key \o Zeros(Block - Len(key))) \o msg
        n    == IF all = <<>> THEN 1 ELSE (Len(all) + Block - 1) \div Block
        Count(m) == [lo |-> m % LengthBase, hi |-> (m \div LengthBase) % LengthBase]
        Part(k)  == SubSeq(all \o Zeros(Block), (k - 1) * Block + 1, k * Block)
    IN  For(LAMBDA h, k : B2Compress([h |-> h], Part(k), Count(IF k = n THEN Len(all) ELSE k * Block), k = n),
            Mix(<<Len(key), outlen>>), 1, n)

\* However a message is cut into updates, or into a midstate and its tail, or into calls
\* with the state in between, every digest is that of the standard's padded message.
CutsDoNotMatter(msg, cuts) ==
    LET Over(update(_, _), c) ==
            Fold(LAMBDA acc, n : [c |-> update(acc.c, SubSeq(msg, acc.at + 1, acc.at + n)), at |-> acc.at + n],
                 [c |-> c, at |-> 0], cuts).c
        chunks == Fold(LAMBDA acc, n : [state |-> <<Chunk(acc.state, SubSeq(msg, acc.at + 1, acc.at + n), FALSE).state>>,
                                        at |-> acc.at + n], [state |-> <<>>, at |-> 0], cuts)
        two  == ShaFinal(Over(ShaUpdate, ShaInit(9)), 2)
    IN  /\ Chunk(chunks.state, <<>>, TRUE) = [why |-> "done", digest |-> Standard(5, 1, msg)]
        /\ two = Standard(9, 2, msg) /\ Sha(9, 2, msg) = two
        /\ Len(msg) >= Block =>
               Finish(Midstate(9, Take(msg, Block)), 1, Drop(msg, Block), 2) = two
        /\ Len(msg) < LengthBase => Sha1(7, msg) = Standard(7, 1, msg)
        /\ \A key \in {<<>>, <<2>>, <<1, 2, 3, 4>>} :
               /\ B2Final(Over(B2Update, B2Init(2, key))) = Rfc7693(msg, key, 2)
               /\ Blake2b(msg, key, 2) = Rfc7693(msg, key, 2)

\* A long key is its digest; a shorter mask is the head of a longer one; a derived key is
\* the exclusive or of its iterates, or all zeros when it was interrupted, and never the
\* part that was ready.
KeysDerived(key, msg, iterations, interrupt) ==
    LET out == Pbkdf2(key, msg, iterations, NodeBytes + 1, interrupt)
        U[j \in 1 .. iterations] == [i \in 1 .. 2 |-> IF j = 1 THEN HmacRaw(key, msg \o <<0, i>>) ELSE HmacRaw(key, U[j - 1][i])]
        Xored(i, k) == Fold(LAMBDA acc, j : acc ^^ U[j][i][k], 0, [j \in 1 .. iterations |-> j])
    IN  /\ Len(key) > Block => HmacRaw(key, msg) = HmacRaw(H(key), msg)
        /\ HmacRaw(key, msg) # HmacRaw(key, Append(msg, 1))
        /\ \A n \in 0 .. 5 : Mgf1(msg, n) = Take(Mgf1(msg, 6), n)
        /\ IF interrupt \in 1 .. 2 * ((iterations - 1) \div PollEvery)
           THEN out = [why |-> "interrupted", out |-> Zeros(NodeBytes + 1)]
           ELSE out = [why |-> "done", out |-> Each(NodeBytes + 1, LAMBDA k :
                           IF k <= NodeBytes THEN Xored(1, k) ELSE Xored(2, k - NodeBytes))]

\* The chunk of every index verifies against the root and no other chunk does; in scheme
\* 2 no interior node passes for a chunk, no other list has the root, and a proof without
\* that scheme does not meet it.
MerkleBinds(chunks, others) ==
    LET root(s) == MerkleRoot(chunks, s)
        P(i, s) == MerkleProof(chunks, i, s)
        level   == Each(Len(chunks), LAMBDA j : Leaf(chunks[j], 2))
    IN  /\ \A i \in DOMAIN chunks : \A s \in 1 .. 2 :
               /\ MerkleVerify(chunks[i], P(i, s), root(s), s, 0) /\ MerkleVerify(chunks[i], P(i, s), root(s), s, s)
               /\ \A j \in DOMAIN chunks : MerkleVerify(chunks[j], P(i, s), root(s), s, 0) <=> chunks[j] = chunks[i]
        /\ \A i \in DOMAIN chunks :
               /\ ~MerkleVerify(chunks[i], P(i, 1), root(1), 0, 2) /\ ~MerkleVerify(chunks[i], P(i, 1), root(1), 1, 2)
               /\ ~MerkleVerify(chunks[i], P(i, 2), root(2), 2, 1)
               /\ P(i, 2) # <<>> /\ i % 2 = 1 /\ i < Len(chunks) =>
                      /\ ~MerkleVerify(<<level[i], level[i + 1]>>, Tail(P(i, 2)), root(2), 2, 0)
                      /\ ~MerkleVerify(<<ByteToken(1), level[i], level[i + 1]>>, Tail(P(i, 2)), root(2), 2, 0)
        /\ \A other \in others \ {chunks} : MerkleRoot(other, 2) # root(2)
=============================================================================
