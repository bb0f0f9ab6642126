------------------------------- MODULE SlhDsa -------------------------------
(***************************************************************************)
(* SLH-DSA (src/rmbl_slhdsa_body.h, src/rmbl_slhdsa.cpp): a hypertree of   *)
(* Merkle trees over WOTS+ keys that certifies a FORS key, which signs the *)
(* digest.  A node is its value and, as history, the calls of the          *)
(* tweakable hash and of the PRF it came from.  WOTS+ here has w = 4 and a *)
(* byte two of its digits, as with w = 16.                                 *)
(***************************************************************************)
EXTENDS ToyHash

CONSTANTS
    TreeHeight,     \* kTreeHeight
    Layers,         \* kD
    ForsHeight,     \* kForsHeight
    ForsTrees,      \* kForsTrees
    MaxContext      \* the bytes of a context (255)

W        == 4
ByteBits == 4
WotsLen1 == 2 * NodeBytes
WotsLen2 == 3
WotsLen  == WotsLen1 + WotsLen2
Leaves   == 2 ^ TreeHeight

Node(value, calls) == [h |-> value, calls |-> calls]
Given(value)       == Node(value, {})      \* from a signature: no history
CallsOf(nodes)     == UNION {nodes[i].calls : i \in DOMAIN nodes}
Values(nodes)      == Each(Len(nodes), LAMBDA i : nodes[i].h)

-----------------------------------------------------------------------------
(* Addresses.  chain and tree height share their bytes, and so do the hash *)
(* and the tree index.                                                     *)

Types == [wots |-> 0, wotsPk |-> 1, hashTree |-> 2, forsTree |-> 3, forsRoots |-> 4,
          wotsPrf |-> 5, forsPrf |-> 6]

NoAdrs == [layer |-> 0, tree |-> 0, type |-> 0, keypair |-> 0, chain |-> 0, index |-> 0]

\* Setting the type clears what is below it
SetType(adrs, type) == [adrs EXCEPT !.type = type, !.keypair = 0, !.chain = 0, !.index = 0]

CopySubtree(adrs, from) == [adrs EXCEPT !.layer = from.layer, !.tree = from.tree]
CopyKeypair(adrs, from) == [CopySubtree(adrs, from) EXCEPT !.keypair = from.keypair]

Words(adrs) == <<adrs.layer, adrs.tree, adrs.type, adrs.keypair, adrs.chain, adrs.index>>

\* prf_addr()
Prf(seeds, adrs) ==
    Node(Mix(<<seeds.pub, 1, seeds.sk>> \o Words(adrs)), {[adrs |-> adrs, in |-> <<>>]})

\* thash(): the tweakable hash of some nodes
Thash(seeds, nodes, adrs) ==
    Node(Mix(<<seeds.pub, 2>> \o Words(adrs) \o Values(nodes)),
         CallsOf(nodes) \cup {[adrs |-> adrs, in |-> Values(nodes)]})

-----------------------------------------------------------------------------
(* WOTS+.                                                                  *)

\* base_w(): n digits, most significant first
BaseW(bytes, n) ==
    Each(n, LAMBDA k : IF k % 2 = 1 THEN bytes[(k + 1) \div 2] \div W ELSE bytes[k \div 2] % W)

\* wots_checksum(): shifted so that its digits start on a byte
WotsChecksum(digits) ==
    LET csum  == Fold(LAMBDA acc, d : acc + (W - 1) - d, 0, digits)
        bits  == 2 * WotsLen2
        shift == (ByteBits - (bits % ByteBits)) % ByteBits
        wide  == csum * 2 ^ shift
        n     == (bits + ByteBits - 1) \div ByteBits
    IN  BaseW(Each(n, LAMBDA i : (wide \div Byte ^ (n - i)) % Byte), WotsLen2)

\* chain_lengths()
ChainLengths(node) ==
    LET digits == BaseW(Bytes(node), WotsLen1) IN digits \o WotsChecksum(digits)

\* gen_chain()
GenChain(seeds, node, start, steps, adrs) ==
    For(LAMBDA acc, i : Thash(seeds, <<acc>>, [adrs EXCEPT !.index = i]),
        node, start, start + steps - 1)

\* wots_prf_adrs(): the type first, which clears the rest, then key pair and chain
WotsPrfAdrs(adrs, chain) ==
    [SetType(adrs, Types.wotsPrf) EXCEPT !.keypair = adrs.keypair, !.chain = chain]

\* wots_gen_leaf(): the leaf, and the chains of the signature when it is this leaf's
WotsGenLeaf(seeds, subtree, leaf, steps) ==
    LET adrs  == [SetType(subtree, Types.wots) EXCEPT !.keypair = leaf]
        At(i) == [adrs EXCEPT !.chain = i - 1]
        sk    == Each(WotsLen, LAMBDA i : Prf(seeds, WotsPrfAdrs(At(i), i - 1)))
    IN  [sig  |-> Each(WotsLen, LAMBDA i : GenChain(seeds, sk[i], 0, steps[i], At(i))),
         leaf |-> Thash(seeds, Each(WotsLen, LAMBDA i : GenChain(seeds, sk[i], 0, W - 1, At(i))),
                        [SetType(subtree, Types.wotsPk) EXCEPT !.keypair = leaf])]

\* wots_pk_from_sig()
WotsPkFromSig(seeds, sig, node, adrs) ==
    LET steps == ChainLengths(node)
    IN  Each(WotsLen, LAMBDA i :
            GenChain(seeds, Given(sig[i]), steps[i], W - 1 - steps[i], [adrs EXCEPT !.chain = i - 1]))

-----------------------------------------------------------------------------
(* Merkle trees.                                                           *)

\* mutant: the index of a node does not count the trees to its left
TreeIndexLocal(idx, offset) == idx

\* the index of a node in its level, counted over all trees
TreeIndex(idx, offset) == idx + offset

\* One leaf enters treehash(): it meets the left siblings that wait on the stack
RECURSIVE Meet(_, _, _, _, _, _, _)
Meet(seeds, t, node, idx, h, offset, adrs) ==
    LET sibling == IF idx % 2 = 0 THEN idx + 1 ELSE idx - 1
        kept == IF t.target = sibling THEN [t EXCEPT !.auth[h + 1] = node.h] ELSE t
        up   == [adrs EXCEPT !.chain = h + 1, !.index = TreeIndex(idx \div 2, offset \div 2)]
    IN  IF h = t.height THEN [t EXCEPT !.root = node]
        ELSE IF idx % 2 = 0 THEN [kept EXCEPT !.stack[h + 1] = node]
        ELSE Meet(seeds, [kept EXCEPT !.target = @ \div 2],
                  Thash(seeds, <<t.stack[h + 1], node>>, up), idx \div 2, h + 1, offset \div 2, adrs)

\* treehash(): leaves from the left, with a stack; root and authentication path
Treehash(seeds, leaf(_), target, offset, height, adrs) ==
    LET start == [root |-> Given(0), auth |-> [k \in 1 .. height |-> 0], height |-> height,
                  stack |-> [k \in 1 .. height |-> Given(0)], target |-> target]
    IN  For(LAMBDA t, idx : Meet(seeds, [t EXCEPT !.target = target], leaf(idx), idx, 0, offset, adrs),
            start, 0, 2 ^ height - 1)

\* compute_root(): from a leaf and its path
ComputeRoot(seeds, leaf, idx, offset, auth, height, adrs) ==
    For(LAMBDA node, h :
            LET side == Given(auth[h])
            IN  Thash(seeds, IF (idx \div 2 ^ (h - 1)) % 2 = 1 THEN <<side, node>> ELSE <<node, side>>,
                      [adrs EXCEPT !.chain = h,
                                   !.index = TreeIndex(idx \div 2 ^ h, offset \div 2 ^ h)]),
        leaf, 1, height)

\* merkle_sign(): the WOTS+ signature of a node under leaf idx, the path, the root
MerkleSign(seeds, node, subtree, idx) ==
    LET steps == ChainLengths(node)
        tree  == Treehash(seeds, LAMBDA leaf : WotsGenLeaf(seeds, subtree, leaf, steps).leaf,
                          idx, 0, TreeHeight, SetType(subtree, Types.hashTree))
    IN  [wots |-> WotsGenLeaf(seeds, subtree, idx, steps).sig, auth |-> tree.auth, root |-> tree.root]

\* merkle_gen_root(): the root of the top tree
MerkleGenRoot(seeds) ==
    MerkleSign(seeds, 0, [NoAdrs EXCEPT !.layer = Layers - 1], 0).root

-----------------------------------------------------------------------------
(* FORS.                                                                   *)

\* message_to_indices(): bits of the digest, most significant first
MessageToIndices(bytes) ==
    LET Bit(k) == (bytes[(k - 1) \div ByteBits + 1] \div 2 ^ ((ByteBits - 1) - ((k - 1) % ByteBits))) % 2
    IN  Each(ForsTrees, LAMBDA t :
            For(LAMBDA acc, b : 2 * acc + Bit((t - 1) * ForsHeight + b), 0, 1, ForsHeight))

\* fors_gen_leaf(): its secret, and the leaf
ForsSecret(seeds, adrs, index) ==
    Prf(seeds, [CopyKeypair(SetType(adrs, Types.forsPrf), adrs) EXCEPT !.index = index])
ForsGenLeaf(seeds, adrs, secret, index) ==
    Thash(seeds, <<secret>>, [CopyKeypair(SetType(adrs, Types.forsTree), adrs) EXCEPT !.index = index])

ForsTreeAdrs(adrs) == CopyKeypair(SetType(NoAdrs, Types.forsTree), adrs)
ForsRoots(seeds, roots, adrs) == Thash(seeds, roots, CopyKeypair(SetType(NoAdrs, Types.forsRoots), adrs))

\* fors_sign(): of each tree the secret leaf that the digest selects, and its path
ForsSign(seeds, bytes, adrs) ==
    LET idx    == MessageToIndices(bytes)
        Off(t) == (t - 1) * 2 ^ ForsHeight
        tree   == Each(ForsTrees, LAMBDA t :
                      Treehash(seeds, LAMBDA leaf :
                                   ForsGenLeaf(seeds, adrs, ForsSecret(seeds, adrs, leaf + Off(t)), leaf + Off(t)),
                               idx[t], Off(t), ForsHeight, ForsTreeAdrs(adrs)))
    IN  [secret |-> Each(ForsTrees, LAMBDA t : ForsSecret(seeds, adrs, idx[t] + Off(t)).h),
         auth   |-> Each(ForsTrees, LAMBDA t : tree[t].auth),
         pk     |-> ForsRoots(seeds, Each(ForsTrees, LAMBDA t : tree[t].root), adrs)]

\* fors_pk_from_sig()
ForsPkFromSig(seeds, sig, bytes, adrs) ==
    LET idx == MessageToIndices(bytes)
    IN  ForsRoots(seeds, Each(ForsTrees, LAMBDA t :
            LET off == (t - 1) * 2 ^ ForsHeight
            IN  ComputeRoot(seeds, ForsGenLeaf(seeds, adrs, Given(sig.secret[t]), idx[t] + off),
                            idx[t], off, sig.auth[t], ForsHeight, ForsTreeAdrs(adrs))), adrs)

-----------------------------------------------------------------------------
(* The message, the key, signing and verifying.                            *)

\* M': a flag for pre-hashing, the context with its length, the OID and the digest
Bound(m) ==
    IF m.internal THEN m.msg
    ELSE <<IF m.oid # <<>> THEN 1 ELSE 0, Len(m.ctx)>> \o m.ctx \o m.oid \o m.msg

\* gen_message_random()
Randomizer(prf, rnd, m) == Mix(<<3, prf, rnd>> \o Bound(m))

\* hash_message(): the FORS digest, the tree and the leaf, cut to their bits
HashMessage(r, pk, m) ==
    LET dgst == Mix(<<4, r, pk.seed, pk.root>> \o Bound(m))
        more == Mix(<<5, dgst>>)
    IN  [digest |-> Bytes(dgst), tree |-> (more \div Leaves) % Leaves ^ (Layers - 1),
         leaf |-> more % Leaves]

\* seed_keypair()
SeedKeypair(sk, prf, pub) ==
    LET root == MerkleGenRoot([sk |-> sk, pub |-> pub])
    IN  [sk |-> sk, prf |-> prf, pub |-> [seed |-> pub, root |-> root.h], calls |-> root.calls]

\* Where layer i of the hypertree hangs: the tree, and the leaf of that tree
TreeAt(where, i) == where.tree \div Leaves ^ i
LeafAt(where, i) == IF i = 0 THEN where.leaf ELSE TreeAt(where, i - 1) % Leaves
SubtreeAt(where, i) == [NoAdrs EXCEPT !.layer = i, !.tree = TreeAt(where, i)]
KeypairAt(where, i) == [SubtreeAt(where, i) EXCEPT !.type = Types.wots, !.keypair = LeafAt(where, i)]

\* sign(): each layer signs the root of the one below, the first the FORS key
Sign(key, rnd, m) ==
    LET seeds == [sk |-> key.sk, pub |-> key.pub.seed]
        r     == Randomizer(key.prf, rnd, m)
        where == HashMessage(r, key.pub, m)
        fors  == ForsSign(seeds, where.digest, KeypairAt(where, 0))
        Layer(acc, i) ==
            LET layer == MerkleSign(seeds, acc.root.h, SubtreeAt(where, i), LeafAt(where, i))
            IN  [root |-> layer.root, calls |-> acc.calls \cup layer.root.calls,
                 sig |-> Append(acc.sig, [wots |-> Values(layer.wots), auth |-> layer.auth])]
        tree  == For(Layer, [root |-> fors.pk, calls |-> fors.pk.calls, sig |-> <<>>], 0, Layers - 1)
    IN  [sig |-> [r |-> r, secret |-> fors.secret, auth |-> fors.auth, layers |-> tree.sig],
         calls |-> tree.calls]

Verify(pub, m, sig) ==
    LET seeds == [sk |-> 0, pub |-> pub.seed]
        where == HashMessage(sig.r, pub, m)
        Layer(node, i) ==
            LET adrs == KeypairAt(where, i)
                pk   == WotsPkFromSig(seeds, sig.layers[i + 1].wots, node.h, adrs)
            IN  ComputeRoot(seeds, Thash(seeds, pk, CopyKeypair(SetType(adrs, Types.wotsPk), adrs)),
                            LeafAt(where, i), 0, sig.layers[i + 1].auth, TreeHeight,
                            SetType(SubtreeAt(where, i), Types.hashTree))
    IN  For(Layer, ForsPkFromSig(seeds, sig, where.digest, KeypairAt(where, 0)), 0, Layers - 1).h = pub.root

\* C_rmbl_slhdsa_sign_impl(), and C_rmbl_slhdsa_sign_internal_impl() of the message as it is
External(msg, ctx, oid) == [internal |-> FALSE, ctx |-> ctx, oid |-> oid, msg |-> msg]
Internal(msg)           == [internal |-> TRUE, ctx |-> <<>>, oid |-> <<>>, msg |-> msg]
SignCall(key, rnd, msg, ctx, prehash) ==
    LET ph == Apply(prehash, msg)
    IN  IF Len(ctx) > MaxContext \/ ~ph.ok THEN [why |-> "error"]
        ELSE [why |-> "signed", sig |-> Sign(key, rnd, External(ph.msg, ctx, ph.oid)).sig]

\* C_rmbl_slhdsa_verify_impl()
VerifyCall(pub, msg, ctx, sig, prehash) ==
    LET ph == Apply(prehash, msg)
    IN  IF Len(ctx) > MaxContext THEN "no"
        ELSE IF ~ph.ok THEN "error"
        ELSE IF Verify(pub, External(ph.msg, ctx, ph.oid), sig) THEN "yes" ELSE "no"

\* The fields a type has (FIPS 205, 4.2); the others are zero
FieldsOf == [k \in 0 .. 6 |->
    CASE k \in {Types.wotsPk, Types.forsRoots} -> {"keypair"}
      [] k = Types.hashTree                    -> {"chain", "index"}
      [] k = Types.wotsPrf                     -> {"keypair", "chain"}
      [] k = Types.forsPrf                     -> {"keypair", "index"}
      [] OTHER                                 -> {"keypair", "chain", "index"}]

\* No two calls under one key have the same address and different inputs, and no address
\* has anything left of the use before: a stale field would do either.
AddressesExact(calls) ==
    /\ \A c, d \in calls : c.adrs = d.adrs => c.in = d.in
    /\ \A c \in calls : \A f \in {"keypair", "chain", "index"} \ FieldsOf[c.adrs.type] : c.adrs[f] = 0

\* A signature under one pre-hash verifies under that one only, not as one of a message
\* that is the digest; a name that is not in the table and a context that is too long are
\* refused.
PrehashBinds(key, rnd, msg, ctx, prehash) ==
    LET ph == Apply(prehash, msg)
        s  == SignCall(key, rnd, msg, ctx, prehash)
        V(m, other) == VerifyCall(key.pub, m, ctx, s.sig, other)
    IN  IF prehash \notin {"", "none"} \cup DOMAIN Arcs \/ Len(ctx) > MaxContext
        THEN /\ s.why = "error"
             /\ VerifyCall(key.pub, msg, ctx, <<>>, prehash) = (IF Len(ctx) > MaxContext THEN "no" ELSE "error")
        ELSE /\ V(msg, prehash) = "yes"
             /\ \A other \in {"none", "sha256", "sha512", "shake256"} \ {prehash} :
                    V(msg, other) = (IF {other, prehash} \subseteq {"", "none"} THEN "yes" ELSE "no")
             /\ prehash \notin {"", "none"} => V(ph.msg, "none") = "no" /\ V(ph.oid \o ph.msg, "none") = "no"
             /\ ~Verify(key.pub, Internal(msg), s.sig)
=============================================================================
