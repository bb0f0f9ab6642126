-------------------------------- MODULE Xmss --------------------------------
(***************************************************************************)
(* XMSS with WOTS+ (src/rmbl_pqc.cpp): signing with a leaf of a Merkle     *)
(* tree, and verifying.  A base-w digit is half a byte, as with w = 16.    *)
(***************************************************************************)
EXTENDS ToyHash

CONSTANT W      \* kW: Byte = W * W

Len1 == 2 * NodeBytes
Len2 == 3
Chains == Len1 + Len2

-----------------------------------------------------------------------------
(* Hashes and addresses.                                                   *)

HashDom(dom, key, msg) == Mix(<<dom, key>> \o msg)

\* The digest that is signed binds the message to the randomizer, the root and the leaf
HmsgBound(r, root, idx, msg) == Mix(<<2, r, root, idx>> \o msg)

PRF(key, msg)              == HashDom(3, key, msg)
PRFkeygen(key, seed, adrs) == Mix(<<4, key, seed>> \o adrs)

\* An address: type, then the OTS or L-tree number (or 0), chain or tree height, hash
\* or tree index, key-and-mask word
Adrs(type, a, b, c, mask) == <<type, a, b, c, mask>>

\* A node under a bitmask
Masked(x, mask) == (x + mask) % Nodes

RandHash(l, r, seed, type, a, b, c) ==
    LET key == PRF(seed, Adrs(type, a, b, c, 0))
        bm0 == PRF(seed, Adrs(type, a, b, c, 1))
        bm1 == PRF(seed, Adrs(type, a, b, c, 2))
    IN  HashDom(1, key, <<Masked(l, bm0), Masked(r, bm1)>>)

-----------------------------------------------------------------------------
(* WOTS+.                                                                  *)

\* One step of a chain
Step(x, j, seed, ots, i) ==
    LET key == PRF(seed, Adrs(0, ots, i, j, 0))
        bm  == PRF(seed, Adrs(0, ots, i, j, 1))
    IN  HashDom(0, key, <<Masked(x, bm)>>)

\* chain(): s steps of chain i of key pair ots, from step number start on
Chain(x, start, s, seed, ots, i) ==
    For(LAMBDA acc, j : Step(acc, j, seed, ots, i), x, start, start + s - 1)

\* base_w(): the first n digits of a byte string
BaseW(bytes, n) ==
    Each(n, LAMBDA k : IF k % 2 = 1 THEN bytes[(k + 1) \div 2] \div W ELSE bytes[k \div 2] % W)

\* wots_digits(): the digest's digits, then those of the checksum, shifted by a digit
\* so that its three lie in whole bytes from the left
WotsDigits(node) ==
    LET digits == BaseW(Bytes(node), Len1)
        csum   == W * Fold(LAMBDA acc, d : acc + (W - 1) - d, 0, digits)
    IN  digits \o BaseW(<<(csum \div Byte) % Byte, csum % Byte>>, Len2)

WotsSk(sk, seed, ots, i) == PRFkeygen(sk, seed, Adrs(0, ots, i, 0, 0))

WotsPk(sk, seed, ots) ==
    Each(Chains, LAMBDA i : Chain(WotsSk(sk, seed, ots, i), 0, W - 1, seed, ots, i))

\* One level of the L-tree: pairs are hashed, an odd last node is carried up
LtreeLevel(nodes, seed, ots, height) ==
    LET pairs == Len(nodes) \div 2
    IN  Each((Len(nodes) + 1) \div 2, LAMBDA i :
            IF i <= pairs THEN RandHash(nodes[2 * i - 1], nodes[2 * i], seed, 1, ots, height, i - 1)
                          ELSE nodes[Len(nodes)])

RECURSIVE LtreeFrom(_, _, _, _)
LtreeFrom(nodes, seed, ots, height) ==
    IF Len(nodes) = 1 THEN nodes[1]
    ELSE LtreeFrom(LtreeLevel(nodes, seed, ots, height), seed, ots, height + 1)

Ltree(pk, seed, ots) == LtreeFrom(pk, seed, ots, 0)

ComputeLeaf(sk, seed, idx) == Ltree(WotsPk(sk, seed, idx), seed, idx)

-----------------------------------------------------------------------------
(* The tree.                                                               *)

Parents(level, seed, height) ==
    Each(Len(level) \div 2, LAMBDA i :
        RandHash(level[2 * i - 1], level[2 * i], seed, 2, 0, height, i - 1))

RECURSIVE Climb(_, _, _, _, _)
Climb(level, pos, seed, height, auth) ==
    IF Len(level) = 1 THEN [root |-> level[1], auth |-> auth]
    ELSE LET sibling == IF pos % 2 = 0 THEN pos + 1 ELSE pos - 1
         IN  Climb(Parents(level, seed, height), pos \div 2, seed, height + 1,
                   Append(auth, level[sibling + 1]))

\* tree_root(): the root, and the authentication path of leaf idx
TreeRoot(sk, seed, h, idx) ==
    Climb(Each(2 ^ h, LAMBDA i : ComputeLeaf(sk, seed, i - 1)), idx, seed, 0, <<>>)

HeightOK(h) == h \in 1 .. 16

\* C_rmbl_xmss_keygen_impl()
Keygen(sk, seed, h) == IF HeightOK(h) THEN TreeRoot(sk, seed, h, 0).root ELSE "refused"

-----------------------------------------------------------------------------
(* C_rmbl_xmss_sign_impl(), C_rmbl_xmss_verify_impl().                     *)

\* A negative index is a very large unsigned one
InTree(idx, h) == 0 <= idx /\ idx < 2 ^ h

Sign(sk, prf, seed, h, idx, msg) ==
    IF ~HeightOK(h) \/ ~InTree(idx, h) THEN "refused"
    ELSE LET tree   == TreeRoot(sk, seed, h, idx)
             r      == PRF(prf, <<idx>>)
             digits == WotsDigits(HmsgBound(r, tree.root, idx, msg))
         IN  [index |-> idx, r |-> r, auth |-> tree.auth,
              wots |-> Each(Chains, LAMBDA i :
                           Chain(WotsSk(sk, seed, idx, i), 0, digits[i], seed, idx, i))]

\* Each chain is walked the rest of its way; the leaf then climbs the path
Reached(seed, h, sig, digest) ==
    LET digits == WotsDigits(digest)
        pk     == [i \in 1 .. Chains |->
                      Chain(sig.wots[i], digits[i], W - 1 - digits[i], seed, sig.index, i)]
        Up(node, k) == LET pos  == sig.index \div 2 ^ (k - 1)
                           side == sig.auth[k]
                       IN  IF pos % 2 = 0
                           THEN RandHash(node, side, seed, 2, 0, k - 1, pos \div 2)
                           ELSE RandHash(side, node, seed, 2, 0, k - 1, pos \div 2)
    IN  For(Up, Ltree(pk, seed, sig.index), 1, h)

Verify(seed, root, h, msg, sig) ==
    /\ Len(sig.wots) = Chains
    /\ HeightOK(h) /\ Len(sig.auth) = h
    /\ InTree(sig.index, h)
    /\ Reached(seed, h, sig, HmsgBound(sig.r, root, sig.index, msg)) = root

-----------------------------------------------------------------------------
(* Properties.                                                             *)

\* A chain of a digest can only be walked forward.  No other digest lies ahead of it
\* in every chain: the checksum falls where the digits rise.
NoDigestAhead(digest) ==
    \A other \in 0 .. Nodes - 1 \ {digest} :
        \E i \in 1 .. Chains : WotsDigits(other)[i] < WotsDigits(digest)[i]
=============================================================================
