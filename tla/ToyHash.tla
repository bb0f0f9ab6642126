------------------------------ MODULE ToyHash ------------------------------
(***************************************************************************)
(* A hash of small numbers that stands for SHA-256 and SHAKE256 in the     *)
(* models of the hash-based signatures: it depends on every element and on *)
(* their order, and two inputs that differ in one element never collide.   *)
(* And the pre-hash in front of ML-DSA and SLH-DSA (src/rmbl_prehash.h):   *)
(* what is signed instead of the message, and the OID that says so.        *)
(***************************************************************************)
EXTENDS Fold

CONSTANTS
    Byte,        \* values of a byte (256), a power of two
    NodeBytes    \* bytes of a node (32, or n of the parameter set)

Nodes == Byte ^ NodeBytes

\* y * (2y + 1) permutes the numbers below a power of two
Stir(acc, x) == LET y == (acc + x) % Nodes IN (y * (2 * y + 1) + 11) % Nodes

Mix(input) == Fold(Stir, 1, input)

\* The bytes of a node, most significant first
Bytes(node) == [i \in 1 .. NodeBytes |-> (node \div Byte ^ (NodeBytes - i)) % Byte]

-----------------------------------------------------------------------------
(* The pre-hash.                                                           *)

\* table(): the functions, with the last arc of their OIDs
Arcs == [sha224 |-> 4, sha256 |-> 1, sha384 |-> 2, sha512 |-> 3, sha512_224 |-> 5, sha512_256 |-> 6,
         sha3_224 |-> 7, sha3_256 |-> 8, sha3_384 |-> 9, sha3_512 |-> 10, shake128 |-> 11, shake256 |-> 12]

\* oid_for(): the arcs before the last are those of all
Oid(name) == <<6, Arcs[name]>>

Digest(name, m) == Bytes(Mix(<<20, Arcs[name]>> \o m))

\* apply(): no name leaves the message as it is, a name that is not in the table is refused
Apply(name, m) ==
    IF name \in {"", "none"} THEN [ok |-> TRUE, oid |-> <<>>, msg |-> m]
    ELSE IF name \in DOMAIN Arcs THEN [ok |-> TRUE, oid |-> Oid(name), msg |-> Digest(name, m)]
    ELSE [ok |-> FALSE]
=============================================================================
