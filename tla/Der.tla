-------------------------------- MODULE Der --------------------------------
(***************************************************************************)
(* The DER parser of certificates and timestamp tokens (rmbl_asn1.cpp).    *)
(* The bytes are narrower here: an identifier is its class, whether it is  *)
(* constructed and a tag, and the high bit of a byte says that another     *)
(* follows, or a long length, as in the real ones.                         *)
(***************************************************************************)
EXTENDS Fold

CONSTANTS
    Classes,     \* classes of a tag (4)
    Tags,        \* tags of the one-byte form, the last of which is the escape (32)
    SizeBytes,   \* bytes of a size_t (8)
    WordMax,     \* the largest tag (2^64 - 1)
    Exact,       \* the last whole number before the inexact doubles (2^53)
    MaxDepth,    \* levels (32)
    MaxNodes     \* nodes (65,536)

High == Classes * Tags      \* the high bit of a byte
Byte == 2 * High

Broken == [ok |-> FALSE]

\* The high tag form: septets, the first of them not zero, of a tag that needs the form
HighTag(p, n, pos) ==
    LET RECURSIVE Septets(_, _)
        Septets(i, tag) ==
            IF i > n \/ tag > WordMax \div High THEN Broken
            ELSE LET t == tag * High + (p[i] % High)
                 IN  IF p[i] >= High THEN Septets(i + 1, t) ELSE [ok |-> TRUE, tag |-> t, pos |-> i + 1]
        r == Septets(pos, 0)
    IN  IF pos > n THEN Broken
        ELSE IF p[pos] % High = 0 THEN Broken
        ELSE IF ~r.ok THEN Broken
        ELSE IF r.tag < Tags - 1 THEN Broken
        ELSE r

Tag(p, n, pos) ==
    LET tag == p[pos] % Tags
    IN  IF tag = Tags - 1 THEN HighTag(p, n, pos + 1) ELSE [ok |-> TRUE, tag |-> tag, pos |-> pos + 1]

\* A mutant: the long form of a length takes a leading zero
LengthLoose(p, n, pos) ==
    LET bytes == p[pos] % High
        len   == Fold(LAMBDA acc, b : acc * Byte + b, 0, SubSeq(p, pos + 1, pos + bytes))
    IN  IF pos > n THEN Broken
        ELSE IF p[pos] < High THEN [ok |-> TRUE, len |-> p[pos], pos |-> pos + 1]
        ELSE IF bytes = 0 \/ bytes >= SizeBytes \/ bytes > n - pos THEN Broken
        ELSE [ok |-> TRUE, len |-> len, pos |-> pos + 1 + bytes]

\* The length: indefinite, longer than it need be, or past what a size_t holds is refused
Length(p, n, pos) ==
    LET bytes == p[pos] % High
        len   == Fold(LAMBDA acc, b : acc * Byte + b, 0, SubSeq(p, pos + 1, pos + bytes))
    IN  IF pos > n THEN Broken
        ELSE IF p[pos] < High THEN [ok |-> TRUE, len |-> p[pos], pos |-> pos + 1]
        ELSE IF bytes = 0 \/ bytes >= SizeBytes \/ bytes > n - pos THEN Broken
        ELSE IF p[pos + 1] = 0 \/ (bytes = 1 /\ p[pos + 1] < High) THEN Broken
        ELSE [ok |-> TRUE, len |-> len, pos |-> pos + 1 + bytes]

RECURSIVE ParseOne(_, _, _, _, _), ParseSeq(_, _, _, _, _, _)

\* The node at pos, inside the first n bytes; `budget` is what is left of the nodes.  A
\* universal tag 0 is end-of-contents, never a value
ParseOne(p, n, pos, depth, budget) ==
    IF depth > MaxDepth \/ budget = 0 \/ pos > n THEN Broken
    ELSE LET class == p[pos] \div (2 * Tags)
             tag   == Tag(p, n, pos)
             len   == Length(p, n, tag.pos)
             kids  == ParseSeq(p, len.pos, len.pos + len.len, <<>>, depth, budget - 1)
             Node(value, children, left) ==
                 [ok |-> TRUE, pos |-> len.pos + len.len, budget |-> left,
                  node |-> [class |-> class, constructed |-> children # "none", tag |-> tag.tag,
                            offset |-> len.pos, length |-> len.len, start |-> pos,
                            value |-> value, children |-> IF children = "none" THEN <<>> ELSE kids.nodes]]
         IN  IF ~tag.ok THEN Broken
             ELSE IF class = 0 /\ tag.tag = 0 THEN Broken
             ELSE IF ~len.ok THEN Broken
             ELSE IF len.len > n - len.pos + 1 THEN Broken
             ELSE IF (p[pos] \div Tags) % 2 = 0
             THEN Node(SubSeq(p, len.pos, len.pos + len.len - 1), "none", budget - 1)
             ELSE IF ~kids.ok THEN Broken
             ELSE Node(<<>>, "some", kids.budget)

\* The nodes from pos up to end
ParseSeq(p, pos, end, nodes, depth, budget) ==
    IF pos >= end THEN [ok |-> pos = end, nodes |-> nodes, budget |-> budget]
    ELSE LET c == ParseOne(p, end - 1, pos, depth + 1, budget)
         IN  IF ~c.ok THEN Broken
             ELSE IF c.pos <= pos THEN Broken
             ELSE ParseSeq(p, c.pos, end, Append(nodes, c.node), depth, c.budget)

\* The node R is given: its numbers are doubles, of which only the tag may be past Exact
RECURSIVE NodeToSexp(_)
NodeToSexp(node) ==
    [node EXCEPT !.tag = AsDouble(@, Exact),
                 !.children = Each(Len(@), LAMBDA i : NodeToSexp(node.children[i]))]

\* A whole input is one structure
DerParse(bytes) ==
    LET r == ParseOne(bytes, Len(bytes), 1, 0, MaxNodes)
    IN  IF ~r.ok THEN [ok |-> FALSE, why |-> "not well-formed DER"]
        ELSE IF r.pos # Len(bytes) + 1 THEN [ok |-> FALSE, why |-> "trailing bytes after the DER structure"]
        ELSE [ok |-> TRUE, node |-> NodeToSexp(r.node)]

-----------------------------------------------------------------------------
(* The one encoding of a structure.                                        *)

RECURSIVE Digits(_, _)
Digits(n, base) == IF n < base THEN <<n>> ELSE Append(Digits(n \div base, base), (n % base))

RECURSIVE Encoded(_), EncodedAll(_)

EncodedAll(nodes) == IF nodes = <<>> THEN <<>> ELSE Encoded(Head(nodes)) \o EncodedAll(Tail(nodes))

Encoded(node) ==
    LET content == IF node.constructed THEN EncodedAll(node.children) ELSE node.value
        first   == node.class * 2 * Tags + (IF node.constructed THEN Tags ELSE 0)
        septets == Digits(node.tag, High)
        id      == IF node.tag < Tags - 1 THEN <<first + node.tag>>
                   ELSE <<first + Tags - 1>>
                        \o Each(Len(septets), LAMBDA i : septets[i] + (IF i < Len(septets) THEN High ELSE 0))
        len     == Digits(Len(content), Byte)
    IN  id \o (IF Len(content) < High THEN len ELSE <<High + Len(len)>> \o len) \o content

RECURSIVE Nodes(_), Levels(_)
Nodes(node)  == 1 + SumOf(Each(Len(node.children), LAMBDA i : Nodes(node.children[i])))
Levels(node) == 1 + Fold(LAMBDA acc, c : IF Levels(c) > acc THEN Levels(c) ELSE acc, 0, node.children)

RECURSIVE TagsExact(_)
TagsExact(node) ==
    node.tag < Exact /\ \A i \in DOMAIN node.children : TagsExact(node.children[i])

\* What is accepted is the only encoding of the structure it is read as, which is the one R
\* is given unless a tag is past what a double holds, so that no two byte strings are one
\* certificate; and it has no more levels or nodes than the limits
AcceptedIsCanonical(bytes) ==
    LET r    == DerParse(bytes)
        node == ParseOne(bytes, Len(bytes), 1, 0, MaxNodes).node
    IN  r.ok => /\ Encoded(node) = bytes
                /\ TagsExact(r.node) => r.node = node
                /\ Levels(r.node) <= MaxDepth + 1 /\ Nodes(r.node) <= MaxNodes

\* The class, tag and content of a structure
RECURSIVE Plain(_)
Plain(node) == [class |-> node.class, constructed |-> node.constructed, tag |-> node.tag,
                value |-> node.value, children |-> Each(Len(node.children), LAMBDA i : Plain(node.children[i]))]

\* The encoding of a structure within the limits is read as it, at its places in the input,
\* and not followed by another byte
EncodingRead(node) ==
    LET bytes == Encoded(node)
        r     == ParseOne(bytes, Len(bytes), 1, 0, MaxNodes)
    IN  /\ r.ok = (Levels(node) <= MaxDepth + 1 /\ Nodes(node) <= MaxNodes)
        /\ r.ok => /\ Plain(r.node) = node
                   /\ r.budget = MaxNodes - Nodes(node)
                   /\ r.node.offset + r.node.length = Len(bytes) + 1
                   /\ DerParse(bytes \o <<1>>).why = "trailing bytes after the DER structure"
=============================================================================
