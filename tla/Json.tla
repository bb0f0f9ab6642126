-------------------------------- MODULE Json --------------------------------
(***************************************************************************)
(* The native JSON parser (rmbl_json.cpp).  A text is a sequence of        *)
(* characters; the words true, false and null are one each, as are the     *)
(* four hexadecimal digits of an escape.                                   *)
(***************************************************************************)
EXTENDS Fold

CONSTANTS
    MaxDepth,    \* levels (100)
    Large,       \* bytes past which R's parser is not asked (131,072)
    IntMax,      \* the largest integer (2,147,483,647)
    WideLen,     \* characters from which a whole number may be inexact (16)
    Exact,       \* the last whole number before the inexact ones (2^53)
    Past,        \* the first number no identifier reaches (2^64)
    Huge,        \* the first number whose double is infinite (2^1024 - 2^970)
    Hex,         \* the number of the four digits of an escape: a function of characters
    CharOf       \* the character of a code point, of those in use

Quote  == "\""
Blanks == {" ", "\t", "\n", "\r"}
Digit  == [d \in {"0", "1", "2", "3", "4", "5", "6", "7", "8", "9"} |->
              CASE d = "0" -> 0 [] d = "1" -> 1 [] d = "2" -> 2 [] d = "3" -> 3 [] d = "4" -> 4
                [] d = "5" -> 5 [] d = "6" -> 6 [] d = "7" -> 7 [] d = "8" -> 8 [] d = "9" -> 9]
Digits == DOMAIN Digit

\* Characters below 0x20 as they stand
Control == {"\t", "\n", "\r", "control"}

Is(s, p, set) == p <= Len(s) /\ s[p] \in set

RECURSIVE Skip(_, _, _)
Skip(s, p, set) == IF Is(s, p, set) THEN Skip(s, p + 1, set) ELSE p

\* The first failure is the one that is told
Failed(why, at) == [ok |-> FALSE, why |-> why, at |-> at]
Parsed(value, pos) == [ok |-> TRUE, value |-> value, pos |-> pos]

-----------------------------------------------------------------------------
(* Characters in UTF-8 and as surrogates.                                  *)

PutUtf8(cp) ==
    CASE cp < 128                  -> <<cp>>
      [] cp >= 128 /\ cp < 2048     -> <<192 + cp \div 64, 128 + (cp % 64)>>
      [] cp >= 2048 /\ cp < 65536   -> <<224 + cp \div 4096, 128 + ((cp \div 64) % 64), 128 + (cp % 64)>>
      [] OTHER                      -> <<240 + cp \div 262144, 128 + ((cp \div 4096) % 64), 128 + ((cp \div 64) % 64), 128 + (cp % 64)>>

\* Valid as validUTF8() judges it: no form longer than it need be, no surrogate, nothing
\* past 0x10FFFF
RECURSIVE ValidUtf8(_)
ValidUtf8(s) ==
    LET c    == s[1]
        len  == CASE c < 128 -> 1 [] c \div 32 = 6 -> 2 [] c \div 16 = 14 -> 3 [] c \div 8 = 30 -> 4 [] OTHER -> 0
        lead == CASE len = 1 -> c [] len = 2 -> c % 32 [] len = 3 -> c % 16 [] OTHER -> c % 8
        cp   == Fold(LAMBDA acc, b : 64 * acc + (b % 64), lead, SubSeq(s, 2, len))
        low  == CASE len = 2 -> 128 [] len = 3 -> 2048 [] len = 4 -> 65536 [] OTHER -> 0
    IN  \/ s = <<>>
        \/ /\ len # 0 /\ len <= Len(s)
           /\ \A k \in 2 .. len : s[k] \div 64 = 2
           /\ cp >= low /\ cp <= 1114111 /\ cp \notin 55296 .. 57343
           /\ ValidUtf8(SubSeq(s, len + 1, Len(s)))

Hex4(s, p) == IF p <= Len(s) /\ s[p] \in DOMAIN Hex THEN Hex[s[p]] ELSE -1

HighSurrogate(cp) == cp \in 55296 .. 56319
LowSurrogate(cp)  == cp \in 56320 .. 57343

-----------------------------------------------------------------------------
(* Strings and numbers.                                                    *)

Invalid(s, p) == Failed("unterminated or invalid string", p)

Plain == [n |-> "\n", t |-> "\t", r |-> "\r", b |-> "backspace", f |-> "form feed"]

Escaped(e) == IF e \in DOMAIN Plain THEN Plain[e] ELSE e

RECURSIVE StringFrom(_, _, _, _)

\* An escape of a character, two of them for a pair of surrogates: neither half alone nor
\* NUL is a character
Unicode(s, k, start, text) ==
    LET cp   == Hex4(s, k)
        low  == IF Is(s, k + 1, {"\\"}) /\ Is(s, k + 2, {"u"}) THEN Hex4(s, k + 3) ELSE -1
        pair == HighSurrogate(cp) /\ LowSurrogate(low)
        char == IF pair THEN 65536 + (cp - 55296) * 1024 + (low - 56320) ELSE cp
    IN  IF cp < 0 \/ char = 0 \/ HighSurrogate(char) \/ LowSurrogate(char) THEN Invalid(s, start)
        ELSE StringFrom(s, IF pair THEN k + 4 ELSE k + 1, start, Append(text, CharOf[char]))

StringFrom(s, k, start, text) ==
    IF k > Len(s) THEN Invalid(s, start)
    ELSE IF s[k] = Quote THEN Parsed(text, k + 1)
    ELSE IF s[k] \in Control THEN Invalid(s, start)
    ELSE IF s[k] # "\\" THEN StringFrom(s, k + 1, start, Append(text, s[k]))
    ELSE IF Is(s, k + 1, {"u"}) THEN Unicode(s, k + 2, start, text)
    ELSE IF Is(s, k + 1, {"n", "t", "r", "b", "f", Quote, "\\", "/"})
    THEN StringFrom(s, k + 2, start, Append(text, Escaped(s[k + 1])))
    ELSE Invalid(s, start)

String(s, p) == StringFrom(s, p + 1, p + 1, <<>>)

Natural(digits) == Fold(LAMBDA acc, d : 10 * acc + Digit[d], 0, digits)

\* The places where the parts of a number end: its whole part, its fraction, its exponent
NumberEnds(s, p) ==
    LET a == IF Is(s, p, {"-"}) THEN p + 1 ELSE p
        b == IF Is(s, a, {"0"}) THEN a + 1 ELSE Skip(s, a, Digits)
        c == IF Is(s, b, {"."}) THEN Skip(s, b + 1, Digits) ELSE b
        e == IF Is(s, c + 1, {"+", "-"}) THEN c + 2 ELSE c + 1
        f == IF Is(s, c, {"e", "E"}) THEN Skip(s, e, Digits) ELSE c
    IN  [ok |-> b > a /\ c # b + 1 /\ (Is(s, c, {"e", "E"}) => f > e),
         wrong |-> IF b = a THEN a ELSE IF c = b + 1 THEN c ELSE e,
         first |-> a, whole |-> b, fraction |-> c, exponent |-> e, end |-> f]

\* A number as a multiple of a power of ten
Decimal(s, n) ==
    LET digits == SubSeq(s, n.first, n.whole - 1) \o SubSeq(s, n.whole + 1, n.fraction - 1)
        x      == IF n.end = n.fraction THEN 0 ELSE Natural(SubSeq(s, n.exponent, n.end - 1))
    IN  [m |-> Natural(digits),
         x |-> (IF n.end # n.fraction /\ s[n.exponent - 1] = "-" THEN -x ELSE x)
               - (IF n.fraction > n.whole THEN n.fraction - n.whole - 1 ELSE 0)]

AtLeast(d, bound) == IF d.x >= 0 THEN d.m * 10 ^ d.x >= bound ELSE d.m >= bound * 10 ^ (-d.x)

Number(s, p, asChar) ==
    LET n    == NumberEnds(s, p)
        text == SubSeq(s, p, n.end - 1)
        v    == Natural(SubSeq(s, n.first, n.whole - 1))
        neg  == s[p] = "-"
        Signed(x) == IF neg THEN -x ELSE x
        wide == n.end - p >= WideLen /\ v > Exact
        held == AsDouble(v, Exact)
        D    == Decimal(s, n)
        infinite == IF n.end = n.whole THEN v >= Huge ELSE AtLeast(D, Huge)
    IN  IF ~n.ok THEN Failed("invalid number", n.wrong)
        ELSE IF n.end = n.whole /\ wide /\ asChar THEN Parsed([text |-> text], n.end)
        ELSE IF infinite THEN Parsed([infinite |-> neg], n.end)
        ELSE IF n.end = n.whole
        THEN Parsed(IF v > IntMax \/ wide THEN [double |-> Signed(held), told |-> wide /\ held # v, text |-> text]
                    ELSE [int |-> Signed(v)], n.end)
        ELSE IF AtLeast(D, Exact) /\ ~AtLeast(D, Past) THEN Failed("a whole number beyond 2^53 written as a decimal", n.end)
        ELSE Parsed([decimal |-> [D EXCEPT !.m = Signed(@)]], n.end)

-----------------------------------------------------------------------------
(* Values.  `keep` keeps duplicate keys, `asChar` the digits of inexact    *)
(* whole numbers.                                                          *)

\* The first key that repeats an earlier one
FirstDup(names) ==
    LET again == {j \in 1 .. Len(names) : \E i \in 1 .. j - 1 : names[i] = names[j]}
    IN  IF again = {} THEN <<>> ELSE <<names[CHOOSE j \in again : \A i \in again : j <= i]>>

RECURSIVE ParseValue(_, _, _, _), Members(_, _, _, _, _, _)

\* The members of an array or an object from p on, after `done`
Members(s, p, depth, opt, obj, done) ==
    LET k     == Skip(s, p, Blanks)
        key   == String(s, k)
        colon == Skip(s, key.pos, Blanks)
        v     == IF obj THEN ParseValue(s, colon + 1, depth, opt) ELSE ParseValue(s, p, depth, opt)
        next  == Skip(s, v.pos, Blanks)
        all   == [names |-> IF obj THEN Append(done.names, key.value) ELSE <<>>,
                  values |-> Append(done.values, v.value)]
    IN  IF obj /\ ~Is(s, k, {Quote}) THEN Failed("expected a key in double quotes", k)
        ELSE IF obj /\ ~key.ok THEN key
        ELSE IF obj /\ ~Is(s, colon, {":"}) THEN Failed("expected ':'", colon)
        ELSE IF ~v.ok THEN v
        ELSE IF Is(s, next, {","}) THEN Members(s, next + 1, depth, opt, obj, all)
        ELSE IF Is(s, next, {IF obj THEN "}" ELSE "]"}) THEN Parsed(all, next + 1)
        ELSE Failed(IF obj THEN "expected ',' or '}'" ELSE "expected ',' or ']'", next)

Container(s, p, depth, opt) ==
    LET obj  == s[p] = "{"
        from == Skip(s, p + 1, Blanks)
        r    == IF Is(s, from, {IF obj THEN "}" ELSE "]"})
                THEN Parsed([names |-> <<>>, values |-> <<>>], from + 1)
                ELSE Members(s, from, depth, opt, obj, [names |-> <<>>, values |-> <<>>])
        dup  == FirstDup(r.value.names)
    IN  IF ~r.ok THEN r
        ELSE IF obj /\ ~opt.keep /\ dup # <<>> THEN Failed("duplicate key", r.pos)
        ELSE IF obj THEN Parsed([object |-> r.value.values, names |-> r.value.names], r.pos)
        ELSE Parsed([array |-> r.value.values], r.pos)

\* The depth is the arrays and objects open: a scalar inside the last level is none
ParseValue(s, from, depth, opt) ==
    LET p == Skip(s, from, Blanks)
        r == String(s, p)
    IN  IF p > Len(s) THEN Failed("unexpected end of the text", p)
        ELSE IF s[p] \in {"{", "["}
        THEN IF depth >= MaxDepth THEN Failed("nesting deeper than 100 levels", p)
             ELSE Container(s, p, depth + 1, opt)
        ELSE IF s[p] = Quote THEN IF r.ok THEN Parsed([string |-> r.value], r.pos) ELSE r
        ELSE IF s[p] \in {"true", "false", "null"} THEN Parsed([word |-> s[p]], p + 1)
        ELSE IF s[p] \in Digits \cup {"-"} THEN Number(s, p, opt.asChar)
        ELSE Failed("unexpected character", p)

\* The first whole number whose digits its double does not hold, for R's warning
RECURSIVE Inexact(_)
Inexact(v) ==
    LET kids == IF "object" \in DOMAIN v THEN v.object ELSE IF "array" \in DOMAIN v THEN v.array ELSE <<>>
    IN  IF "told" \in DOMAIN v THEN (IF v.told THEN v.text ELSE <<>>)
        ELSE Fold(LAMBDA acc, kid : IF acc # <<>> THEN acc ELSE Inexact(kid), <<>>, kids)

\* The value, the failure, or NULL for R's parser to take the text
JsonFast(s, bytes, opt) ==
    LET v    == ParseValue(s, 1, 0, opt)
        rest == Skip(s, v.pos, Blanks)
        fail == IF ~v.ok THEN v
                ELSE IF rest <= Len(s) THEN Failed("trailing characters", rest)
                ELSE Failed("", 0)
    IN  IF fail.why = "" THEN [kind |-> "value", value |-> v.value, token |-> Inexact(v.value)]
        ELSE IF fail.why \in {"duplicate key", "nesting deeper than 100 levels"} \/ bytes > Large
        THEN [kind |-> "error", why |-> fail.why, at |-> fail.at]
        ELSE [kind |-> "NULL"]

-----------------------------------------------------------------------------
(* The language by its grammar, texts of values as they are written, and   *)
(* what must become of numbers and characters.                             *)

Letters == {"{", "}", "[", "]", ",", ":", Quote, "1"}

RECURSIVE ValueTexts(_), Elements(_), MemberTexts(_)

Strings(n) == {<<Quote>> \o t \o <<Quote>> : t \in [1 .. n - 2 -> Letters \ {Quote}]}

\* The texts of n of those letters that are values, lists of values, and lists of members
ValueTexts(n) ==
    (IF n = 0 THEN {} ELSE {[i \in 1 .. n |-> "1"]})
    \cup (IF n < 2 THEN {} ELSE Strings(n) \cup {<<"[">> \o t \o <<"]">> : t \in Elements(n - 2)}
                                          \cup {<<"{">> \o t \o <<"}">> : t \in MemberTexts(n - 2)})

Listed(n, one(_), list(_)) ==
    IF n = 0 THEN {<<>>}
    ELSE one(n) \cup UNION {{a \o <<",">> \o b : a \in one(k), b \in list(n - 1 - k)} : k \in 1 .. n - 2}

Elements(n) == Listed(n, ValueTexts, Elements)

MemberTexts(n) ==
    LET Member(m) == UNION {{a \o <<":">> \o b : a \in Strings(k), b \in ValueTexts(m - 1 - k)} : k \in 2 .. m - 2}
    IN  Listed(n, Member, MemberTexts)

\* A text is parsed exactly when the grammar has it, and past the size R's parser is asked
\* for, every other one is an error
GrammarExact(first, n) ==
    LET texts == {t \in ValueTexts(n) : SubSeq(t, 1, Len(first)) = first}
    IN  \A rest \in [1 .. n - Len(first) -> Letters] :
            LET r == JsonFast(first \o rest, Large + 1, [keep |-> TRUE, asChar |-> FALSE])
            IN  r.kind = (IF first \o rest \in texts THEN "value" ELSE "error")

\* The writing of a value, with a blank where one may be
RECURSIVE Text(_, _), Joined(_, _)
Joined(parts, blank) ==
    IF parts = <<>> THEN <<>>
    ELSE Head(parts) \o (IF Len(parts) = 1 THEN <<>> ELSE blank \o <<",">> \o blank) \o Joined(Tail(parts), blank)

Written(name) == <<Quote>> \o name \o <<Quote>>

Text(v, blank) ==
    CASE "array" \in DOMAIN v ->
             <<"[">> \o blank \o Joined(Each(Len(v.array), LAMBDA i : Text(v.array[i], blank)), blank) \o blank \o <<"]">>
      [] "object" \in DOMAIN v ->
             <<"{">> \o blank
             \o Joined(Each(Len(v.names), LAMBDA i : Written(v.names[i]) \o blank \o <<":">> \o Text(v.object[i], blank)), blank)
             \o blank \o <<"}">>
      [] "string" \in DOMAIN v -> Written(v.string)
      [] OTHER -> <<v.word>>

RECURSIVE Levels(_), Repeats(_)
Kids(v)    == IF "object" \in DOMAIN v THEN v.object ELSE IF "array" \in DOMAIN v THEN v.array ELSE <<>>
Levels(v)  == (IF "object" \in DOMAIN v \/ "array" \in DOMAIN v THEN 1 ELSE 0)
              + Fold(LAMBDA acc, n : IF n > acc THEN n ELSE acc, 0, Each(Len(Kids(v)), LAMBDA i : Levels(Kids(v)[i])))
Repeats(v) == \/ "object" \in DOMAIN v /\ \E i, j \in 1 .. Len(v.names) : i < j /\ v.names[i] = v.names[j]
              \/ \E i \in 1 .. Len(Kids(v)) : Repeats(Kids(v)[i])

\* A value comes back as it was written, whatever the blanks; a key given twice is refused
\* unless both are kept, and so is one level more than the limit
ValueReadBack(v, blank, keep) ==
    LET r == JsonFast(blank \o Text(v, blank) \o blank, 0, [keep |-> keep, asChar |-> FALSE])
    IN  IF Levels(v) > MaxDepth THEN r.kind = "error"
        ELSE IF Repeats(v) /\ ~keep THEN r.kind = "error" /\ r.why = "duplicate key"
        ELSE r.kind = "value" /\ r.value = v

\* A whole number below the largest double is never changed in silence: it is read as
\* itself, kept as its digits, or a double that R warns of; only a larger one is infinite,
\* and one written as a decimal is left to R
NumberKept(whole, asChar) ==
    LET r == JsonFast(whole, 0, [keep |-> FALSE, asChar |-> asChar])
        v == Natural(SubSeq(whole, IF whole[1] = "-" THEN 2 ELSE 1, Len(whole)))
        n == IF whole[1] = "-" THEN -v ELSE v
    IN  /\ r.kind = "value"
        /\ CASE "int" \in DOMAIN r.value      -> r.value.int = n
             [] "double" \in DOMAIN r.value   -> (r.value.double = n) = (r.token = <<>>)
             [] "infinite" \in DOMAIN r.value -> ~asChar /\ v >= Huge /\ r.value.infinite = (n < 0)
             [] OTHER                         -> asChar /\ r.value.text = whole
        /\ asChar => r.token = <<>>
        /\ v >= Exact /\ v < Past => JsonFast(whole \o <<".", "0">>, 0, [keep |-> FALSE, asChar |-> asChar]).kind = "NULL"

\* The characters below 0x110000 that are no surrogates are exactly those with an encoding
\* the check takes, and an altered encoding is not taken for another form of the same one
Utf8Exact(cp) ==
    LET bytes == PutUtf8(cp)
        Decoded(b) == IF Len(b) = 1 THEN b[1]
                      ELSE Fold(LAMBDA acc, x : 64 * acc + (x - 128), b[1] % 2 ^ (7 - Len(b)), Tail(b))
    IN  /\ ValidUtf8(bytes) = (cp < 1114112 /\ cp \notin 55296 .. 57343)
        /\ Decoded(bytes) = cp
        /\ Len(bytes) > 1 => /\ ~ValidUtf8(Tail(bytes)) /\ ~ValidUtf8(SubSeq(bytes, 1, Len(bytes) - 1))
                             /\ ~ValidUtf8(bytes \o <<128>>)
        /\ cp < 128   => ~ValidUtf8(<<192 + cp \div 64, 128 + (cp % 64)>>)
        /\ cp < 2048  => ~ValidUtf8(<<224, 128 + cp \div 64, 128 + (cp % 64)>>)
        /\ cp < 65536 => ~ValidUtf8(<<240, 128 + cp \div 4096, 128 + ((cp \div 64) % 64), 128 + (cp % 64)>>)

\* Two escapes are the character of a pair of surrogates or two characters, and no text has
\* half a pair or NUL
EscapesExact(x, y) ==
    LET a == Hex[x]
        b == Hex[y]
        r == JsonFast(<<Quote, "\\", "u", x, "\\", "u", y, Quote>>, 0, [keep |-> FALSE, asChar |-> FALSE])
        Alone(c) == c # 0 /\ c \notin 55296 .. 57343
    IN  IF a \in 55296 .. 56319 /\ b \in 56320 .. 57343
        THEN r.value.string = <<CharOf[65536 + 1024 * (a % 1024) + (b % 1024)]>>
        ELSE IF Alone(a) /\ Alone(b) THEN r.value.string = <<CharOf[a], CharOf[b]>>
        ELSE r.kind = "NULL"
=============================================================================
