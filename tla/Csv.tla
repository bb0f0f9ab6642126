-------------------------------- MODULE Csv --------------------------------
(***************************************************************************)
(* The CSV reader of the curated tables (rmbl_csv.c).  A text is a         *)
(* sequence of characters; the byte-order mark, three bytes, is one.       *)
(***************************************************************************)
EXTENDS Fold

CONSTANTS
    MaxColumns,  \* fields a header may have (1,000,000)
    Slack,       \* cells beyond the bytes of the text (10,000,000)
    IntDigits,   \* digits of the largest integer (10)
    IntMax,      \* 2,147,483,647
    NumLen       \* characters of the longest number (63)

Quote  == "\""
Breaks == {"\n", "\r"}
Blanks == {" ", "\t"}
Digits == {"0", "1", "2", "3", "4", "5", "6", "7", "8", "9"}
Mark   == "bom"

Is(s, p, set) == p <= Len(s) /\ s[p] \in set

RECURSIVE Skip(_, _, _), Closing(_, _), PostEnd(_, _, _)

\* The first place from p on that is not in the set
Skip(s, p, set) == IF Is(s, p, set) THEN Skip(s, p + 1, set) ELSE p

\* The quote that closes a quoted field: a doubled one does not
Closing(s, p) ==
    IF p > Len(s) THEN p
    ELSE IF s[p] # Quote THEN Closing(s, p + 1)
    ELSE IF Is(s, p + 1, {Quote}) THEN Closing(s, p + 2)
    ELSE p

\* The end of the text after the closing quote; a quote there opens a quoted run again
PostEnd(s, p, quoted) ==
    IF p > Len(s) \/ (~quoted /\ s[p] \in {","} \cup Breaks) THEN [end |-> p, open |-> quoted]
    ELSE IF s[p] # Quote THEN PostEnd(s, p + 1, quoted)
    ELSE IF quoted /\ Is(s, p + 1, {Quote}) THEN PostEnd(s, p + 2, quoted)
    ELSE PostEnd(s, p + 1, ~quoted)

-----------------------------------------------------------------------------
(* A field, as the pieces of the text it takes.                            *)

Malformed == [malformed |-> TRUE]

QuotedSpan(s, p, q) ==
    LET close == Closing(s, q + 1)
        post  == PostEnd(s, close + 1, FALSE)
    IN  IF close > Len(s) \/ post.open THEN Malformed
        ELSE [malformed |-> FALSE, quoted |-> TRUE, end |-> post.end,
              pre  |-> SubSeq(s, p, q - 1),
              text |-> SubSeq(s, q + 1, close - 1),
              post |-> SubSeq(s, close + 1, post.end - 1)]

\* A quote in it is refused: read.csv() would swallow the rest of the file
PlainSpan(s, p) ==
    LET RECURSIVE End(_)
        End(i) == IF i > Len(s) \/ s[i] \in {",", Quote} \cup Breaks THEN i ELSE End(i + 1)
        end    == End(p)
    IN  IF Is(s, end, {Quote}) THEN Malformed
        ELSE [malformed |-> FALSE, quoted |-> FALSE, end |-> end,
              pre |-> <<>>, text |-> SubSeq(s, p, end - 1), post |-> <<>>]

\* Blanks before an opening quote are part of the field
Span(s, p) ==
    LET q == Skip(s, p, Blanks)
    IN  IF Is(s, q, {Quote}) THEN QuotedSpan(s, p, q) ELSE PlainSpan(s, p)

SpanLen(span) == Len(span.pre) + Len(span.text) + Len(span.post)

\* Past the line ending at p, if there is one
PastBreak(s, p) ==
    IF Is(s, p, {"\r"}) /\ Is(s, p + 1, {"\n"}) THEN p + 2 ELSE p + 1

RECURSIVE SpansFrom(_, _, _)
SpansFrom(s, p, spans) ==
    LET span == Span(s, p)
    IN  IF span.malformed THEN [malformed |-> TRUE]
        ELSE IF Is(s, span.end, {","}) THEN SpansFrom(s, span.end + 1, Append(spans, span))
        ELSE [malformed |-> FALSE, spans |-> Append(spans, span), next |-> PastBreak(s, span.end)]

\* The record at p: "line" is an empty line, "quotes" a line of "" alone, which is blank
\* too but still a header
Record(s, p) ==
    IF Is(s, p, Breaks)
    THEN [malformed |-> FALSE, empty |-> "line", spans |-> <<>>, next |-> PastBreak(s, p)]
    ELSE LET r == SpansFrom(s, p, <<>>)
         IN  IF r.malformed THEN Malformed
             ELSE IF Len(r.spans) = 1 /\ r.spans[1].quoted /\ SpanLen(r.spans[1]) = 0
             THEN [malformed |-> FALSE, empty |-> "quotes", spans |-> <<>>, next |-> r.next]
             ELSE [malformed |-> FALSE, empty |-> "no", spans |-> r.spans, next |-> r.next]

-----------------------------------------------------------------------------
(* The text of a field: doubled quotes undone, and a CR or CRLF inside     *)
(* quotes made a newline.                                                  *)

RECURSIVE Unquoted(_, _), Reread(_, _, _)

Newline(t, i) == IF Is(t, i + 1, {"\n"}) THEN <<>> ELSE <<"\n">>

Unquoted(t, i) ==
    IF i > Len(t) THEN <<>>
    ELSE IF t[i] = Quote /\ Is(t, i + 1, {Quote}) THEN <<Quote>> \o Unquoted(t, i + 2)
    ELSE IF t[i] = "\r" THEN Newline(t, i) \o Unquoted(t, i + 1)
    ELSE <<t[i]>> \o Unquoted(t, i + 1)

\* After the closing quote, quotes go on being quotes
Reread(t, i, quoted) ==
    IF i > Len(t) THEN <<>>
    ELSE IF t[i] = Quote
    THEN IF quoted /\ Is(t, i + 1, {Quote}) THEN <<Quote>> \o Reread(t, i + 2, quoted)
         ELSE Reread(t, i + 1, ~quoted)
    ELSE IF quoted /\ t[i] = "\r" THEN Newline(t, i) \o Reread(t, i + 1, quoted)
    ELSE <<t[i]>> \o Reread(t, i + 1, quoted)

Field(span) ==
    IF span.quoted THEN span.pre \o Unquoted(span.text, 1) \o Reread(span.post, 1, FALSE)
    ELSE span.text

-----------------------------------------------------------------------------
(* What a column's bytes alone decide of its type.                         *)

\* Values are sequences here: NA is one that no field reads as
NA == <<"NA", "">>

IsNa(t) == t \in {<<>>, <<"N", "A">>}

\* The words TRUE and FALSE are one character each here, beside T and F
Lgl(t) == IF t \in {<<"T">>, <<"TRUE">>} THEN <<"T">> ELSE <<"F">>

IsLgl(t) == t \in {<<"T">>, <<"F">>, <<"TRUE">>, <<"FALSE">>}

ValueOf == [d \in Digits |-> CASE d = "0" -> 0 [] d = "1" -> 1 [] d = "2" -> 2 [] d = "3" -> 3 [] d = "4" -> 4
                               [] d = "5" -> 5 [] d = "6" -> 6 [] d = "7" -> 7 [] d = "8" -> 8 [] d = "9" -> 9]

\* The digits of an integer without its leading zeros, no more than those of the largest
IntText(t) ==
    LET from   == IF Is(t, 1, {"+", "-"}) THEN 2 ELSE 1
        first  == Skip(t, from, {"0"})
        digits == SubSeq(t, IF first > Len(t) THEN first - 1 ELSE first, Len(t))
    IN  [neg |-> Is(t, 1, {"-"}), digits |-> digits,
         ok  |-> from <= Len(t) /\ Len(digits) <= IntDigits]

Int_(t) ==
    LET x == IntText(t)
        v == Fold(LAMBDA acc, d : 10 * acc + ValueOf[d], 0, x.digits)
    IN  <<IF x.neg THEN -v ELSE v>>

IsInt(t) ==
    /\ IntText(t).ok
    /\ \A i \in 1 .. Len(IntText(t).digits) : IntText(t).digits[i] \in Digits
    /\ Int_(t)[1] \in -IntMax .. IntMax

\* [+-]?(digits[.digits] | .digits)([eE][+-]?digits)?
IsNum(t) ==
    LET a == IF Is(t, 1, {"+", "-"}) THEN 2 ELSE 1
        b == Skip(t, a, Digits)
        c == IF Is(t, b, {"."}) THEN Skip(t, b + 1, Digits) ELSE b
        e == IF Is(t, c + 1, {"+", "-"}) THEN c + 2 ELSE c + 1
        f == Skip(t, e, Digits)
    IN  /\ c - a > (IF Is(t, b, {"."}) THEN 1 ELSE 0)
        /\ IF Is(t, c, {"e", "E"}) THEN f > e /\ f = Len(t) + 1 ELSE c = Len(t) + 1
        /\ Len(t) <= NumLen

\* A column after one more of its fields; `word` says that a logical word was seen, after
\* which a number makes it text
Typed(col, t) ==
    IF col.type = "str" \/ IsNa(t) THEN col
    ELSE IF \E i \in 1 .. Len(t) : t[i] \in Blanks THEN [col EXCEPT !.type = "str"]
    ELSE IF col.type = "lgl" /\ IsLgl(t) THEN [col EXCEPT !.word = TRUE]
    ELSE IF col.word THEN [col EXCEPT !.type = "str"]
    ELSE IF col.type \in {"lgl", "int"} /\ IsInt(t) THEN [col EXCEPT !.type = "int"]
    ELSE IF col.type # "str" /\ IsNum(t) THEN [col EXCEPT !.type = "num"]
    ELSE [col EXCEPT !.type = "str"]

\* The value of a field in a column of a type; that of a decimal number is its text
Value(type, t) ==
    CASE type = "int" -> IF IsNa(t) THEN NA ELSE Int_(t)
      [] type = "num" -> IF IsNa(t) THEN NA ELSE t
      [] type = "lgl" -> IF IsNa(t) THEN NA ELSE Lgl(t)
      [] OTHER        -> IF t = <<"N", "A">> THEN NA ELSE t

-----------------------------------------------------------------------------
(* The table.                                                              *)

Refused(why) == [refused |-> why]

DropNul(s) == SelectSeq(s, LAMBDA c : c # "nul")

RECURSIVE Header(_, _), Rows(_, _, _, _), RowCount(_, _, _)

\* The first line with something on it
Header(s, p) ==
    IF p > Len(s) THEN [malformed |-> FALSE, empty |-> "line", spans |-> <<>>, next |-> p]
    ELSE LET r == Record(s, p)
         IN  IF r.malformed \/ r.empty # "line" THEN r ELSE Header(s, r.next)

\* The records from p on, at most `ncol` fields each
Rows(s, p, ncol, rows) ==
    IF p > Len(s) THEN [refused |-> "", rows |-> rows]
    ELSE LET r == Record(s, p)
         IN  IF r.malformed THEN Refused("malformed")
             ELSE IF r.empty # "no" THEN Rows(s, r.next, ncol, rows)
             ELSE IF Len(r.spans) > ncol THEN Refused("wider than the header")
             ELSE Rows(s, r.next, ncol, Append(rows, Each(Len(r.spans), LAMBDA j : Field(r.spans[j]))))

RowCount(s, p, rows) ==
    IF p > Len(s) THEN [refused |-> "", rows |-> rows]
    ELSE LET r == Record(s, p)
         IN  IF r.malformed THEN Refused("malformed")
             ELSE RowCount(s, r.next, IF r.empty = "no" THEN rows + 1 ELSE rows)

\* The records below a header of no columns are counted
NoColumns(s, p) ==
    LET r == RowCount(s, p, 0)
    IN  IF r.refused # "" THEN r ELSE [refused |-> "", names |-> <<>>, columns |-> <<>>, nrow |-> r.rows]

RECURSIVE TrimEnd(_, _)
TrimEnd(t, most) ==
    IF most > 0 /\ t # <<>> /\ t[Len(t)] \in Blanks THEN TrimEnd(SubSeq(t, 1, Len(t) - 1), most - 1) ELSE t

\* The places where a name starts and ends in its field.  Of a quoted one the blanks before
\* its quotes go, and at the end as many as the text after them has characters, the quotes
\* there counted: back through the quoted text too, and to the start of the buffer, before
\* which a zero byte of R's own stands
NameStart(span) ==
    IF span.quoted THEN Len(span.pre) + 1 ELSE Skip(Field(span), 1, Blanks)
NameEnd(span) ==
    LET t == Field(span)
    IN  IF ~span.quoted THEN Len(TrimEnd(t, Len(t) + 1 - NameStart(span)))
        ELSE IF Len(t) > Len(span.pre) THEN Len(TrimEnd(t, Len(span.post)))
        ELSE Len(t)

Name(span) == SubSeq(Field(span), NameStart(span), NameEnd(span))

\* A byte-order mark at the start of the rows goes, inside an opening quote and after an
\* empty quoted field too, and the blank lines before it
WithoutMark(s, p) ==
    LET q == Skip(s, p, Breaks)
        Cut(i) == [s |-> SubSeq(s, 1, i - 1) \o SubSeq(s, i + 1, Len(s)), p |-> p]
    IN  IF Is(s, q, {Mark}) THEN [s |-> s, p |-> q + 1]
        ELSE IF Is(s, q, {Quote}) /\ Is(s, q + 1, {Quote}) /\ Is(s, q + 2, {Mark}) THEN Cut(q + 2)
        ELSE IF Is(s, q, {Quote}) /\ Is(s, q + 1, {Mark}) THEN Cut(q + 1)
        ELSE [s |-> s, p |-> p]

Table(s, header) ==
    LET ncol == Len(header.spans)
        body == WithoutMark(s, header.next)
        r    == Rows(body.s, body.p, ncol, <<>>)
        Cell(i, j) == IF j <= Len(r.rows[i]) THEN r.rows[i][j] ELSE <<>>
        type == Each(ncol, LAMBDA j :
                    For(LAMBDA col, i : IF j <= Len(r.rows[i]) THEN Typed(col, r.rows[i][j]) ELSE col,
                        [type |-> "lgl", word |-> FALSE], 1, Len(r.rows)).type)
    IN  IF r.refused # "" THEN r
        ELSE IF Len(r.rows) * ncol > Len(body.s) + Slack THEN Refused("mostly filling")
        ELSE IF \E j \in 1 .. ncol : NameEnd(header.spans[j]) < NameStart(header.spans[j]) - 1
        THEN Refused("negative length")
        ELSE [refused |-> "", names |-> Each(ncol, LAMBDA j : Name(header.spans[j])),
              columns |-> Each(ncol, LAMBDA j : Each(Len(r.rows), LAMBDA i : Value(type[j], Cell(i, j)))),
              nrow |-> Len(r.rows)]

\* NUL bytes go first; then the mark at the start of the header
Split(bytes, skipNul) ==
    LET s     == IF skipNul THEN DropNul(bytes) ELSE bytes
        q     == Skip(s, 1, Breaks)
        start == IF Is(s, q, {Mark}) THEN q + 1 ELSE 1
        h     == Header(s, start)
        blank(span) == ~span.quoted /\ Skip(span.text, 1, Blanks) > Len(span.text)
    IN  IF start > 1 /\ (start > Len(s) \/ s[start] \in Breaks) THEN NoColumns(s, PastBreak(s, start))
        ELSE IF h.malformed THEN Refused("malformed")
        ELSE IF h.empty = "line" THEN [refused |-> "", names |-> <<>>, columns |-> <<>>, nrow |-> 0]
        ELSE IF h.empty = "quotes" \/ (Len(h.spans) = 1 /\ blank(h.spans[1])) THEN NoColumns(s, h.next)
        ELSE IF Len(h.spans) > MaxColumns THEN Refused("too many columns")
        ELSE Table(s, h)

-----------------------------------------------------------------------------
(* What the reader should give, independently of how it is written: the    *)
(* text a character at a time, the type of a column from all its values,   *)
(* and a table as RFC 4180 writes it.                                      *)

EndRecord(r) ==
    [r EXCEPT !.at = "start", !.text = <<>>, !.fields = <<>>, !.line = <<>>,
              !.rows = IF r.line \in {<<>>, <<Quote, Quote>>} THEN @
                       ELSE Append(@, Append(r.fields, r.text))]

\* `at` is where in a field the reader is: at its start or in blanks, in plain text, inside
\* quotes, at a quote that may close them, or in the text after them
Read(r, c) ==
    LET line == [r EXCEPT !.line = Append(@, c), !.cr = FALSE]
    IN  IF r.at = "malformed" THEN r
        ELSE IF r.cr /\ c = "\n" THEN [r EXCEPT !.cr = FALSE]
        ELSE IF r.at = "quoted"
        THEN IF c = Quote THEN [line EXCEPT !.at = "quote"]
             ELSE [line EXCEPT !.text = Append(@, IF c = "\r" THEN "\n" ELSE c), !.cr = (c = "\r")]
        ELSE IF c \in Breaks THEN [EndRecord(r) EXCEPT !.cr = (c = "\r")]
        ELSE IF c = "," THEN [line EXCEPT !.fields = Append(@, r.text), !.text = <<>>, !.at = "start"]
        ELSE IF c = Quote
        THEN CASE r.at = "quote" -> [line EXCEPT !.text = Append(@, Quote), !.at = "quoted"]
               [] r.at = "plain" -> [line EXCEPT !.at = "malformed"]
               [] OTHER          -> [line EXCEPT !.at = "quoted"]
        ELSE [line EXCEPT !.text = Append(@, c),
                          !.at = CASE r.at = "start" -> (IF c \in Blanks THEN "start" ELSE "plain")
                                   [] r.at = "quote" -> "after"
                                   [] OTHER          -> r.at]

ReadRows(s) ==
    LET r == Fold(Read, [at |-> "start", text |-> <<>>, fields |-> <<>>, line |-> <<>>, rows |-> <<>>, cr |-> FALSE], s)
    IN  IF r.at \in {"quoted", "malformed"} THEN Refused("malformed")
        ELSE [refused |-> "", rows |-> EndRecord(r).rows]

TypeOf(texts) ==
    LET some == {texts[i] : i \in 1 .. Len(texts)} \ {<<>>, <<"N", "A">>}
    IN  IF \A t \in some : IsLgl(t) THEN "lgl"
        ELSE IF \A t \in some : IsInt(t) THEN "int"
        ELSE IF \A t \in some : IsNum(t) THEN "num"
        ELSE "str"

RECURSIVE Doubled(_)
Doubled(t) == IF t = <<>> THEN <<>>
              ELSE (IF t[1] = Quote THEN <<Quote, Quote>> ELSE <<t[1]>>) \o Doubled(Tail(t))

Written(fields, break) ==
    Fold(LAMBDA line, t : (IF line = <<>> THEN line ELSE Append(line, ",")) \o <<Quote>> \o Doubled(t) \o <<Quote>>,
         <<>>, fields) \o break

\* The records of a text are those read a character at a time
ReadsAsWritten(s) == Rows(s, 1, Len(s) + 1, <<>>) = ReadRows(s)

\* A column's type is what all its values are, whatever their order, and every value of a
\* typed column is read as one
TypesExact(texts) ==
    LET type == Fold(Typed, [type |-> "lgl", word |-> FALSE], texts).type
    IN  /\ type = TypeOf(texts)
        /\ \A i \in 1 .. Len(texts) :
               type # "str" => (IsNa(texts[i]) <=> Value(type, texts[i]) = NA)

\* A header of two columns, the first of them named by quoted text between others
Headed(pre, quoted, post) ==
    Split(pre \o <<Quote>> \o quoted \o <<Quote>> \o post \o <<",", "b">>, FALSE)

\* With nothing but blanks around its quotes, a name is what is quoted, its blanks included
NameExact(pre, quoted, post) ==
    LET r == Headed(pre, quoted, post) IN r.refused = "" /\ r.names = <<quoted, <<"b">>>>

\* A table of texts comes back as it was written, with the byte-order mark, NUL bytes and
\* whichever line ending the file has, and its header without the blanks around the names
TableReadBack(rows, break, mark, nul) ==
    LET names == <<<<"a">>, <<" ", "b">>>>
        head  == <<" ", "a", " ", ",", " ", Quote, " ", "b", Quote, " ">> \o break
        body  == Fold(LAMBDA acc, row : acc \o Written(row, break), <<>>, rows)
        text  == mark \o head \o mark \o body
        bytes == IF nul THEN Fold(LAMBDA acc, c : acc \o <<"nul", c>>, <<>>, text) ELSE text
        Column(j) == Each(Len(rows), LAMBDA i : rows[i][j])
        Read_(col) == IF TypeOf(col) = "lgl" THEN Each(Len(rows), LAMBDA i : NA) ELSE col
    IN  Split(bytes, nul) = [refused |-> "", names |-> names, nrow |-> Len(rows),
                             columns |-> <<Read_(Column(1)), Read_(Column(2))>>]
=============================================================================
