----------------------------- MODULE JsonLexer ------------------------------
(***************************************************************************)
(* The lexer of include/json.h: the automaton that re2c made of the token  *)
(* grammar, one label of scan() at a time, over a buffer that is refilled  *)
(* while the automaton is on its way, and the conversions of its tokens.   *)
(* Bytes are numbers, positions count from 0, and a token is the bytes     *)
(* from its position "from" up to, not including, "to".                    *)
(***************************************************************************)
EXTENDS Integers, Sequences, SequencesExt

CONSTANTS
    Inputs,        \* records [mode, text]: a text in memory or in a stream
    MaxInteger,    \* the largest number_integer_t
    MaxUnsigned    \* the largest number_unsigned_t

\* Texts of bytes, and types that hold every digit.
TextsAndLimits ==
    /\ Inputs \subseteq [mode : {"buffer", "stream"}, text : Seq(0..255)]
    /\ MaxInteger \in Nat /\ MaxUnsigned \in Nat
    /\ MaxInteger >= 9 /\ MaxUnsigned >= 9     \* so that max - digit does not wrap
ASSUME LexerAssumption == TextsAndLimits

VARIABLES
    mode, text,    \* the input
    data,          \* everything that was put into the buffer; its end is m_limit
    taken, eof,    \* how much was read of the stream, and its eof flag
    start,         \* m_start
    cursor,        \* m_cursor
    marker,        \* m_marker
    yyaccept,
    label,         \* the label of scan() that is executed next
    tokens         \* what scan() returned so far

vars == <<mode, text, data, taken, eof, start, cursor, marker, yyaccept, label, tokens>>

Newline   == 10
Quote     == 34
Backslash == 92
Digit     == 48..57
HexDigit  == Digit \cup 65..70 \cup 97..102
White     == {9, 10, 13, 32}

-----------------------------------------------------------------------------
(* The automaton: for every label the labels it may go to, each with the   *)
(* bytes that lead there.                                                  *)

Edge(bytes, to) == [bytes |-> bytes, to |-> to]

Dispatch == {
    Edge({0}, "L2"), Edge(White, "L6"), Edge({Quote}, "L9"), Edge({44}, "L10"),
    Edge({45}, "L12"), Edge({48}, "L13"), Edge(49..57, "L15"), Edge({58}, "L17"),
    Edge({91}, "L19"), Edge({93}, "L21"), Edge({102}, "L23"), Edge({110}, "L24"),
    Edge({116}, "L25"), Edge({123}, "L26"), Edge({125}, "L28")}

\* A slip of StringBody: E0 is taken for one of the other lead bytes.
StringBody_Overlong == {
    Edge(32..127 \ {Quote, Backslash}, "L30"), Edge({Quote}, "L33"), Edge({Backslash}, "L35"),
    Edge(194..223, "L36"), Edge(224..239 \ {237}, "L38"),
    Edge({237}, "L39"), Edge({240}, "L40"), Edge(241..243, "L41"), Edge({244}, "L42")}

\* L9, L30 and L31: a byte of a string that begins a character.
StringBody == {
    Edge(32..127 \ {Quote, Backslash}, "L30"), Edge({Quote}, "L33"), Edge({Backslash}, "L35"),
    Edge(194..223, "L36"), Edge({224}, "L37"), Edge(225..239 \ {237}, "L38"),
    Edge({237}, "L39"), Edge({240}, "L40"), Edge(241..243, "L41"), Edge({244}, "L42")}

\* L35: the byte after a backslash.
Escape == {Edge({Quote, 47, Backslash, 98, 102, 110, 114, 116}, "L30"), Edge({117}, "L48")}

\* L36 to L42: what may follow a lead byte.
Continuation == [
    L36 |-> {Edge(128..191, "L30")}, L37 |-> {Edge(160..191, "L36")},
    L38 |-> {Edge(128..191, "L36")}, L39 |-> {Edge(128..159, "L36")},
    L40 |-> {Edge(144..191, "L38")}, L41 |-> {Edge(128..191, "L38")},
    L42 |-> {Edge(128..143, "L38")}]

\* L48, L57, L63 and L66: the four digits after \u.
Hex == [L48 |-> {Edge(HexDigit, "L57")}, L57 |-> {Edge(HexDigit, "L63")},
        L63 |-> {Edge(HexDigit, "L66")}, L66 |-> {Edge(HexDigit, "L30")}]

\* L12, L13 and L15: the sign and the digits of a number.
Integer == [
    L12 |-> {Edge({48}, "L13"), Edge(49..57, "L15")},
    L13 |-> {Edge({46}, "L43"), Edge({69, 101}, "L44")},
    L15 |-> {Edge(Digit, "L15"), Edge({46}, "L43"), Edge({69, 101}, "L44")}]

\* L43, L44, L49, L51 and L52: the fraction and the exponent.
Exponent == [
    L43 |-> {Edge(Digit, "L49")}, L44 |-> {Edge({43, 45}, "L51"), Edge(Digit, "L52")},
    L49 |-> {Edge(Digit, "L49"), Edge({69, 101}, "L44")},
    L51 |-> {Edge(Digit, "L52")}, L52 |-> {Edge(Digit, "L52")}]

\* false, null and true.
Literal == [
    L23 |-> {Edge({97}, "L45")}, L45 |-> {Edge({108}, "L54")}, L54 |-> {Edge({115}, "L58")},
    L58 |-> {Edge({101}, "L64")},
    L24 |-> {Edge({117}, "L46")}, L46 |-> {Edge({108}, "L55")}, L55 |-> {Edge({108}, "L59")},
    L25 |-> {Edge({114}, "L47")}, L47 |-> {Edge({117}, "L56")}, L56 |-> {Edge({101}, "L61")}]

Edges ==
    [l \in {"L6", "L9", "L30", "L35"} \cup DOMAIN Continuation \cup DOMAIN Hex \cup DOMAIN Integer
           \cup DOMAIN Exponent \cup DOMAIN Literal |->
        CASE l = "L6"              -> {Edge(White, "L6")}
          [] l \in {"L9", "L30"}   -> StringBody
          [] l = "L35"             -> Escape
          [] l \in DOMAIN Continuation -> Continuation[l]
          [] l \in DOMAIN Hex      -> Hex[l]
          [] l \in DOMAIN Integer  -> Integer[l]
          [] l \in DOMAIN Exponent -> Exponent[l]
          [] l \in DOMAIN Literal  -> Literal[l]]

\* Where a label goes on any other byte: whitespace is left, a number ends,
\* and what can be no token is an error, at the marker if there is one.
Otherwise(l) ==
    CASE l = "L6" -> "scan"
      [] l \in {"L9", "L12", "L23", "L24", "L25"} -> "L5"
      [] l \in {"L13", "L15", "L49", "L52"} -> "L14"
      [] OTHER -> "L32"

Goto(edges, b, otherwise) ==
    IF \E e \in edges : b \in e.bytes THEN (CHOOSE e \in edges : b \in e.bytes).to
    ELSE otherwise

\* The labels that end scan(), and the token_type they return.
Ends == [L2 |-> "end_of_input", L5 |-> "parse_error", L10 |-> "value_separator",
         L14 |-> "value_number", L17 |-> "name_separator", L19 |-> "begin_array",
         L21 |-> "end_array", L26 |-> "begin_object", L28 |-> "end_object",
         L33 |-> "value_string", L59 |-> "literal_null", L61 |-> "literal_true",
         L64 |-> "literal_false", L4 |-> "parse_error"]

\* What a label sets yyaccept to, where it sets the marker.
Marks == [L9 |-> 0, L23 |-> 0, L24 |-> 0, L25 |-> 0, L13 |-> 1, L15 |-> 1, L49 |-> 1]

\* A slip of Needs: the digits of a number are read without a refill.
Needs_NoDigits(l) ==
    CASE l = "scan" -> 5
      [] l \in {"L6", "L30", "L35", "L36", "L37", "L38", "L39", "L40", "L41", "L42",
                "L48", "L52", "L57", "L63", "L66"} -> 1
      [] OTHER -> 0

\* How many bytes a label wants in the buffer before it reads one; the labels
\* that ask for none rely on what was asked for at the beginning of the token.
Needs(l) ==
    CASE l = "scan" -> 5
      [] l \in {"L15", "L49"} -> 3
      [] l \in {"L6", "L30", "L35", "L36", "L37", "L38", "L39", "L40", "L41", "L42",
                "L48", "L52", "L57", "L63", "L66"} -> 1
      [] OTHER -> 0

-----------------------------------------------------------------------------
(* The steps.                                                              *)

\* A line of the stream without its newline.
LineEnd(from) ==
    LET at == {i \in (from + 1)..Len(text) : text[i] = Newline} IN
    IF at = {} THEN Len(text) + 1 ELSE Min(at)
Line(from) == SubSeq(text, from + 1, LineEnd(from) - 1)

\* fill_line_buffer: one more line, and at the end a NUL and n - 1 bytes \x01.
FillLineBuffer(n) ==
    IF mode = "buffer" \/ eof
    THEN /\ data' = data \o <<0>> \o [i \in 1..(n - 1) |-> 1]
         /\ UNCHANGED <<taken, eof>>
    ELSE /\ data' = data \o Line(taken) \o <<Newline>>
         /\ taken' = Min({LineEnd(taken), Len(text)})
         /\ eof' = (LineEnd(taken) > Len(text))

Refill(at, n) ==
    IF Len(data) - at < n THEN FillLineBuffer(n) ELSE UNCHANGED <<data, taken, eof>>

\* The byte order mark that the constructor for streams replaces by blanks.
Blanked(line) ==
    IF Len(line) >= 3 /\ SubSeq(line, 1, 3) = <<239, 187, 191>>
    THEN <<32, 32, 32>> \o SubSeq(line, 4, Len(line)) ELSE line

\* The constructors: the one for streams reads the first line.
Init ==
    /\ \E in \in Inputs : mode = in.mode /\ text = in.text
    /\ IF mode = "buffer"
       THEN data = text /\ taken = 0 /\ eof = FALSE
       ELSE /\ data = Blanked(Append(Line(0), Newline))
            /\ taken = Min({LineEnd(0), Len(text)})
            /\ eof = (LineEnd(0) > Len(text))
    /\ start = 0 /\ cursor = 0 /\ marker = 0 /\ yyaccept = 0
    /\ label = "scan" /\ tokens = <<>>

\* What a read at a position leads to; "outside" is a read behind the buffer.
Read(at, edges, otherwise) ==
    label' = IF at < Len(data') THEN Goto(edges, data'[at + 1], otherwise) ELSE "outside"

\* The beginning of scan, and of every turn of its loop.
Scan ==
    /\ label = "scan"
    /\ start' = cursor /\ yyaccept' = 0
    /\ Refill(cursor, Needs("scan"))
    /\ Read(cursor, Dispatch, "L4")
    /\ UNCHANGED <<mode, text, cursor, marker, tokens>>

\* A label that steps to the next byte and goes where it leads.
Move ==
    /\ label \in DOMAIN Edges
    /\ cursor' = cursor + 1
    /\ IF label \in DOMAIN Marks THEN marker' = cursor' /\ yyaccept' = Marks[label]
       ELSE UNCHANGED <<marker, yyaccept>>
    /\ Refill(cursor', Needs(label))
    /\ Read(cursor', Edges[label], Otherwise(label))
    /\ UNCHANGED <<mode, text, start, tokens>>

\* L32: what began like a longer token ends at the marker.
Back ==
    /\ label = "L32"
    /\ cursor' = marker
    /\ label' = IF yyaccept = 0 THEN "L5" ELSE "L14"
    /\ UNCHANGED <<mode, text, data, taken, eof, start, marker, yyaccept, tokens>>

\* scan returns; nobody calls it again after an error or the end.
Return ==
    /\ label \in DOMAIN Ends
    /\ cursor' = IF label \in {"L5", "L14"} THEN cursor ELSE cursor + 1
    /\ tokens' = Append(tokens, [type |-> Ends[label], from |-> start, to |-> cursor'])
    /\ label' = IF Ends[label] \in {"end_of_input", "parse_error"} THEN "done" ELSE "scan"
    /\ UNCHANGED <<mode, text, data, taken, eof, start, marker, yyaccept>>

Next == Scan \/ Move \/ Back \/ Return

Spec == Init /\ [][Next]_vars /\ WF_vars(Next)

-----------------------------------------------------------------------------
(* The conversions of tokens, and escape_string, their inverse.            *)

\* get_token_string.
GetTokenString(t) == SubSeq(data, t.from + 1, t.to)

HexToInt(c) == IF c \in Digit THEN c - 48 ELSE IF c < 97 THEN c - 55 ELSE c - 87
HexValue(s) ==
    LET first[i \in 0..Len(s)] == IF i = 0 THEN 0 ELSE 16 * first[i - 1] + HexToInt(s[i])
    IN first[Len(s)]

Thrown == [ok |-> FALSE, str |-> <<>>]
Bytes(s) == [ok |-> TRUE, str |-> s]
Then(r, rest) == IF r.ok /\ rest.ok THEN Bytes(r.str \o rest.str) ELSE Thrown

\* 16#35FDC00# takes the marks of the two surrogates away and adds 16#10000#.
CodePoint(codepoint1, codepoint2) == codepoint1 * 1024 + codepoint2 - 56613888

HighSurrogate == 55296..56319
LowSurrogate  == 56320..57343

\* to_unicode. The largest pair gives 16#10FFFF#, so its last exception is
\* never thrown.
ToUnicode(codepoint1, codepoint2) ==
    LET codepoint == IF codepoint1 \in HighSurrogate THEN CodePoint(codepoint1, codepoint2)
                     ELSE codepoint1
        Low(unit) == 128 + ((codepoint \div unit) % 64)
    IN IF codepoint1 \in HighSurrogate /\ codepoint2 \notin LowSurrogate THEN Thrown
       ELSE IF codepoint < 128 THEN Bytes(<<codepoint>>)
       ELSE IF codepoint <= 2047 THEN Bytes(<<192 + (codepoint \div 64), Low(1)>>)
       ELSE IF codepoint <= 65535
            THEN Bytes(<<224 + (codepoint \div 4096), Low(64), Low(1)>>)
       ELSE Bytes(<<240 + (codepoint \div 262144), Low(4096), Low(64), Low(1)>>)

Unescaped == [c \in {Quote, 47, Backslash, 98, 102, 110, 114, 116} |->
    CASE c = 98 -> 8 [] c = 102 -> 12 [] c = 110 -> 10 [] c = 114 -> 13 [] c = 116 -> 9
      [] OTHER -> c]

\* get_string, of a token with its quotes: no turn of its loop begins at the last one.
GetString(s) ==
    LET Hex4(i) == HexValue(SubSeq(s, i, i + 3))
        rest[i \in 2..(Len(s) + 12)] ==
            IF i >= Len(s) THEN Bytes(<<>>)
            ELSE IF s[i] # Backslash THEN Then(Bytes(<<s[i]>>), rest[i + 1])
            ELSE IF s[i + 1] # 117 THEN Then(Bytes(<<Unescaped[s[i + 1]]>>), rest[i + 2])
            ELSE IF Hex4(i + 2) \in HighSurrogate
                 THEN IF s[i + 6] # Backslash \/ s[i + 7] # 117 THEN Thrown
                      ELSE Then(ToUnicode(Hex4(i + 2), Hex4(i + 8)), rest[i + 12])
            ELSE IF Hex4(i + 2) \in LowSurrogate THEN Thrown
            ELSE Then(ToUnicode(Hex4(i + 2), 0), rest[i + 6])
    IN rest[2]

\* A slip of TooLarge: the digit is forgotten.
TooLarge_NoDigit(value, digit, max) == value > max \div 10

\* Whether value * 10 + digit would be more than max, without computing it.
TooLarge(value, digit, max) == value > (max - digit) \div 10

\* A turn of get_number's loop, on one character more: what is no digit or is
\* too large makes a float of it, and all but a point ends the loop.
NumberChar(n, c, max) ==
    IF n.stop THEN n
    ELSE IF c \notin Digit THEN [n EXCEPT !.float = TRUE, !.stop = (c # 46)]
    ELSE IF n.float THEN n
    ELSE IF TooLarge(n.value, c - 48, max) THEN [n EXCEPT !.float = TRUE]
    ELSE [n EXCEPT !.value = 10 * @ + (c - 48)]
Converted(s, max) ==
    LET after[i \in 0..Len(s)] ==
            IF i = 0 THEN [value |-> 0, float |-> FALSE, stop |-> FALSE]
            ELSE NumberChar(after[i - 1], s[i], max)
    IN after[Len(s)]

\* get_number: the values it may give. What is not an integer, or too large for
\* one, is left to strtod, and becomes null if that is not finite.
GetNumber(s) ==
    LET negative == s[1] = 45
        n == Converted(IF negative THEN Tail(s) ELSE s,
                       IF negative THEN MaxInteger + 1 ELSE MaxUnsigned)
    IN IF n.float THEN {[type |-> "number_float"], [type |-> "null"]}
       ELSE {[type |-> IF negative THEN "number_integer" ELSE "number_unsigned",
              value |-> IF negative THEN -n.value ELSE n.value]}

Short == [c \in {Quote, Backslash, 8, 9, 10, 12, 13} |->
    CASE c = 8 -> 98 [] c = 12 -> 102 [] c = 10 -> 110 [] c = 13 -> 114 [] c = 9 -> 116
      [] OTHER -> c]

\* extra_space: how many bytes more escape_string makes room for.
ExtraSpace(s) ==
    LET res[i \in 0..Len(s)] ==
            IF i = 0 THEN 0
            ELSE res[i - 1] + (IF s[i] \in DOMAIN Short THEN 1 ELSE IF s[i] < 32 THEN 5 ELSE 0)
    IN res[Len(s)]

HexOf(n) == IF n < 10 THEN 48 + n ELSE 87 + n

\* A slip of EscapeByte: the last control character is left as it is.
EscapeByte_Edge(c) ==
    IF c \in DOMAIN Short THEN <<Backslash, Short[c]>>
    ELSE IF c < 31 THEN <<Backslash, 117, 48, 48, HexOf(c \div 16), HexOf(c % 16)>>
    ELSE <<c>>

\* escape_string.
EscapeByte(c) ==
    IF c \in DOMAIN Short THEN <<Backslash, Short[c]>>
    ELSE IF c < 32 THEN <<Backslash, 117, 48, 48, HexOf(c \div 16), HexOf(c % 16)>>
    ELSE <<c>>
EscapeString(s) ==
    LET result[i \in 0..Len(s)] == IF i = 0 THEN <<>> ELSE result[i - 1] \o EscapeByte(s[i])
    IN result[Len(s)]

-----------------------------------------------------------------------------
(* Reference definitions: the grammar of RFC 7159.                         *)

Digits(s) == s # <<>> /\ \A i \in DOMAIN s : s[i] \in Digit
Drop(s, signs) == IF s # <<>> /\ s[1] \in signs THEN Tail(s) ELSE s

\* The number that decimal digits are.
Decimal(s) ==
    LET first[i \in 0..Len(s)] == IF i = 0 THEN 0 ELSE 10 * first[i - 1] + (s[i] - 48)
    IN first[Len(s)]

IsInteger(s) == LET d == Drop(s, {45}) IN Digits(d) /\ (d[1] = 48 => Len(d) = 1)
IsFraction(s) == s = <<>> \/ (s[1] = 46 /\ Digits(Tail(s)))
IsExponent(s) == s = <<>> \/ (s[1] \in {69, 101} /\ Digits(Drop(Tail(s), {43, 45})))
IsNumber(s) ==
    \E i \in 1..Len(s), j \in 1..Len(s) :
        /\ i <= j
        /\ IsInteger(SubSeq(s, 1, i))
        /\ IsFraction(SubSeq(s, i + 1, j))
        /\ IsExponent(SubSeq(s, j + 1, Len(s)))

\* UTF-8 by what it means: the bits of the lead byte and of the others give a
\* code point, which must need that many bytes and be no surrogate.
Lead(n) == <<0, 192, 224, 240>>[n]
Least(n) == <<0, 128, 2048, 65536>>[n]
Point(c) ==
    LET first[i \in 1..Len(c)] ==
            IF i = 1 THEN c[1] - Lead(Len(c)) ELSE 64 * first[i - 1] + (c[i] - 128)
    IN first[Len(c)]
IsCharacter(c) ==
    /\ Len(c) \in 1..4
    /\ Len(c) = 1 => c[1] < 128
    /\ c[1] >= Lead(Len(c)) /\ \A i \in 2..Len(c) : c[i] \in 128..191
    /\ Len(c) \in 2..3 => c[1] < Lead(Len(c) + 1)
    /\ Point(c) >= Least(Len(c)) /\ Point(c) <= 1114111
    /\ Point(c) \notin HighSurrogate /\ Point(c) \notin LowSurrogate

\* A unit of a string between its quotes, and the code point it stands for.
IsPlain(u) == IsCharacter(u) /\ u[1] >= 32 /\ u[1] \notin {Quote, Backslash}
IsShort(u) == Len(u) = 2 /\ u[1] = Backslash /\ u[2] \in DOMAIN Unescaped
IsLong(u)  == /\ Len(u) = 6 /\ u[1] = Backslash /\ u[2] = 117
              /\ \A i \in 3..6 : u[i] \in HexDigit
IsUnit(u)  == IsPlain(u) \/ IsShort(u) \/ IsLong(u)
UnitPoint(u) ==
    IF IsPlain(u) THEN Point(u)
    ELSE IF IsShort(u) THEN Unescaped[u[2]]
    ELSE HexValue(SubSeq(u, 3, 6))

\* The units from each position on: the one way to split the bytes, or "none".
Units(s, IsOne(_)) ==
    LET from[i \in 1..(Len(s) + 1)] ==
            IF i = Len(s) + 1 THEN [ok |-> TRUE, list |-> <<>>]
            ELSE LET ends == {j \in i..Min({i + 5, Len(s)}) :
                                  IsOne(SubSeq(s, i, j)) /\ from[j + 1].ok}
                 IN IF ends = {} THEN [ok |-> FALSE, list |-> <<>>]
                    ELSE LET j == Min(ends) IN
                         [ok |-> TRUE, list |-> <<SubSeq(s, i, j)>> \o from[j + 1].list]
    IN from[1]

Inside(s) == SubSeq(s, 2, Len(s) - 1)
IsString(s) == /\ Len(s) >= 2 /\ s[1] = Quote /\ s[Len(s)] = Quote
               /\ Units(Inside(s), IsUnit).ok

Fixed == [
    begin_array |-> <<91>>, end_array |-> <<93>>, begin_object |-> <<123>>,
    end_object |-> <<125>>, name_separator |-> <<58>>, value_separator |-> <<44>>,
    literal_true |-> <<116, 114, 117, 101>>, literal_false |-> <<102, 97, 108, 115, 101>>,
    literal_null |-> <<110, 117, 108, 108>>, end_of_input |-> <<0>>]

Is(type, s) == CASE type = "value_number" -> IsNumber(s)
                 [] type = "value_string" -> IsString(s)
                 [] OTHER -> s = Fixed[type]
IsToken(s) == \E type \in DOMAIN Fixed \cup {"value_number", "value_string"} : Is(type, s)

\* The text as it should be read: a stream without its byte order mark, with a
\* newline after the last line, and the end.
Source == (IF mode = "buffer" THEN text ELSE Blanked(Append(text, Newline))) \o <<0>>
Slice(from, to) == SubSeq(Source, from + 1, to)

\* The code points of a sequence of units, in which two surrogates are one.
Pairs(points) ==
    LET None == [ok |-> FALSE, list |-> <<>>]
        With(p, rest) == IF rest.ok THEN [ok |-> TRUE, list |-> <<p>> \o rest.list] ELSE None
        from[i \in 1..(Len(points) + 1)] ==
            IF i > Len(points) THEN [ok |-> TRUE, list |-> <<>>]
            ELSE IF points[i] \in LowSurrogate THEN None
            ELSE IF points[i] \notin HighSurrogate THEN With(points[i], from[i + 1])
            ELSE IF i = Len(points) \/ points[i + 1] \notin LowSurrogate THEN None
            ELSE With(65536 + (points[i] % 1024) * 1024 + (points[i + 1] % 1024), from[i + 2])
    IN from[1]

Ended == label = "done"
Found(type) == {GetTokenString(tokens[k]) : k \in {i \in DOMAIN tokens : tokens[i].type = type}}

-----------------------------------------------------------------------------
(* Properties.                                                             *)

\* The automaton finds, at every place, the longest token of the grammar that
\* begins there, leaves out nothing but whitespace and gives up only where no
\* token begins, whether the text is in memory or comes line by line.
LongestMatch ==
    Ended => \A k \in DOMAIN tokens :
        LET t == tokens[k] IN
        /\ \A i \in ((IF k = 1 THEN 0 ELSE tokens[k - 1].to) + 1)..t.from : Source[i] \in White
        /\ IF t.type = "parse_error"
           THEN \A to \in (t.from + 1)..Len(Source) : ~IsToken(Slice(t.from, to))
           ELSE /\ Is(t.type, Slice(t.from, t.to))
                /\ \A to \in (t.to + 1)..Len(Source) : ~IsToken(Slice(t.from, to))

\* get_string gives the UTF-8 of the characters that a string token denotes and
\* throws exactly for a surrogate that has no partner; what escape_string then
\* writes is a string that get_string reads back, and it fills exactly the space
\* that extra_space counted.
StringExact ==
    Ended => \A s \in Found("value_string") :
        LET r      == GetString(s)
            units  == Units(Inside(s), IsUnit).list
            points == Pairs([i \in DOMAIN units |-> UnitPoint(units[i])])
            chars  == Units(r.str, IsCharacter)
            e      == EscapeString(r.str)
            q      == <<Quote>> \o e \o <<Quote>>
        IN /\ r.ok = points.ok
           /\ r.ok => /\ chars.ok
                      /\ points.list = [i \in DOMAIN chars.list |-> Point(chars.list[i])]
                      /\ Len(e) = Len(r.str) + ExtraSpace(r.str)
                      /\ IsString(q) /\ GetString(q) = r

\* get_number keeps an integer exactly when its type can hold it, the smallest
\* one included, and everything else is a float.
NumberExact ==
    Ended => \A s \in Found("value_number") :
        LET value == Decimal(Drop(s, {45}))
            fits  == IsInteger(s) /\ value <= (IF s[1] = 45 THEN MaxInteger + 1 ELSE MaxUnsigned)
        IN IF fits THEN GetNumber(s) = {[value |-> IF s[1] = 45 THEN -value ELSE value,
                              type |-> IF s[1] = 45 THEN "number_integer" ELSE "number_unsigned"]}
           ELSE \A r \in GetNumber(s) : r.type \in {"number_float", "null"}

\* scan returns for every text, as its comment proves of finite input, and from
\* inside the text: the refills, five bytes before a token and one or three within
\* some, are enough, or a label would read behind the buffer and stay "outside".
ScanEnds == <>Ended
=============================================================================
