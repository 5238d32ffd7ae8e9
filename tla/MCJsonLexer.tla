---------------------------- MODULE MCJsonLexer -----------------------------
(* Finite instances of JsonLexer for TLC.                                  *)
EXTENDS JsonLexer

\* The texts whose i-th byte is one of shape[i].
Texts(shape) == {t \in [1..Len(shape) -> UNION Range(shape)] : \A i \in DOMAIN shape : t[i] \in shape[i]}
Strings(bytes, n) == UNION {[1..k -> bytes] : k \in 0..n}

\* - + 0 1 . e and a blank.
Numbers == Strings({45, 43, 48, 49, 46, 101}, 5) \cup
           {<<49>> \o t : t \in Strings({48, 46, 101, 45, 49}, 5)}
\* Integers around the largest, which are 50 and 101.
Edges10 == Strings({45, 48, 49, 50, 53}, 4)
\* Brackets, separators, a string, whitespace and a NUL inside.
Structure == Strings({91, 125, 44, 58, 34, 32, 10, 0}, 4)
\* true, false and null with a wrong or missing byte.
Literals == {a \o b : a \in {<<116, 114, 117, 101>>, <<102, 97, 108, 115, 101>>, <<110, 117, 108, 108>>},
                      b \in {<<>>, <<32>>, <<44>>, <<97>>}} \cup
            UNION {[1..k -> {116, 114, 117, 101, 108, 110}] : k \in 2..4}
\* One character of up to four bytes at the edges of UTF-8's ranges.
Utf8 == {<<34>> \o t \o <<34>> : t \in
             [1..2 -> {31, 127, 128, 191, 192, 193, 194, 223, 224}] \cup
             [1..1 -> 0..255] \cup
             {<<a, b, c>> : a \in {224, 225, 236, 237, 238, 239}, b \in {127, 128, 159, 160, 191, 192},
                            c \in {127, 128, 191, 192}} \cup
             {<<a, b, c, d>> : a \in {240, 241, 243, 244, 245}, b \in {127, 128, 143, 144, 191, 192},
                               c \in {127, 128, 191}, d \in {128, 191, 192}}}
\* Escapes: the short ones, and \u with one or two surrogates or none.
Escapes ==
    {<<34, 92, c, 34>> : c \in 32..127} \cup
    {<<34, 92, 117>> \o a \o b \o <<34>> :
        a \in {<<48, 48, 48, 48>>, <<48, 48, 49, 70>>, <<48, 48, 55, 70>>, <<48, 48, 56, 48>>, <<48, 55, 102, 102>>,
               <<48, 56, 48, 48>>, <<68, 55, 70, 70>>, <<68, 56, 48, 48>>, <<100, 66, 70, 70>>,
               <<68, 67, 48, 48>>, <<68, 70, 70, 70>>, <<69, 48, 48, 48>>, <<70, 70, 70, 70>>,
               <<48, 103, 48, 48>>},
        b \in {<<>>, <<48>>, <<92, 117, 68, 67, 48, 48>>, <<92, 117, 68, 70, 70, 70>>,
               <<92, 117, 68, 66, 70, 70>>, <<92, 117, 69, 48, 48, 48>>, <<92, 110>>}}
\* Byte order marks and lines.
Lines == {a \o b : a \in {<<>>, <<239, 187, 191>>, <<239, 187>>},
                   b \in Strings({49, 10, 34, 46, 32}, 4)}

MCInputs ==
    [mode : {"buffer"}, text : Numbers \cup Edges10 \cup Structure \cup Literals \cup Utf8 \cup Escapes
                               \cup Lines]
    \cup [mode : {"stream"}, text : Structure \cup Lines \cup Escapes]
=============================================================================
