------------------------------- MODULE Base64 -------------------------------
(***************************************************************************)
(* The base64 of src/base64.cpp, with '-' and '_' for '+' and '/'. A       *)
(* string is a sequence of bytes; the masks and shifts are quotients and   *)
(* remainders.                                                             *)
(***************************************************************************)
EXTENDS Integers, Sequences, SequencesExt

\* base64_chars; is_base64 is true of the same characters.
base64_chars == [i \in 1..64 |-> IF i <= 26 THEN 64 + i ELSE IF i <= 52 THEN 70 + i
                                 ELSE IF i <= 62 THEN i - 5 ELSE IF i = 63 THEN 45 ELSE 95]
Padding == 61

\* base64_chars.find as an unsigned char: npos becomes 255.
Find(c) == IF \E i \in 1..64 : base64_chars[i] = c
           THEN (CHOOSE i \in 1..64 : base64_chars[i] = c) - 1 ELSE 255

\* char_array_3 to char_array_4 and back.
Sextets(b) == <<b[1] \div 4, (b[1] % 4) * 16 + (b[2] \div 16),
                (b[2] % 16) * 4 + (b[3] \div 64), b[3] % 64>>
Octets(v) == <<(v[1] * 4 + ((v[2] \div 16) % 4)) % 256,
               ((v[2] % 16) * 16 + ((v[3] \div 4) % 16)) % 256,
               ((v[3] % 4) * 64 + v[4]) % 256>>

\* The pieces of n that the loops collect; the last may be shorter.
Pieces(s, n) == [k \in 1..((Len(s) + n - 1) \div n) |-> SubSeq(s, n * (k - 1) + 1, IF n * k < Len(s) THEN n * k ELSE Len(s))]
Filled(p, n) == p \o [j \in 1..(n - Len(p)) |-> 0]

\* Three bytes as four characters; i bytes as i + 1 and the rest '='.
EncodePiece(p) ==
    LET four == Sextets(Filled(p, 3)) IN
    [j \in 1..4 |-> IF j <= Len(p) + 1 THEN base64_chars[four[j] + 1] ELSE Padding]
base64_encode(s) == FlattenSeq([k \in DOMAIN Pieces(s, 3) |-> EncodePiece(Pieces(s, 3)[k])])

\* Four characters as three bytes; i characters as i - 1, the missing ones being
\* zero bytes, which find does not find.
DecodePiece(p) ==
    LET f == Filled(p, 4) IN SubSeq(Octets([j \in 1..4 |-> Find(f[j])]), 1, Len(p) - 1)

\* The first character outside of the alphabet ends the text.
base64_decode(t) ==
    LET stops == {i \in DOMAIN t : t[i] \notin {base64_chars[j] : j \in 1..64}}
        text  == IF stops = {} THEN t ELSE SubSeq(t, 1, (CHOOSE i \in stops : \A j \in stops : i <= j) - 1)
    IN  FlattenSeq([k \in DOMAIN Pieces(text, 4) |-> DecodePiece(Pieces(text, 4)[k])])
=============================================================================
