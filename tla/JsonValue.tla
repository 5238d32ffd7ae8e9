----------------------------- MODULE JsonValue ------------------------------
(***************************************************************************)
(* The values of include/json.h: their representation, comparison, and the *)
(* element access, erase and insert that the rest of the library uses.     *)
(* A value is a pair of its type and what it holds: an array is a sequence *)
(* of values, an object a function from keys, a string and a key sequences *)
(* of bytes, and a number its eight bytes, the largest first, as they are  *)
(* in memory: two's complement or IEEE 754.                                *)
(***************************************************************************)
EXTENDS Integers, Sequences, SequencesExt

Null         == <<"null", 0>>
Boolean(b)   == <<"boolean", b>>
String(s)    == <<"string", s>>
Array(s)     == <<"array", s>>
Object(f)    == <<"object", f>>
IsContainer(v) == v[1] \in {"array", "object"}

Zeroes(n) == [i \in 1..n |-> 0]

\* The eight bytes of a small number, and the complement of any, which is -1 - n.
Bytes8(n) == Zeroes(4) \o <<n \div 16777216, (n \div 65536) % 256, (n \div 256) % 256, n % 256>>

Not(b) == [i \in DOMAIN b |-> 255 - b[i]]

Unsigned(n) == <<"number_unsigned", Bytes8(n)>>
Integer(n)  == <<"number_integer", IF n >= 0 THEN Bytes8(n) ELSE Not(Bytes8(-1 - n))>>

\* Sequences of bytes in the order of std::string.
BytesLess(a, b) ==
    \E n \in 0..Len(b) :
        /\ n <= Len(a) /\ n < Len(b) /\ SubSeq(a, 1, n) = SubSeq(b, 1, n)
        /\ n = Len(a) \/ a[n + 1] < b[n + 1]
Sorted(set) == SortSeq(FoldSet(LAMBDA x, seq : Append(seq, x), <<>>, set), BytesLess)
SortedKeys(f) == Sorted(DOMAIN f)

-----------------------------------------------------------------------------
(* Numbers.                                                                *)

Negative(b) == b[1] >= 128
Flipped(b)  == [b EXCEPT ![1] = (b[1] + 128) % 256]
SignedLess(a, b) == BytesLess(Flipped(a), Flipped(b))

\* A double's order is that of its bytes, turned around below zero.
DoubleKey(b) == IF Negative(b) THEN Not(b) ELSE Flipped(b)
DoubleZero(b) == Tail(b) = Zeroes(7) /\ b[1] \in {0, 128}
NotANumber(b) == b[1] \in {127, 255} /\ b[2] >= 240 /\ (b[2] > 240 \/ Tail(Tail(b)) # Zeroes(6))
DoubleEqual(a, b) == ~NotANumber(a) /\ (a = b \/ (DoubleZero(a) /\ DoubleZero(b)))
DoubleLess(a, b) == ~NotANumber(a) /\ ~NotANumber(b) /\ ~DoubleEqual(a, b) /\ BytesLess(DoubleKey(a), DoubleKey(b))

\* The double m * 2^e, for m below 2^24.
Real(sign, m, e) ==
    LET k   == CHOOSE i \in 0..23 : m >= 2^i /\ (i < 23 => m < 2^(i + 1))
        f   == (m - 2^k) * 2^(23 - k)                 \* the first 23 bits of the fraction
        exp == 1023 + k + e
    IN IF m = 0 THEN <<128 * sign>> \o Zeroes(7)
       ELSE <<128 * sign + (exp \div 16), 16 * (exp % 16) + (f \div 2^19), (f \div 2^11) % 256,
              (f \div 2^3) % 256, 32 * (f % 8)>> \o Zeroes(3)

\* The conversion of an integer to double: exact below 65535, and larger ones
\* are only as large as 2^63.
Double(b, signed) ==
    LET minus == signed /\ Negative(b)
        m     == IF minus THEN Not(b) ELSE b          \* one less when negative
        n     == 256 * m[7] + m[8] + (IF minus THEN 1 ELSE 0)
        sign  == IF minus THEN 1 ELSE 0
    IN IF SubSeq(m, 1, 6) = Zeroes(6) THEN Real(sign, n, 0) ELSE Real(sign, 1, 63)

IsInteger(v) == v[1] \in {"number_integer", "number_unsigned"}
IsNumber(v)  == IsInteger(v) \/ v[1] = "number_float"
AsDouble(v)  == IF v[1] = "number_float" THEN v[2] ELSE Double(v[2], v[1] = "number_integer")

\* Two integers of different types are compared as number_integer_t, which
\* leaves the bytes as they are.
NumberEqual(v, w) ==
    IF IsInteger(v) /\ IsInteger(w) THEN v[2] = w[2] ELSE DoubleEqual(AsDouble(v), AsDouble(w))

\* A slip of NumberLess: integers of both types are compared without their sign.
NumberLess_Unsigned(v, w) ==
    IF IsInteger(v) /\ IsInteger(w) THEN BytesLess(v[2], w[2])
    ELSE DoubleLess(AsDouble(v), AsDouble(w))

NumberLess(v, w) ==
    CASE v[1] = "number_unsigned" /\ w[1] = "number_unsigned" -> BytesLess(v[2], w[2])
      [] IsInteger(v) /\ IsInteger(w) -> SignedLess(v[2], w[2])
      [] OTHER -> DoubleLess(AsDouble(v), AsDouble(w))

\* A result is a value, or what was thrown.
Ok(v)   == [ok |-> TRUE, value |-> v, what |-> ""]
Fail(e) == [ok |-> FALSE, value |-> Null, what |-> e]

\* get<std::string>, with the conversions this copy of json.h adds.
AsString(v) ==
    CASE v[1] = "string"  -> Ok(v[2])
      [] v[1] = "null"    -> Ok(<<>>)
      [] v[1] = "boolean" -> Ok(IF v[2] THEN <<116, 114, 117, 101>> ELSE <<102, 97, 108, 115, 101>>)
      [] OTHER            -> Fail("domain_error")

-----------------------------------------------------------------------------
(* Comparison.                                                             *)

\* operator==.
RECURSIVE Equal(_, _)
Equal(v, w) ==
    \/ IsNumber(v) /\ IsNumber(w) /\ NumberEqual(v, w)
    \/ /\ v[1] = w[1] /\ ~IsNumber(v)
       /\ CASE v[1] = "array" -> /\ Len(v[2]) = Len(w[2])
                                 /\ \A i \in DOMAIN v[2] : Equal(v[2][i], w[2][i])
            [] v[1] = "object" -> /\ DOMAIN v[2] = DOMAIN w[2]
                                  /\ \A k \in DOMAIN v[2] : Equal(v[2][k], w[2][k])
            [] OTHER -> v[2] = w[2]

\* The order of types that operator< of value_t has.
Rank(type) == [null |-> 0, boolean |-> 1, number_integer |-> 2, number_unsigned |-> 2,
               number_float |-> 2, object |-> 3, array |-> 4, string |-> 5][type]

\* operator<; arrays and objects are compared part by part, and of the members
\* of an object the keys before the values.
RECURSIVE Less(_, _)
Less(v, w) ==
    LET Lexicographic(a, b, Lt(_, _)) ==
            \E n \in 0..Len(b) :
                /\ n <= Len(a) /\ n < Len(b)
                /\ \A i \in 1..n : ~Lt(a[i], b[i]) /\ ~Lt(b[i], a[i])
                /\ n = Len(a) \/ Lt(a[n + 1], b[n + 1])
        Members(f) == [i \in DOMAIN SortedKeys(f) |-> <<SortedKeys(f)[i], f[SortedKeys(f)[i]]>>]
        MemberLess(p, q) == BytesLess(p[1], q[1]) \/ (p[1] = q[1] /\ Less(p[2], q[2]))
    IN CASE IsNumber(v) /\ IsNumber(w) -> NumberLess(v, w)
         [] v[1] # w[1] -> Rank(v[1]) < Rank(w[1])
         [] v[1] = "array"   -> Lexicographic(v[2], w[2], Less)
         [] v[1] = "object"  -> Lexicographic(Members(v[2]), Members(w[2]), MemberLess)
         [] v[1] = "string"  -> BytesLess(v[2], w[2])
         [] v[1] = "boolean" -> ~v[2] /\ w[2]
         [] OTHER -> FALSE

-----------------------------------------------------------------------------
(* Element access and modifiers.                                           *)

\* at(size_type) and at(key_type).
AtIndex(v, i) ==
    IF v[1] # "array" THEN Fail("domain_error")
    ELSE IF i >= Len(v[2]) THEN Fail("out_of_range") ELSE Ok(v[2][i + 1])
AtKey(v, k) ==
    IF v[1] # "object" THEN Fail("domain_error")
    ELSE IF k \notin DOMAIN v[2] THEN Fail("out_of_range") ELSE Ok(v[2][k])

\* A slip of WithIndex: the array is resized to the index and one, whatever it had.
WithIndex_Resized(v, i) ==
    LET s == IF v[1] = "array" THEN v[2] ELSE <<>> IN
    Array(IF i < Len(s) THEN SubSeq(s, 1, i + 1) ELSE s \o [j \in 1..(i + 1 - Len(s)) |-> Null])

\* operator[] of a value that is not const: the value with an element i or a
\* member k, both null when they are new.
WithIndex(v, i) ==
    LET s == IF v[1] = "array" THEN v[2] ELSE <<>> IN
    Array(IF i < Len(s) THEN s ELSE s \o [j \in 1..(i + 1 - Len(s)) |-> Null])
WithKey(v, k) ==
    Object(IF v[1] = "object" THEN v[2] @@ (k :> Null) ELSE k :> Null)

SetIndex(v, i, w) == Array([v[2] EXCEPT ![i + 1] = w])
SetKey(v, k, w)   == Object((k :> w) @@ v[2])

\* erase(size_type), erase(iterator) of an object, insert and push_back.
EraseIndex(v, i) ==
    IF i >= Len(v[2]) THEN Fail("out_of_range") ELSE Ok(Array(RemoveAt(v[2], i + 1)))
EraseKey(v, k) == Object([x \in DOMAIN v[2] \ {k} |-> v[2][x]])
InsertIndex(v, i, w) == Array(InsertAt(v[2], i + 1, w))
PushBack(v, w) == Array(Append(v[2], w))
=============================================================================
