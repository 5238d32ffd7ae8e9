----------------------------- MODULE JsonBinary -----------------------------
(***************************************************************************)
(* The two binary formats of include/json.h, CBOR and MessagePack, as the  *)
(* bytes they write and read. Positions (idx) start at zero. A length that *)
(* does not fit 24 bits stands for one that no input here has.             *)
(***************************************************************************)
EXTENDS JsonValue

Formats == {"cbor", "msgpack"}

-----------------------------------------------------------------------------
(* Writing. A number is its eight bytes; add_to_vector writes the last ones. *)

AddToVector(bytes, n) == SubSeq(n, 9 - bytes, 8)
Fits(n, bytes) == SubSeq(n, 1, 8 - bytes) = Zeroes(8 - bytes)

FitsSigned(n, bytes) == n[9 - bytes] >= 128 /\ \A i \in 1..(8 - bytes) : n[i] = 255

\* The smallest width that n fits, of those there are, with its first byte.
Widened(n, widths, first) ==
    LET i == CHOOSE i \in DOMAIN widths :
                 (Fits(n, widths[i]) \/ i = Len(widths)) /\ \A j \in 1..(i - 1) : ~Fits(n, widths[j])
    IN <<first + i - 1>> \o AddToVector(widths[i], n)

\* A slip of CborHead: 24 is put into the first byte.
CborHead_Inclusive(major, n) ==
    IF Fits(n, 1) /\ n[8] <= 24 THEN <<32 * major + n[8]>>
    ELSE Widened(n, <<1, 2, 4, 8>>, 32 * major + 24)

\* The start of a CBOR item of a major type, with its number or length.
CborHead(major, n) ==
    IF Fits(n, 1) /\ n[8] <= 23 THEN <<32 * major + n[8]>>
    ELSE Widened(n, <<1, 2, 4, 8>>, 32 * major + 24)

CborInteger(n, signed) == IF signed /\ Negative(n) THEN CborHead(1, Not(n)) ELSE CborHead(0, n)

MsgpackInteger(n, signed) ==
    CASE signed /\ Negative(n) ->
            IF FitsSigned(n, 1) /\ n[8] >= 224 THEN AddToVector(1, n)
            ELSE LET i == CHOOSE i \in 1..4 : FitsSigned(n, 2^(i - 1)) /\ \A j \in 1..(i - 1) : ~FitsSigned(n, 2^(j - 1))
                 IN <<207 + i>> \o AddToVector(2^(i - 1), n)
      [] Fits(n, 1) /\ n[8] < 128 -> AddToVector(1, n)
      [] OTHER -> Widened(n, <<1, 2, 4, 8>>, 204)

\* The start of a string, an array or an object: the length in the first byte
\* below most, or in so many bytes after one of its own.
MsgpackHead(n, most, short, widths, first) ==
    IF n < most THEN <<short + n>> ELSE Widened(Bytes8(n), widths, first)

IntegerBytes(format, n, signed) ==
    IF format = "cbor" THEN CborInteger(n, signed) ELSE MsgpackInteger(n, signed)
StringHead(format, n) ==
    IF format = "cbor" THEN CborHead(3, Bytes8(n)) ELSE MsgpackHead(n, 32, 160, <<1, 2, 4>>, 217)
ArrayHead(format, n) ==
    IF format = "cbor" THEN CborHead(4, Bytes8(n)) ELSE MsgpackHead(n, 16, 144, <<2, 4>>, 220)
ObjectHead(format, n) ==
    IF format = "cbor" THEN CborHead(5, Bytes8(n)) ELSE MsgpackHead(n, 16, 128, <<2, 4>>, 222)

\* to_cbor and to_msgpack.
RECURSIVE ToBinary(_, _)
ToBinary(format, v) ==
    CASE v[1] = "null"    -> <<IF format = "cbor" THEN 246 ELSE 192>>
      [] v[1] = "boolean" -> <<(IF format = "cbor" THEN 244 ELSE 194) + (IF v[2] THEN 1 ELSE 0)>>
      [] IsInteger(v)     -> IntegerBytes(format, v[2], v[1] = "number_integer")
      [] v[1] = "number_float" -> <<IF format = "cbor" THEN 251 ELSE 203>> \o v[2]
      [] v[1] = "string"  -> StringHead(format, Len(v[2])) \o v[2]
      [] v[1] = "array"   -> ArrayHead(format, Len(v[2])) \o
                             FlattenSeq([i \in DOMAIN v[2] |-> ToBinary(format, v[2][i])])
      [] v[1] = "object"  ->
            LET keys == SortedKeys(v[2]) IN
            ObjectHead(format, Len(keys)) \o
            FlattenSeq([i \in DOMAIN keys |-> ToBinary(format, String(keys[i])) \o ToBinary(format, v[2][keys[i]])])

-----------------------------------------------------------------------------
(* Reading. What was read ends before idx, or something was thrown.         *)

Got(v, idx)  == [ok |-> TRUE, value |-> v, idx |-> idx, what |-> ""]
Thrown(what) == [ok |-> FALSE, value |-> Null, idx |-> 0, what |-> what]

\* What the first byte says: a kind and its number, which is in the byte itself
\* (width 0) or in the bytes that follow.
Kind(kind, width, number) == [kind |-> kind, width |-> width, number |-> number]
Invalid == Kind("invalid", 0, 0)

CborKind(byte) ==
    LET kinds == <<"unsigned", "negative", "invalid", "string", "array", "object", "invalid">>
        low   == byte % 32
        kind  == kinds[(byte \div 32) + 1]
    IN CASE byte \in {244, 245} -> Kind("boolean", 0, byte - 244)
         [] byte = 246          -> Kind("null", 0, 0)
         [] byte \in 249..251   -> Kind("float", 2^(byte - 248), 0)
         [] byte >= 224         -> Invalid
         [] low < 24            -> Kind(kind, 0, low)
         [] low < 28            -> Kind(kind, 2^(low - 24), 0)
         [] low = 31 /\ kind \in {"string", "array", "object"} -> Kind("indefinite " \o kind, 0, 0)
         [] OTHER               -> Invalid

MsgpackKind(byte) ==
    CASE byte < 128 -> Kind("unsigned", 0, byte)
      [] byte \in 128..143 -> Kind("object", 0, byte - 128)
      [] byte \in 144..159 -> Kind("array", 0, byte - 144)
      [] byte \in 160..191 -> Kind("string", 0, byte - 160)
      [] byte = 192        -> Kind("null", 0, 0)
      [] byte \in 194..195 -> Kind("boolean", 0, byte - 194)
      [] byte \in 202..203 -> Kind("float", 4 * (byte - 201), 0)
      [] byte \in 204..207 -> Kind("unsigned", 2^(byte - 204), 0)
      [] byte \in 208..211 -> Kind("signed", 2^(byte - 208), 0)
      [] byte \in 217..219 -> Kind("string", 2^(byte - 217), 0)
      [] byte \in 220..221 -> Kind("array", 2^(byte - 219), 0)
      [] byte \in 222..223 -> Kind("object", 2^(byte - 221), 0)
      [] byte >= 224       -> Kind("negative", 0, 255 - byte)
      [] OTHER             -> Invalid

\* The number of a kind as eight bytes, of which the last ones are read.
Number(kind, bytes) ==
    IF kind.width = 0 THEN Bytes8(kind.number)
    ELSE [i \in 1..(8 - kind.width) |-> IF kind.kind = "signed" /\ Negative(bytes) THEN 255 ELSE 0] \o bytes

\* A half and a single precision number as a double; infinities and what is not
\* a number keep that they are.
Half(b) ==
    LET exp == (b[1] \div 4) % 32  mant == 256 * (b[1] % 4) + b[2]  sign == b[1] \div 128 IN
    CASE exp = 0  -> Real(sign, mant, -24)
      [] exp = 31 -> <<128 * sign + 127, IF mant = 0 THEN 240 ELSE 248>> \o Zeroes(6)
      [] OTHER    -> Real(sign, mant + 1024, exp - 25)
Single(b) ==
    LET exp == 2 * (b[1] % 128) + (b[2] \div 128)  sign == b[1] \div 128
        mant == 65536 * (b[2] % 128) + 256 * b[3] + b[4] IN
    CASE exp = 0   -> Real(sign, mant, -149)
      [] exp = 255 -> <<128 * sign + 127, IF mant = 0 THEN 240 ELSE 248>> \o Zeroes(6)
      [] OTHER     -> Real(sign, mant + 2^23, exp - 150)
Float(b) == CASE Len(b) = 2 -> Half(b) [] Len(b) = 4 -> Single(b) [] OTHER -> b

Length(n) == IF Fits(n, 3) THEN 65536 * n[6] + 256 * n[7] + n[8] ELSE 2^24

\* check_length.
CheckLength(size, len, offset) == len <= size /\ offset <= size /\ len + offset <= size

GetFromVector(vec, idx, width) ==
    IF idx + width + 1 > Len(vec) THEN Fail("out_of_range") ELSE Ok(SubSeq(vec, idx + 2, idx + 1 + width))

\* from_cbor_internal and from_msgpack_internal, and their loops: n more items, or
\* for n = -1 those before the byte 255, put together with what there is.
RECURSIVE FromBinary(_, _, _), Items(_, _, _, _, _), Members(_, _, _, _, _)
FromBinary(format, vec, idx) ==
    IF idx >= Len(vec) THEN Thrown("out_of_range")
    ELSE LET kind  == IF format = "cbor" THEN CborKind(vec[idx + 1]) ELSE MsgpackKind(vec[idx + 1])
             bytes == GetFromVector(vec, idx, kind.width)
             n     == Number(kind, bytes.value)
             next  == idx + 1 + kind.width
         IN CASE kind.kind = "invalid" -> Thrown("invalid_argument")
              [] kind.width > 0 /\ ~bytes.ok -> Thrown(bytes.what)
              [] kind.kind = "null"     -> Got(Null, next)
              [] kind.kind = "boolean"  -> Got(Boolean(kind.number = 1), next)
              [] kind.kind = "unsigned" -> Got(<<"number_unsigned", n>>, next)
              [] kind.kind = "signed"   -> Got(<<"number_integer", n>>, next)
              [] kind.kind = "negative" -> Got(<<"number_integer", Not(n)>>, next)
              [] kind.kind = "float"    -> Got(<<"number_float", Float(bytes.value)>>, next)
              [] kind.kind = "string"   ->
                    IF ~CheckLength(Len(vec), Length(n), next) THEN Thrown("out_of_range")
                    ELSE Got(String(SubSeq(vec, next + 1, next + Length(n))), next + Length(n))
              [] kind.kind = "array"    -> Items(format, vec, next, Length(n), Array(<<>>))
              [] kind.kind = "object"   -> Members(format, vec, next, Length(n), Object([k \in {} |-> Null]))
              [] kind.kind = "indefinite string" -> Items(format, vec, next, -1, String(<<>>))
              [] kind.kind = "indefinite array"  -> Items(format, vec, next, -1, Array(<<>>))
              [] kind.kind = "indefinite object" -> Members(format, vec, next, -1, Object([k \in {} |-> Null]))

\* The loop is over: it has read all items, or is at the byte that ends them.
Over(vec, idx, n) == n = 0 \/ (n = -1 /\ idx < Len(vec) /\ vec[idx + 1] = 255)
After(idx, n) == IF n = 0 THEN idx ELSE idx + 1
Fewer(n) == IF n = -1 THEN -1 ELSE n - 1

\* Elements of an array, or parts of a string.
Items(format, vec, idx, n, sofar) ==
    LET item == FromBinary(format, vec, idx)
        part == AsString(item.value)
    IN CASE Over(vec, idx, n) -> Got(sofar, After(idx, n))
         [] ~Over(vec, idx, n) /\ ~item.ok -> item
         [] OTHER ->
              IF sofar[1] = "array" THEN Items(format, vec, item.idx, Fewer(n), PushBack(sofar, item.value))
              ELSE IF ~part.ok THEN Thrown(part.what)
              ELSE Items(format, vec, item.idx, Fewer(n), String(sofar[2] \o part.value))

\* Members of an object; a key may be anything that converts to a string.
Members(format, vec, idx, n, sofar) ==
    LET key   == FromBinary(format, vec, idx)
        name  == AsString(key.value)
        value == FromBinary(format, vec, key.idx)
    IN CASE Over(vec, idx, n) -> Got(sofar, After(idx, n))
         [] ~Over(vec, idx, n) /\ ~key.ok -> key
         [] ~Over(vec, idx, n) /\ key.ok /\ ~name.ok -> Thrown(name.what)
         [] OTHER -> IF ~value.ok THEN value
                     ELSE Members(format, vec, value.idx, Fewer(n), SetKey(sofar, name.value, value.value))
=============================================================================
