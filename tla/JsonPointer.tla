---------------------------- MODULE JsonPointer -----------------------------
(***************************************************************************)
(* json_pointer of include/json.h: splitting and escaping, the three ways  *)
(* of following a pointer into a value, flatten and unflatten. A pointer   *)
(* is the sequence of its reference tokens. What the code does through a   *)
(* reference is the value that the whole document then is.                 *)
(***************************************************************************)
EXTENDS JsonValue

Slash == 47
Tilde == 126
Minus == <<45>>
Zero  == 48
IsDigit(c) == c \in 48..57

-----------------------------------------------------------------------------
(* Text.                                                                   *)

\* replace_substring, from left to right, of a pair of bytes (Merge) and of a
\* single byte (Spread).
Merge(s, pair, byte) ==
    FoldLeft(LAMBDA done, c : IF done.raw /\ <<Last(done.out), c>> = pair
                              THEN [out |-> Append(Front(done.out), byte), raw |-> FALSE]
                              ELSE [out |-> Append(done.out, c), raw |-> TRUE],
             [out |-> <<>>, raw |-> FALSE], s).out
Spread(s, byte, pair) == FlattenSeq([i \in DOMAIN s |-> IF s[i] = byte THEN pair ELSE <<s[i]>>])

Escape(s) == Spread(Spread(s, Tilde, <<Tilde, 48>>), Slash, <<Tilde, 49>>)

Unescape(s) == Merge(Merge(s, <<Tilde, 49>>, Slash), <<Tilde, 48>>, Tilde)

\* Every ~ of a token is followed by 0 or 1.
Escaped(s) == \A i \in DOMAIN s : s[i] = Tilde => i < Len(s) /\ s[i + 1] \in {48, 49}

\* The constructor from a string: split.
Split(s) ==
    LET slashes == SelectSeq([i \in DOMAIN s |-> i], LAMBDA i : s[i] = Slash)
        token(j) == SubSeq(s, slashes[j] + 1, IF j = Len(slashes) THEN Len(s) ELSE slashes[j + 1] - 1)
    IN IF s = <<>> THEN Ok(<<>>)
       ELSE IF s[1] # Slash \/ \E j \in DOMAIN slashes : ~Escaped(token(j)) THEN Fail("domain_error")
       ELSE Ok([j \in DOMAIN slashes |-> Unescape(token(j))])

PointerText(ptr) == FlattenSeq([j \in DOMAIN ptr |-> <<Slash>> \o Escape(ptr[j])])

\* std::stoi: the digits it starts with, or nothing to convert. No token here has
\* a sign or whitespace before its digits, or ten of them.
StoI(s) ==
    LET end == CHOOSE n \in 0..Len(s) : /\ \A i \in 1..n : IsDigit(s[i])
                                        /\ n < Len(s) => ~IsDigit(s[n + 1])
    IN IF end = 0 THEN Fail("invalid_argument")
       ELSE Ok(FoldLeft(LAMBDA n, c : 10 * n + c - 48, 0, SubSeq(s, 1, end)))

RECURSIVE Digits(_)
Digits(n) == (IF n < 10 THEN <<>> ELSE Digits(n \div 10)) \o <<48 + (n % 10)>>

-----------------------------------------------------------------------------
(* Following a pointer.                                                    *)

LeadingZero(token) == Len(token) > 1 /\ token[1] = Zero
AllDigits(token) == \A i \in DOMAIN token : IsDigit(token[i])

\* The element of an array of size n that a token names: for get_checked and the
\* const get_unchecked, and for get_unchecked, where - is the one past the end.
Index(token) == IF LeadingZero(token) THEN Fail("domain_error") ELSE StoI(token)
CheckedIndex(token) == IF token = Minus THEN Fail("out_of_range") ELSE Index(token)
OpenIndex(token, n) == IF token = Minus THEN Ok(n) ELSE Index(token)

\* get_checked, which at(ptr) is.
RECURSIVE At(_, _)
At(v, ptr) ==
    IF ptr = <<>> THEN Ok(v)
    ELSE LET token == ptr[1]
             i     == CheckedIndex(token)
             child == CASE v[1] = "object" -> AtKey(v, token)
                        [] v[1] = "array"  -> IF i.ok THEN AtIndex(v, i.value) ELSE i
                        [] OTHER           -> Fail("out_of_range")
         IN IF child.ok THEN At(child.value, Tail(ptr)) ELSE child

\* What a null on the way becomes: for get_unchecked an array when the token is a
\* number or -, for get_and_create one when it is 0.
Opened(v, token, create) ==
    IF v[1] # "null" THEN v
    ELSE IF IF create THEN token = <<Zero>> ELSE AllDigits(token) \/ token = Minus
         THEN Array(<<>>) ELSE Object([k \in {} |-> Null])

\* The document once what the pointer refers to was assigned w: through
\* get_and_create (create), through get_unchecked, which operator[] is.
RECURSIVE Assign(_, _, _, _)
Assign(v, ptr, w, create) ==
    IF ptr = <<>> THEN Ok(w)
    ELSE LET token == ptr[1]
             open  == Opened(v, token, create)
             i     == IF open[1] # "array" THEN Fail("")
                      ELSE IF create THEN StoI(token) ELSE OpenIndex(token, Len(open[2]))
             wide  == IF open[1] = "object" THEN WithKey(open, token) ELSE WithIndex(open, i.value)
             inner == IF open[1] = "object" THEN Assign(wide[2][token], Tail(ptr), w, create)
                      ELSE Assign(wide[2][i.value + 1], Tail(ptr), w, create)
         IN CASE ~IsContainer(open) -> Fail(IF create THEN "domain_error" ELSE "out_of_range")
              [] open[1] = "array" /\ ~i.ok -> i
              [] OTHER -> IF ~inner.ok THEN inner
                          ELSE IF open[1] = "object" THEN Ok(SetKey(wide, token, inner.value))
                          ELSE Ok(SetIndex(wide, i.value, inner.value))

\* The pointer to what get_unchecked has just returned: - was the last element.
RECURSIVE Resolved(_, _)
Resolved(v, ptr) ==
    IF ptr = <<>> THEN <<>>
    ELSE LET token == IF v[1] = "array" /\ ptr[1] = Minus THEN Digits(Len(v[2]) - 1) ELSE ptr[1]
         IN <<token>> \o Resolved(At(v, <<token>>).value, Tail(ptr))

-----------------------------------------------------------------------------
(* flatten and unflatten.                                                  *)

\* The pairs of a pointer's text and a primitive value.
RECURSIVE FlatPairs(_, _)
FlatPairs(text, v) ==
    CASE IsContainer(v) /\ (IF v[1] = "array" THEN v[2] = <<>> ELSE DOMAIN v[2] = {}) -> {<<text, Null>>}
      [] v[1] = "array"  -> UNION {FlatPairs(text \o <<Slash>> \o Digits(i - 1), v[2][i]) : i \in DOMAIN v[2]}
      [] v[1] = "object" -> UNION {FlatPairs(text \o <<Slash>> \o Escape(k), v[2][k]) : k \in DOMAIN v[2]}
      [] OTHER           -> {<<text, v>>}

Flatten(v) ==
    LET pairs == FlatPairs(<<>>, v) IN
    Object([k \in {p[1] : p \in pairs} |-> (CHOOSE p \in pairs : p[1] = k)[2]])

\* The members in the order of the object's keys; the first that fails ends it.
Unflatten(v) ==
    LET Restore(done, key) ==
            LET ptr == Split(key) IN
            CASE ~done.ok                 -> done
              [] IsContainer(v[2][key])   -> Fail("domain_error")
              [] ~ptr.ok                  -> ptr
              [] OTHER -> Assign(done.value, ptr.value, v[2][key], TRUE)
    IN IF v[1] # "object" THEN Fail("domain_error") ELSE FoldLeft(Restore, Ok(Null), SortedKeys(v[2]))
=============================================================================
