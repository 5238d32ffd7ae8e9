----------------------------- MODULE UrlParser ------------------------------
(***************************************************************************)
(* The parser of query strings (src/UrlParser.cpp): parse, one turn of its *)
(* loop at a time, with positions as size_type values, and percent_decode. *)
(* A string is a sequence of bytes; positions count from 0.                *)
(***************************************************************************)
EXTENDS Integers, Sequences, SequencesExt

VARIABLES url_, pos, params_, done

vars == <<url_, pos, params_, done>>

npos == -1        \* the largest size_type

Percent == 37
Amp     == 38
Equals  == 61
Query   == 63

\* is_hex_digit and hex_digit_to_int.
HexDigit == 48..57 \cup 65..70 \cup 97..102
HexToInt(c) == IF c \in 48..57 THEN c - 48
               ELSE IF c \in 65..70 THEN c - 55
               ELSE IF c \in 97..102 THEN c - 87 ELSE 0

\* A slip of DecodeChar: the two digits are swapped.
DecodeChar_Swapped(s, c) ==
    CASE s.state = "General" ->
            IF c # Percent THEN [s EXCEPT !.result = Append(@, c)]
            ELSE [s EXCEPT !.state = "First"]
      [] s.state = "First" ->
            IF c \in HexDigit THEN [s EXCEPT !.state = "Second", !.first = c]
            ELSE [s EXCEPT !.state = "General", !.result = @ \o <<Percent, c>>]
      [] s.state = "Second" ->
            IF c \in HexDigit
            THEN [s EXCEPT !.state = "General",
                     !.result = Append(@, 16 * HexToInt(c) + HexToInt(s.first))]
            ELSE [s EXCEPT !.state = "General",
                     !.result = @ \o <<Percent, s.first, c>>]

\* One character of percent_decode's automaton.
DecodeChar(s, c) ==
    CASE s.state = "General" ->
            IF c # Percent THEN [s EXCEPT !.result = Append(@, c)]
            ELSE [s EXCEPT !.state = "First"]
      [] s.state = "First" ->
            IF c \in HexDigit THEN [s EXCEPT !.state = "Second", !.first = c]
            ELSE [s EXCEPT !.state = "General", !.result = @ \o <<Percent, c>>]
      [] s.state = "Second" ->
            IF c \in HexDigit
            THEN [s EXCEPT !.state = "General",
                     !.result = Append(@, 16 * HexToInt(s.first) + HexToInt(c))]
            ELSE [s EXCEPT !.state = "General",
                     !.result = @ \o <<Percent, s.first, c>>]

\* An escape that the string cuts short is dropped.
PercentDecode(str) ==
    FoldLeft(DecodeChar, [state |-> "General", first |-> 0, result |-> <<>>], str).result

\* find_first_of(c, from) and substr(from, to - from).
FindFirst(c, from) ==
    LET at == {i \in from..(Len(url_) - 1) : url_[i + 1] = c} IN
    IF at = {} THEN npos ELSE Min(at)
Substr(from, to) == SubSeq(url_, from + 1, to)

\* params_[name] = value of the code's map.
Put(params, name, value) ==
    [n \in DOMAIN params \cup {name} |-> IF n = name THEN value ELSE params[n]]

\* The constructor, with url_ given.
Init == pos = FindFirst(Query, 0) /\ params_ = <<>> /\ done = FALSE

\* The condition of the loop: npos is larger than any size.
Turn == (pos # npos /\ pos < Len(url_)) \/ pos = npos

\* A slip of Pair: pos becomes npos when there is no further '&'.
Pair_Stuck ==
    LET nameEnd == FindFirst(Equals, pos + 1)
        amp     == FindFirst(Amp, nameEnd + 1)
    IN
    /\ ~done /\ Turn /\ nameEnd # npos
    /\ params_' = Put(params_, Substr(pos + 1, nameEnd),
                       PercentDecode(Substr(nameEnd + 1, IF amp = npos THEN Len(url_)
                                                                      ELSE amp)))
    /\ pos' = amp
    /\ UNCHANGED <<url_, done>>

\* A slip of Pair: a parameter that is there already is kept.
Pair_Keep ==
    LET nameEnd == FindFirst(Equals, pos + 1)
        amp     == FindFirst(Amp, nameEnd + 1)
        end     == IF amp = npos THEN Len(url_) ELSE amp
    IN
    /\ ~done /\ Turn /\ nameEnd # npos
    /\ params_' = IF Substr(pos + 1, nameEnd) \in DOMAIN params_ THEN params_
                  ELSE Put(params_, Substr(pos + 1, nameEnd),
                           PercentDecode(Substr(nameEnd + 1, end)))
    /\ pos' = end
    /\ UNCHANGED <<url_, done>>

\* A name up to '=' and a value up to '&'; ++pos makes npos the beginning.
Pair ==
    LET nameEnd == FindFirst(Equals, pos + 1)
        amp     == FindFirst(Amp, nameEnd + 1)
        end     == IF amp = npos THEN Len(url_) ELSE amp
    IN
    /\ ~done /\ Turn /\ nameEnd # npos
    /\ params_' = Put(params_, Substr(pos + 1, nameEnd),
                       PercentDecode(Substr(nameEnd + 1, end)))
    /\ pos' = end
    /\ UNCHANGED <<url_, done>>

\* No '=' is left, or the loop is over.
Return ==
    /\ ~done
    /\ ~Turn \/ FindFirst(Equals, pos + 1) = npos
    /\ done' = TRUE
    /\ UNCHANGED <<url_, pos, params_>>

Next == Pair \/ Return

\* UrlParser::param: the value, or nothing when there is no such parameter.
Param(par) == IF par \in DOMAIN params_ THEN params_[par] ELSE <<>>

-----------------------------------------------------------------------------
(* Reference definitions.                                                  *)

\* Percent encoding: what is not a letter or a digit becomes %XX.
HexOf(n) == IF n < 10 THEN 48 + n ELSE 55 + n
EncodeByte(b) ==
    IF b \in 48..57 \cup 65..90 \cup 97..122 THEN <<b>>
    ELSE <<Percent, HexOf(b \div 16), HexOf(b % 16)>>
Encode(str) == FlattenSeq([i \in DOMAIN str |-> EncodeByte(str[i])])

\* The items of a query between the ampersands, each by where it starts.
Begin == FindFirst(Query, 0) + 1
Items == {Begin} \cup {i + 1 : i \in {j \in Begin..(Len(url_) - 1) : url_[j + 1] = Amp}}
ItemEnd(s) == LET a == FindFirst(Amp, s) IN IF a = npos THEN Len(url_) ELSE a
HasValue(s) == FindFirst(Equals, s) \in s..(ItemEnd(s) - 1)
NameOf(s)  == Substr(s, FindFirst(Equals, s))
ValueOf(s) == PercentDecode(Substr(FindFirst(Equals, s) + 1, ItemEnd(s)))

-----------------------------------------------------------------------------
(* Properties.                                                             *)

\* In a query in which every item is name=value, param gives every name the
\* decoded value of its last item and all other names nothing.
LastValueWins ==
    done /\ (\A s \in Items : HasValue(s)) =>
        /\ DOMAIN params_ = {NameOf(s) : s \in Items}
        /\ \A s \in Items :
              (\A t \in Items : t > s => NameOf(t) # NameOf(s))
                  => Param(NameOf(s)) = ValueOf(s)

=============================================================================
