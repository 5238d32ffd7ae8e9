--------------------------- MODULE JsonLexerProofs ---------------------------
(***************************************************************************)
(* Theorems about the lexer of include/json.h for texts of any length, in  *)
(* memory or in a stream, and integer types of any width: scan reads       *)
(* inside of its buffer and finds the longest token at every place,        *)
(* get_number is exact, and so are get_string and escape_string.           *)
(***************************************************************************)
EXTENDS JsonLexer, SequenceTheorems, WellFoundedInduction, TLAPS

\* The labels of scan that read a byte: between tokens and in strings,
\* UTF-8 continuation bytes, hexadecimal digits, integers, fractions and
\* exponents, and the literals.
Between == {"L6", "L9", "L30", "L35"}
Continuing == {"L36", "L37", "L38", "L39", "L40", "L41", "L42"}
HexDigits == {"L48", "L57", "L63", "L66"}
InInteger == {"L12", "L13", "L15"}
InExponent == {"L43", "L44", "L49", "L51", "L52"}
InLiteral == {"L23", "L45", "L54", "L58", "L24", "L46", "L55", "L25", "L47", "L56"}
Moving == Between \cup Continuing \cup HexDigits \cup InInteger \cup InExponent \cup InLiteral

\* The states of scan, in their groups.
LEMMA EdgesAre ==
    /\ DOMAIN Edges = Moving
    /\ Edges["L6"] = {Edge(White, "L6")}
    /\ \A l \in {"L9", "L30"} : Edges[l] = StringBody
    /\ Edges["L35"] = Escape
    /\ \A l \in Continuing : Edges[l] = Continuation[l]
    /\ \A l \in HexDigits : Edges[l] = Hex[l]
    /\ \A l \in InInteger : Edges[l] = Integer[l]
    /\ \A l \in InExponent : Edges[l] = Exponent[l]
    /\ \A l \in InLiteral : Edges[l] = Literal[l]
<1>1. /\ DOMAIN Continuation = Continuing /\ DOMAIN Hex = HexDigits /\ DOMAIN Integer = InInteger
      /\ DOMAIN Exponent = InExponent /\ DOMAIN Literal = InLiteral
  BY DEF Continuation, Hex, Integer, Exponent, Literal,
       Continuing, HexDigits, InInteger, InExponent, InLiteral
<1> DEFINE C == Continuation  H == Hex  I == Integer  X == Exponent  T == Literal
           A == {Edge(White, "L6")}  S == StringBody  E == Escape
<1>2. Edges = [l \in Moving |->
        CASE l = "L6" -> A
          [] l \in {"L9", "L30"} -> S
          [] l = "L35" -> E
          [] l \in Continuing -> C[l]
          [] l \in HexDigits -> H[l]
          [] l \in InInteger -> I[l]
          [] l \in InExponent -> X[l]
          [] l \in InLiteral -> T[l]]
  <2>1. DOMAIN C = Continuing /\ DOMAIN H = HexDigits /\ DOMAIN I = InInteger /\ DOMAIN X = InExponent /\ DOMAIN T = InLiteral
    BY <1>1
  <2> HIDE DEF C, H, I, X, T, A, S, E
  <2>2. Edges =
    [l \in {"L6", "L9", "L30", "L35"} \cup DOMAIN C \cup DOMAIN H \cup DOMAIN I \cup DOMAIN X \cup DOMAIN T |->
        CASE l = "L6" -> A
          [] l \in {"L9", "L30"} -> S
          [] l = "L35" -> E
          [] l \in DOMAIN C -> C[l]
          [] l \in DOMAIN H -> H[l]
          [] l \in DOMAIN I -> I[l]
          [] l \in DOMAIN X -> X[l]
          [] l \in DOMAIN T -> T[l]]
    BY DEF Edges, C, H, I, X, T, A, S, E
  <2> QED
    BY <2>1, <2>2 DEF Moving, Between
<1> HIDE DEF C, H, I, X, T, A, S, E
<1>3. DOMAIN Edges = Moving
  BY <1>2
<1>4. Edges["L6"] = A /\ Edges["L9"] = S /\ Edges["L30"] = S /\ Edges["L35"] = E
  BY <1>2 DEF Moving, Between, Continuing, HexDigits, InInteger, InExponent, InLiteral
<1>5. \A l \in Continuing : Edges[l] = C[l]
  BY <1>2 DEF Moving, Between, Continuing, HexDigits, InInteger, InExponent, InLiteral
<1>6. \A l \in HexDigits : Edges[l] = H[l]
  BY <1>2 DEF Moving, Between, Continuing, HexDigits, InInteger, InExponent, InLiteral
<1>7. \A l \in InInteger : Edges[l] = I[l]
  BY <1>2 DEF Moving, Between, Continuing, HexDigits, InInteger, InExponent, InLiteral
<1>8. \A l \in InExponent : Edges[l] = X[l]
  BY <1>2 DEF Moving, Between, Continuing, HexDigits, InInteger, InExponent, InLiteral
<1>9. \A l \in InLiteral : Edges[l] = T[l]
  BY <1>2 DEF Moving, Between, Continuing, HexDigits, InInteger, InExponent, InLiteral
<1> QED
  BY <1>3, <1>4, <1>5, <1>6, <1>7, <1>8, <1>9 DEF C, H, I, X, T, A, S, E

\* What ends a line of a stream, and what fill_line_buffer puts behind the end of
\* the text: no token goes on with one of these.
Stops == {0, 1, 10}

\* How many bytes from the cursor on, its own included, a label and those it leads
\* to may read before one of them asks for a refill.
Want(l) ==
    IF l \in {"L12", "L23"} THEN 5
    ELSE IF l \in {"L13", "L24", "L25", "L45"} THEN 4
    ELSE IF l \in {"L44", "L46", "L47", "L54"} THEN 3
    ELSE IF l \in {"L9", "L43", "L51", "L55", "L56", "L58"} THEN 2
    ELSE 1

\* The labels that end scan, and all its labels.
Ending == {"L2", "L5", "L10", "L14", "L17", "L19", "L21", "L26", "L28", "L33", "L59", "L61", "L64", "L4"}
Labels == Moving \cup Ending \cup {"scan", "L32", "done"}

\* The accepting states of scan.
LEMMA EndsAre == DOMAIN Ends = Ending
BY DEF Ends, Ending

\* A byte leads along an edge or where every other byte does.
LEMMA GotoIs ==
    ASSUME NEW edges, NEW b, NEW otherwise
    PROVE  LET to == Goto(edges, b, otherwise) IN
           to = otherwise \/ \E e \in edges : b \in e.bytes /\ to = e.to
BY DEF Goto

\* What a label may lead to on a byte: never to one that wants to read more than
\* what is left of what was asked for, and to one that reads on only past a byte
\* that is no stop.
Leads(l, b, to) ==
    /\ to \in Labels \ {"done"} /\ (to = "scan" => l = "L6")
    /\ Want(to) >= 2 => b \notin Stops /\ Want(to) <= (IF Want(l) = 1 THEN Needs(l) ELSE Want(l) - 1)

\* The fields of an edge.
LEMMA EdgeIs == ASSUME NEW B, NEW t PROVE Edge(B, t).bytes = B /\ Edge(B, t).to = t
BY DEF Edge

\* A byte that no edge of scan is for leads so.
LEMMA OtherLeads == ASSUME NEW l \in Moving, NEW b PROVE Leads(l, b, Otherwise(l))
BY DEF Leads, Otherwise, Moving, Between, Continuing, HexDigits, InInteger, InExponent,
     InLiteral, Labels, Ending, Want, Stops

\* The edges of scan lead so.
LEMMA EdgeLeads ==
    ASSUME NEW l \in Moving, NEW b, NEW e \in Edges[l], b \in e.bytes
    PROVE  Leads(l, b, e.to)
<1>1. CASE l \in Between
  <2>1. CASE l = "L6"
    BY <2>1, EdgesAre, EdgeIs DEF Leads, Labels, Moving, Between, Want
  <2>2. CASE l \in {"L9", "L30"}
    <3>1. e \in StringBody
      BY <2>2, EdgesAre
    <3>2. e.to \in {"L30", "L33", "L35", "L36", "L37", "L38", "L39", "L40", "L41", "L42"}
      BY <3>1, EdgeIs DEF StringBody
    <3> QED
      BY <3>2 DEF Leads, Labels, Moving, Ending, Between, Continuing, Want
  <2>3. CASE l = "L35"
    <3>1. e.to \in {"L30", "L48"}
      BY <2>3, EdgesAre, EdgeIs DEF Escape
    <3> QED
      BY <3>1 DEF Leads, Labels, Moving, Between, HexDigits, Want
  <2> QED
    BY <1>1, <2>1, <2>2, <2>3 DEF Between
<1>2. CASE l \in Continuing
  <2>1. e.to \in {"L30", "L36", "L38"}
    BY <1>2, EdgesAre, EdgeIs DEF Continuation, Continuing
  <2> QED
    BY <2>1 DEF Leads, Labels, Moving, Between, Continuing, Want
<1>3. CASE l \in HexDigits
  <2>1. e.to \in {"L30", "L57", "L63", "L66"}
    BY <1>3, EdgesAre, EdgeIs DEF Hex, HexDigits
  <2> QED
    BY <2>1 DEF Leads, Labels, Moving, Between, HexDigits, Want
<1>4. CASE l \in InInteger
  BY <1>4, EdgesAre, EdgeIs DEF Integer, Digit, Needs, InInteger, InExponent,
       Leads, Labels, Moving, Want, Stops
<1>5. CASE l \in InExponent
  BY <1>5, EdgesAre, EdgeIs DEF Exponent, Digit, Needs, InInteger, InExponent,
       Leads, Labels, Moving, Want, Stops
<1>6. CASE l \in InLiteral
  BY <1>6, EdgesAre, EdgeIs DEF Literal, InLiteral, Leads, Labels, Moving, Ending, Want, Stops
<1> QED
  BY <1>1, <1>2, <1>3, <1>4, <1>5, <1>6 DEF Moving

\* The first byte of a token: five bytes were asked for.
LEMMA StartLeads ==
    ASSUME NEW e \in Dispatch, NEW b, b \in e.bytes
    PROVE  /\ e.to \in Labels \ {"done", "scan"} /\ Want(e.to) <= 5
           /\ Want(e.to) >= 2 => b \notin Stops
BY EdgeIs DEF Dispatch, White, Labels, Moving, Between, InInteger, InLiteral,
     Ending, Want, Stops, Quote

Byte == 0..255

\* Any set of natural numbers has a least one.
LEMMA LeastNat == ASSUME NEW T, T \subseteq Nat, T # {}
               PROVE  \E n \in T : \A m \in T : n <= m
<1> DEFINE R == {p \in Nat \X Nat : p[1] < p[2]}
<1>1. IsWellFoundedOn(R, Nat)
  BY NatLessThanWellFounded DEF OpToRel
<1>2. PICK n \in T : \A m \in T : <<m, n>> \notin R
  <2> HIDE DEF R
  <2> QED
    BY <1>1, WFMin
<1>3. \A m \in T : ~(m < n)
  BY <1>2
<1> QED
  BY <1>3

\* The least of a set.
LEMMA MinIs == ASSUME NEW T, T \subseteq Nat, T # {}
               PROVE  Min(T) \in T /\ \A m \in T : Min(T) <= m
BY LeastNat DEF Min

\* getline reads a line within the text.
LEMMA LineIn ==
    ASSUME text \in Seq(Byte), NEW from \in 0..Len(text)
    PROVE  /\ LineEnd(from) \in (from + 1)..(Len(text) + 1) /\ Line(from) \in Seq(Byte)
           /\ Min({LineEnd(from), Len(text)}) \in 0..Len(text)
<1> DEFINE n == Len(text)  T == {i \in (from + 1)..n : text[i] = Newline}  l == LineEnd(from)
<1>1. n \in Nat /\ from \in 0..n
  OBVIOUS
<1>2. l \in (from + 1)..(n + 1)
  <2>1. CASE T = {}
    BY <1>1, <2>1 DEF LineEnd
  <2>2. CASE T # {}
    <3>1. T \subseteq Nat
      BY <1>1
    <3> HIDE DEF T
    <3>2. Min(T) \in T
      BY <2>2, <3>1, MinIs
    <3> QED
      BY <2>2, <3>2 DEF LineEnd, T
  <2> QED
    BY <2>1, <2>2
<1> HIDE DEF l
<1>3. Line(from) \in Seq(Byte)
  <2>1. Line(from) = SubSeq(text, from + 1, l - 1)
    BY DEF Line, l
  <2> HIDE DEF n
  <2>2. from + 1 \in Int /\ l - 1 \in Int /\ \A i \in (from + 1)..(l - 1) : i \in 1..n
    BY <1>1, <1>2
  <2>3. \A i \in (from + 1)..(l - 1) : text[i] \in Byte
    BY <2>2 DEF n
  <2>4. SubSeq(text, from + 1, l - 1) \in Seq(Byte)
    BY <2>2, <2>3, SubSeqProperties
  <2> QED
    BY <2>1, <2>4
<1>4. Min({l, n}) \in 0..n
  <2> DEFINE T2 == {l, n}
  <2>1. T2 \subseteq Nat /\ T2 # {}
    BY <1>1, <1>2
  <2> HIDE DEF T2
  <2>2. Min(T2) \in T2 /\ \A m \in T2 : Min(T2) <= m
    BY <2>1, MinIs
  <2> HIDE DEF n
  <2> QED
    BY <1>1, <1>2, <2>2 DEF T2
<1> QED
  BY <1>2, <1>3, <1>4 DEF l

\* A sequence with one byte more.
LEMMA OneMore ==
    ASSUME NEW s \in Seq(Byte), NEW z \in Seq(Byte), Len(z) = 1
    PROVE  s \o z \in Seq(Byte) /\ Len(s \o z) = Len(s) + 1 /\ (s \o z)[Len(s) + 1] = z[1]
<1>1. /\ s \o z \in Seq(Byte) /\ Len(s \o z) = Len(s) + Len(z)
      /\ \A i \in 1..Len(s) + Len(z) : (s \o z)[i] = IF i <= Len(s) THEN s[i] ELSE z[i - Len(s)]
  BY ConcatProperties
<1> DEFINE n == Len(s)  m == n + 1
<1>2. n \in Nat
  OBVIOUS
<1> HIDE DEF n
<1>3. m \in 1..n + Len(z) /\ ~(m <= n) /\ m - n = 1
  BY <1>2
<1> QED
  BY <1>1, <1>3 DEF n

\* d is s or goes on after it.
Longer(s, d) == Len(s) <= Len(d) /\ \A i \in 1..Len(s) : d[i] = s[i]

\* The buffer that is filled up goes on after what was in it.
LEMMA LongerBy ==
    ASSUME NEW s \in Seq(Byte), NEW t \in Seq(Byte)
    PROVE  Longer(s, s) /\ Longer(s, s \o t)
<1>1. Len(s \o t) = Len(s) + Len(t) /\ Len(s) \in Nat /\ Len(t) \in Nat
  BY ConcatProperties
<1>2. \A i \in 1..Len(s) : i \in 1..Len(s) + Len(t) /\ i <= Len(s)
  BY <1>1
<1>3. \A i \in 1..Len(s) : (s \o t)[i] = s[i]
  BY <1>2, ConcatProperties
<1> QED
  BY <1>1, <1>3 DEF Longer

\* Twice as well.
LEMMA LongerYet ==
    ASSUME NEW s \in Seq(Byte), NEW t \in Seq(Byte), NEW u \in Seq(Byte), Longer(s, t), Longer(t, u)
    PROVE  Longer(s, u)
BY DEF Longer

\* The text, the buffer and how much of the text is in it.
BufferOK == text \in Seq(Byte) /\ data \in Seq(Byte) /\ taken \in 0..Len(text)

\* data grew to d.
Filled(d, at, n) ==
    /\ d \in Seq(Byte) /\ Len(data) <= Len(d) /\ at < Len(d) /\ Longer(data, d)
    /\ at + n <= Len(d) \/ d[Len(d)] \in Stops

\* fill_line_buffer either provides as many bytes as it was asked for or ends with
\* a stop, and always provides one.
LEMMA RefillEnough ==
    ASSUME BufferOK, NEW at \in 0..Len(data), NEW n \in 1..5, Refill(at, n), UNCHANGED text
    PROVE  BufferOK' /\ Filled(data', at, n)
<1> DEFINE k == Len(data)
<1>0. k \in Nat /\ data \in Seq(Byte)
  BY DEF BufferOK
<1>1. CASE ~(k - at < n)
  <2>1. data' = data /\ taken' = taken
    BY <1>1 DEF Refill
  <2>2. at + n <= k /\ at < k
    BY <1>0, <1>1
  <2> QED
    BY <2>1, <2>2 DEF BufferOK, Filled, Longer
<1>2. CASE k - at < n /\ (mode = "buffer" \/ eof)
  <2> DEFINE e == [i \in 1..(n - 1) |-> 1]  z == <<0>>  d == data \o z \o e
  <2>1. data' = d /\ taken' = taken
    BY <1>2 DEF Refill, FillLineBuffer
  <2>2. e \in Seq(Byte) /\ Len(e) = n - 1 /\ z \in Seq(Byte) /\ Len(z) = 1
    BY DEF Byte
  <2> HIDE DEF e, z, k
  <2> DEFINE y == data \o z
  <2>3. y \in Seq(Byte) /\ Len(y) = k + 1
    BY <1>0, <2>2, OneMore DEF k
  <2> HIDE DEF y
  <2>4. d \in Seq(Byte) /\ Len(d) = k + n
    <3>1. y \o e \in Seq(Byte) /\ Len(y \o e) = k + 1 + (n - 1)
      BY <2>2, <2>3
    <3> QED
      BY <1>0, <3>1 DEF y
  <2>5. at + n <= k + n /\ at < k + n /\ k <= k + n
    BY <1>0 DEF k
  <2> HIDE DEF d
  <2>6. BufferOK'
    BY <2>1, <2>4 DEF BufferOK
  <2>8. Longer(data, d)
    <3>1. Longer(data, y)
      BY <1>0, <2>2, LongerBy DEF y
    <3>2. Longer(y, y \o e)
      BY <2>2, <2>3, LongerBy
    <3>3. d = y \o e
      BY DEF d, y
    <3> QED
      BY <1>0, <2>3, <2>4, <3>1, <3>2, <3>3, LongerYet
  <2>7. Filled(d, at, n)
    BY <2>4, <2>5, <2>8 DEF Filled, k
  <2> QED
    BY <2>1, <2>6, <2>7
<1>3. CASE k - at < n /\ ~(mode = "buffer" \/ eof)
  <2> DEFINE e == Line(taken)  z == <<Newline>>  y == data \o e  d == y \o z
  <2>1. data' = d /\ taken' = Min({LineEnd(taken), Len(text)})
    BY <1>3 DEF Refill, FillLineBuffer
  <2>2. e \in Seq(Byte) /\ taken' \in 0..Len(text) /\ z \in Seq(Byte) /\ Len(z) = 1 /\ z[1] \in Stops
    BY <2>1, LineIn DEF BufferOK, Byte, Newline, Stops
  <2> HIDE DEF e, z, k
  <2>3. y \in Seq(Byte) /\ Len(y) \in Nat /\ Len(y) >= k
    BY <1>0, <2>2 DEF k
  <2> HIDE DEF y
  <2>4. d \in Seq(Byte) /\ Len(d) = Len(y) + 1 /\ d[Len(d)] = z[1]
    BY <2>2, <2>3, OneMore
  <2>5. at < Len(d) /\ k <= Len(d)
    BY <1>0, <2>3, <2>4 DEF k
  <2> HIDE DEF d
  <2>6. BufferOK'
    BY <2>1, <2>2, <2>4 DEF BufferOK
  <2>8. Longer(data, d)
    <3>1. Longer(data, y)
      BY <1>0, <2>2, LongerBy DEF y
    <3>2. Longer(y, d)
      BY <2>2, <2>3, LongerBy DEF d
    <3> QED
      BY <1>0, <2>3, <2>4, <3>1, <3>2, LongerYet
  <2>7. Filled(d, at, n)
    BY <2>2, <2>4, <2>5, <2>8 DEF Filled, k
  <2> QED
    BY <2>1, <2>6, <2>7
<1> QED
  BY <1>1, <1>2, <1>3

\* What a label may read is in the buffer, unless the buffer ends with a stop:
\* then the byte at the cursor is not the last.
LexInv ==
    /\ BufferOK
    /\ label \in Labels
    /\ cursor \in 0..Len(data) /\ marker \in 0..Len(data) /\ (marker = 0 \/ marker < Len(data))
    /\ label \notin {"scan", "done"} => cursor < Len(data)
    /\ Want(label) >= 2 =>
          cursor + Want(label) <= Len(data) \/ (cursor + 1 < Len(data) /\ data[Len(data)] \in Stops)

\* A line without its byte order mark is a text.
LEMMA BlankedIn == ASSUME NEW s \in Seq(Byte) PROVE Blanked(s) \in Seq(Byte)
<1>1. CASE Len(s) >= 3
  <2> DEFINE b == <<32, 32, 32>>  r == SubSeq(s, 4, Len(s))  n == Len(s)
  <2>0. 32 \in Byte
    BY DEF Byte
  <2>1. b \in Seq(Byte) /\ n \in Nat /\ \A i \in 4..n : s[i] \in Byte
    BY <2>0
  <2>2. r \in Seq(Byte)
    BY <2>1, SubSeqProperties
  <2> HIDE DEF b, r
  <2>3. b \o r \in Seq(Byte)
    BY <2>1, <2>2
  <2> QED
    BY <2>3 DEF Blanked, b, r
<1> QED
  BY <1>1 DEF Blanked

\* So it is when a lexer was made of a text or of a stream.
LEMMA LexStarts == Init => LexInv
<1> SUFFICES ASSUME Init PROVE LexInv
  OBVIOUS
<1>1. text \in Seq(Byte)
  BY LexerAssumption DEF TextsAndLimits, Init, Byte
<1>2. data \in Seq(Byte) /\ taken \in 0..Len(text)
  <2>1. CASE mode = "buffer"
    BY <1>1, <2>1 DEF Init
  <2>2. CASE mode # "buffer"
    <3> DEFINE l == Line(0)  n == Newline  t == Append(l, n)
    <3>1. data = Blanked(t) /\ taken = Min({LineEnd(0), Len(text)})
      BY <2>2 DEF Init
    <3>2. l \in Seq(Byte) /\ n \in Byte /\ 0 \in 0..Len(text) /\ taken \in 0..Len(text)
      BY <1>1, <3>1, LineIn DEF Newline, Byte
    <3> HIDE DEF l, n
    <3>3. t \in Seq(Byte)
      BY <3>2
    <3> QED
      BY <3>1, <3>2, <3>3, BlankedIn
  <2> QED
    BY <2>1, <2>2
<1>3. label = "scan" /\ cursor = 0 /\ marker = 0
  BY DEF Init
<1>4. 0 \in 0..Len(data) /\ Want("scan") = 1
  BY <1>2 DEF Want
<1> QED
  BY <1>1, <1>2, <1>3, <1>4 DEF LexInv, BufferOK, Labels

\* What a label asks for.
LEMMA NeedsAre == \A l \in Moving : IF Want(l) = 1 THEN Needs(l) \in 1..3 ELSE Needs(l) = 0
BY DEF Needs, Want, Moving, Between, Continuing, HexDigits, InInteger, InExponent, InLiteral

\* Any byte leads so, from any label.
LEMMA MoveLeads ==
    ASSUME NEW l \in Moving, NEW b
    PROVE  Leads(l, b, Goto(Edges[l], b, Otherwise(l)))
BY GotoIs, OtherLeads, EdgeLeads

\* scan begins a token: the refill of five bytes is enough.
LEMMA ScanStep == ASSUME LexInv, Scan PROVE LexInv' /\ Longer(data, data')
<1>1. BufferOK /\ cursor \in 0..Len(data) /\ marker \in 0..Len(data)
  BY DEF LexInv
<1>2. /\ Refill(cursor, 5) /\ Read(cursor, Dispatch, "L4")
      /\ text' = text /\ cursor' = cursor /\ marker' = marker
  BY DEF Scan, Needs
<1>3. BufferOK' /\ Filled(data', cursor, 5)
  BY <1>1, <1>2, RefillEnough
<1> DEFINE n == Len(data')  b == data'[cursor + 1]  k == Len(data)
<1>4. n \in Nat /\ cursor < n /\ k \in Nat /\ k <= n /\ cursor \in Nat /\ marker \in Nat /\ marker <= k /\ (marker = 0 \/ marker < k)
      /\ (cursor + 5 <= n \/ data'[n] \in Stops)
  BY <1>1, <1>3 DEF BufferOK, Filled, LexInv
<1>5. label' = Goto(Dispatch, b, "L4")
  BY <1>2, <1>4 DEF Read
<1> HIDE DEF n, b, k
<1>6. /\ label' \in Labels \ {"done", "scan"} /\ Want(label') <= 5
      /\ Want(label') >= 2 => b \notin Stops
  <2>1. CASE label' = "L4"
    BY <2>1 DEF Labels, Ending, Want
  <2>2. CASE \E e \in Dispatch : b \in e.bytes /\ label' = e.to
    BY <2>2, StartLeads
  <2> QED
    BY <1>5, <2>1, <2>2, GotoIs
<1>7. Want(label') \in Nat
  BY DEF Want
<1>8. Want(label') >= 2 => cursor + Want(label') <= n \/ (cursor + 1 < n /\ data'[n] \in Stops)
  <2> SUFFICES ASSUME Want(label') >= 2, ~(cursor + 5 <= n) PROVE cursor + 1 < n /\ data'[n] \in Stops
    BY <1>4, <1>6, <1>7
  <2>1. data'[n] \in Stops /\ b \notin Stops
    BY <1>4, <1>6
  <2>2. cursor + 1 # n
    BY <2>1 DEF b
  <2> QED
    BY <1>4, <2>1, <2>2
<1>9. cursor' \in 0..n /\ marker' \in 0..n /\ (marker' = 0 \/ marker' < n) /\ cursor' < n
  BY <1>2, <1>4
<1> QED
  BY <1>2, <1>3, <1>6, <1>8, <1>9 DEF LexInv, Filled, n

\* scan goes on by one byte: a label that asks for nothing finds it.
LEMMA MoveStep == ASSUME LexInv, Move PROVE LexInv' /\ Longer(data, data')
<1> DEFINE c == cursor + 1  k == Len(data)  n == Len(data')  b == data'[c + 1]
<1>1. BufferOK /\ cursor \in 0..k /\ label \in Moving /\ label \notin {"scan", "done"} /\ cursor < k
      /\ (Want(label) >= 2 => cursor + Want(label) <= k \/ (cursor + 1 < k /\ data[k] \in Stops))
      /\ marker \in 0..k /\ (marker = 0 \/ marker < k)
  BY EdgesAre DEF LexInv, Move, Moving, Between, Continuing, HexDigits, InInteger,
       InExponent, InLiteral
<1>2. /\ Refill(c, Needs(label)) /\ Read(c, Edges[label], Otherwise(label))
      /\ text' = text /\ cursor' = c /\ (marker' = c \/ marker' = marker)
  <2>1. cursor' = c
    BY DEF Move
  <2> QED
    BY <2>1 DEF Move
<1>3. /\ BufferOK' /\ Longer(data, data') /\ k \in Nat /\ n \in Nat /\ k <= n /\ c \in Nat /\ c < n
      /\ \/ Want(label) = 1 /\ (c + Needs(label) <= n \/ data'[n] \in Stops)
         \/ Want(label) >= 2 /\ (c + (Want(label) - 1) <= n \/ data'[n] \in Stops)
  <2>0. k \in Nat /\ c \in 0..k /\ Want(label) \in 1..5
    BY <1>1 DEF BufferOK, Want
  <2>1. CASE Want(label) = 1
    <3>1. Needs(label) \in 1..5
      BY <1>1, <2>1, NeedsAre
    <3>2. BufferOK' /\ Filled(data', c, Needs(label))
      BY <1>1, <1>2, <2>0, <3>1, RefillEnough
    <3> QED
      BY <2>0, <2>1, <3>1, <3>2 DEF Filled
  <2>2. CASE Want(label) >= 2
    <3>1. Needs(label) = 0
      BY <1>1, <2>0, <2>2, NeedsAre
    <3>2. c < k
      BY <1>1, <2>0, <2>2
    <3>3. data' = data /\ taken' = taken
      BY <1>2, <2>0, <3>1 DEF Refill
    <3>4. BufferOK' /\ n = k /\ Longer(data, data')
      BY <1>1, <1>2, <3>3 DEF BufferOK, Longer
    <3>5. c + (Want(label) - 1) <= k \/ data[k] \in Stops
      BY <1>1, <2>0, <2>2
    <3> QED
      BY <2>0, <2>2, <3>2, <3>3, <3>4, <3>5
  <2> QED
    BY <2>0, <2>1, <2>2
<1>4. label' = Goto(Edges[label], b, Otherwise(label))
  BY <1>2, <1>3 DEF Read
<1>5. Leads(label, b, label')
  BY <1>1, <1>4, MoveLeads
<1>6. Want(label') \in Nat /\ Want(label) \in Nat /\ Needs(label) \in Nat
  BY DEF Want, Needs
<1> HIDE DEF c, n, b, k
<1>7. Want(label') >= 2 => c + Want(label') <= n \/ (c + 1 < n /\ data'[n] \in Stops)
  <2> SUFFICES ASSUME Want(label') >= 2, ~(c + Want(label') <= n) PROVE c + 1 < n /\ data'[n] \in Stops
    OBVIOUS
  <2>1. b \notin Stops /\ Want(label') <= (IF Want(label) = 1 THEN Needs(label) ELSE Want(label) - 1)
    BY <1>5 DEF Leads
  <2>2. data'[n] \in Stops
    BY <1>3, <1>6, <2>1
  <2>3. c + 1 # n
    BY <2>1, <2>2 DEF b
  <2> QED
    BY <1>3, <2>2, <2>3
<1>8. cursor' \in 0..n /\ marker' \in 0..n /\ (marker' = 0 \/ marker' < n) /\ cursor' < n
  BY <1>1, <1>2, <1>3
<1> QED
  BY <1>2, <1>3, <1>5, <1>7, <1>8 DEF LexInv, Leads, n

\* No step of scan leaves the buffer.
LEMMA LexSteps == LexInv /\ [Next]_(vars) => LexInv'
<1> SUFFICES ASSUME LexInv, [Next]_(vars) PROVE LexInv'
  OBVIOUS
<1>1. CASE Scan
  BY <1>1, ScanStep
<1>2. CASE Move
  BY <1>2, MoveStep
<1>3. CASE Back
  <2>1. data' = data /\ text' = text /\ taken' = taken /\ cursor' = marker /\ marker' = marker /\ label = "L32"
        /\ label' \in {"L5", "L14"}
    BY <1>3 DEF Back
  <2>2. cursor \in 0..Len(data) /\ cursor < Len(data) /\ marker \in 0..Len(data) /\ (marker = 0 \/ marker < Len(data))
        /\ Len(data) \in Nat
    BY <2>1 DEF LexInv, BufferOK
  <2>3. marker < Len(data)
    BY <2>2
  <2>4. label' \in Labels /\ Want(label') = 1
    BY <2>1 DEF Labels, Ending, Want
  <2> QED
    BY <2>1, <2>2, <2>3, <2>4 DEF LexInv, BufferOK
<1>4. CASE Return
  <2>1. data' = data /\ text' = text /\ taken' = taken /\ (cursor' = cursor \/ cursor' = cursor + 1) /\ marker' = marker
        /\ label \in Ending /\ label' \in {"done", "scan"}
    BY <1>4, EndsAre DEF Return
  <2>2. cursor \in 0..Len(data) /\ cursor < Len(data) /\ marker \in 0..Len(data) /\ (marker = 0 \/ marker < Len(data))
        /\ Len(data) \in Nat
    BY <2>1 DEF LexInv, BufferOK, Ending
  <2>3. cursor' \in 0..Len(data)
    BY <2>1, <2>2
  <2>4. label' \in Labels /\ Want(label') = 1
    BY <2>1 DEF Labels, Ending, Want
  <2> QED
    BY <2>1, <2>2, <2>3, <2>4 DEF LexInv, BufferOK
<1>5. CASE UNCHANGED vars
  BY <1>5 DEF LexInv, BufferOK, vars
<1> QED
  BY <1>1, <1>2, <1>3, <1>4, <1>5 DEF Next

\* scan never reads a byte behind m_limit, for any text in memory or in a stream:
\* refills of five bytes before a token and of one or three bytes at some labels
\* are enough, wherever the text ends or a line breaks.
THEOREM ReadsInside == Spec => [](label # "outside")
<1>1. LexInv => label # "outside"
  BY DEF LexInv, Labels, Moving, Between, Continuing, HexDigits, InInteger, InExponent,
       InLiteral, Ending
<1> QED
  BY <1>1, LexStarts, LexSteps, PTL DEF Spec

-----------------------------------------------------------------------------
(* Numbers: what get_number makes of what scan found.                      *)

\* Induction over numbers, with a set in the place of a predicate.
LEMMA CountingUp ==
    ASSUME NEW S, 0 \in S, \A n \in Nat : n \in S => n + 1 \in S
    PROVE  Nat \subseteq S
<1> DEFINE U == {n \in Nat : n \notin S}
<1>1. U = {}
  <2> SUFFICES ASSUME U # {} PROVE FALSE
    OBVIOUS
  <2>1. PICK n \in U : \A m \in U : n <= m
    <3>1. U \subseteq Nat
      OBVIOUS
    <3> HIDE DEF U
    <3> QED
      BY <3>1, LeastNat
  <2>2. n - 1 \in Nat /\ ~(n <= n - 1) /\ n = (n - 1) + 1
    OBVIOUS
  <2> QED
    BY <2>1, <2>2
<1> QED
  BY <1>1

\* The values of the first digits, and get_number's state after the first characters.
Firsts(f, s, n) == f = [i \in 0..n |-> IF i = 0 THEN 0 ELSE 10 * f[i - 1] + (s[i] - 48)]
Afters(f, s, max, n) ==
    f = [i \in 0..n |-> IF i = 0 THEN [value |-> 0, float |-> FALSE, stop |-> FALSE]
                        ELSE NumberChar(f[i - 1], s[i], max)]

\* There are such values for every text.
LEMMA FirstsExist == ASSUME NEW s, NEW n \in Nat PROVE \E f : Firsts(f, s, n)
<1> DEFINE N == {k \in Nat : \E f : Firsts(f, s, k)}
<1>1. 0 \in N
  <2> DEFINE f == [i \in 0..0 |-> 0]
  <2>1. Firsts(f, s, 0)
    BY DEF Firsts
  <2> QED
    BY <2>1
<1>2. ASSUME NEW k \in Nat, k \in N PROVE k + 1 \in N
  <2>1. PICK f : Firsts(f, s, k)
    BY <1>2
  <2> DEFINE g == [i \in 0..(k + 1) |-> IF i \in 0..k THEN f[i] ELSE 10 * f[k] + (s[k + 1] - 48)]
  <2>2. ASSUME NEW i \in 0..(k + 1) PROVE g[i] = IF i = 0 THEN 0 ELSE 10 * g[i - 1] + (s[i] - 48)
    <3>1. CASE i = 0
      BY <2>1, <3>1 DEF Firsts
    <3>2. CASE i \in 1..k
      <4>1. i \in 0..k /\ i - 1 \in 0..k /\ i - 1 \in 0..(k + 1) /\ i # 0
        BY <3>2
      <4>2. f[i] = 10 * f[i - 1] + (s[i] - 48)
        BY <2>1, <4>1 DEF Firsts
      <4>3. g[i] = f[i] /\ g[i - 1] = f[i - 1]
        BY <4>1
      <4> HIDE DEF g
      <4> QED
        BY <4>1, <4>2, <4>3
    <3>3. CASE i = k + 1
      <4>1. i \notin 0..k /\ i - 1 = k /\ k \in 0..k /\ k \in 0..(k + 1) /\ i # 0
        BY <3>3
      <4>2. g[i] = 10 * f[k] + (s[i] - 48) /\ g[i - 1] = f[k]
        BY <3>3, <4>1
      <4> HIDE DEF g
      <4> QED
        BY <4>1, <4>2
    <3> QED
      BY <3>1, <3>2, <3>3
  <2>3. g = [i \in 0..(k + 1) |-> g[i]]
    OBVIOUS
  <2> HIDE DEF g
  <2>4. Firsts(g, s, k + 1)
    BY <2>2, <2>3 DEF Firsts
  <2> QED
    BY <2>4
<1>3. Nat \subseteq N
  <2> HIDE DEF N
  <2> QED
    BY <1>1, <1>2, CountingUp
<1> QED
  BY <1>3

\* There are such states for every text.
LEMMA AftersExist == ASSUME NEW s, NEW max, NEW n \in Nat PROVE \E f : Afters(f, s, max, n)
<1> DEFINE N == {k \in Nat : \E f : Afters(f, s, max, k)}
           nil == [value |-> 0, float |-> FALSE, stop |-> FALSE]
<1>1. 0 \in N
  <2> DEFINE f == [i \in 0..0 |-> nil]
  <2>1. Afters(f, s, max, 0)
    BY DEF Afters
  <2> QED
    BY <2>1
<1>2. ASSUME NEW k \in Nat, k \in N PROVE k + 1 \in N
  <2>1. PICK f : Afters(f, s, max, k)
    BY <1>2
  <2> DEFINE g == [i \in 0..(k + 1) |-> IF i \in 0..k THEN f[i] ELSE NumberChar(f[k], s[k + 1], max)]
  <2>2. ASSUME NEW i \in 0..(k + 1) PROVE g[i] = IF i = 0 THEN nil ELSE NumberChar(g[i - 1], s[i], max)
    <3>1. CASE i = 0
      BY <2>1, <3>1 DEF Afters
    <3>2. CASE i \in 1..k
      <4>1. i \in 0..k /\ i - 1 \in 0..k /\ i - 1 \in 0..(k + 1) /\ i # 0
        BY <3>2
      <4>2. f[i] = NumberChar(f[i - 1], s[i], max)
        BY <2>1, <4>1 DEF Afters
      <4>3. g[i] = f[i] /\ g[i - 1] = f[i - 1]
        BY <4>1
      <4> HIDE DEF g
      <4> QED
        BY <4>1, <4>2, <4>3
    <3>3. CASE i = k + 1
      <4>1. i \notin 0..k /\ i - 1 = k /\ k \in 0..k /\ k \in 0..(k + 1) /\ i # 0
        BY <3>3
      <4>2. g[i] = NumberChar(f[k], s[i], max) /\ g[i - 1] = f[k]
        BY <3>3, <4>1
      <4> HIDE DEF g
      <4> QED
        BY <4>1, <4>2
    <3> QED
      BY <3>1, <3>2, <3>3
  <2>3. g = [i \in 0..(k + 1) |-> g[i]]
    OBVIOUS
  <2> HIDE DEF g
  <2>4. Afters(g, s, max, k + 1)
    BY <2>2, <2>3 DEF Afters
  <2> QED
    BY <2>4
<1>3. Nat \subseteq N
  <2> HIDE DEF N
  <2> QED
    BY <1>1, <1>2, CountingUp
<1> QED
  BY <1>3

\* What Decimal is: the last of those values.
LEMMA DecimalIs == ASSUME NEW s, Len(s) \in Nat
                   PROVE  \E f : Firsts(f, s, Len(s)) /\ Decimal(s) = f[Len(s)]
<1> DEFINE f == CHOOSE f : Firsts(f, s, Len(s))
<1>1. Firsts(f, s, Len(s))
  BY FirstsExist
<1>2. Decimal(s) = f[Len(s)]
  BY DEF Decimal, Firsts
<1> HIDE DEF f
<1> QED
  BY <1>1, <1>2

\* What get_number's loop ends with: the last of those states.
LEMMA ConvertedIs == ASSUME NEW s, NEW max, Len(s) \in Nat
                     PROVE  \E f : Afters(f, s, max, Len(s)) /\ Converted(s, max) = f[Len(s)]
<1> DEFINE f == CHOOSE f : Afters(f, s, max, Len(s))
<1>1. Afters(f, s, max, Len(s))
  BY AftersExist
<1>2. Converted(s, max) = f[Len(s)]
  BY DEF Converted, Afters
<1> HIDE DEF f
<1> QED
  BY <1>1, <1>2

\* get_number's state when it has read the value v, and when it is a float.
IsValue(n, v) == n = [value |-> v, float |-> FALSE, stop |-> FALSE]
IsFloat(n) == \E v : \E p \in BOOLEAN : n = [value |-> v, float |-> TRUE, stop |-> p]

\* What a turn of the loop makes of a value.
LEMMA ValueTurns ==
    ASSUME NEW n, NEW v, NEW c, NEW max, IsValue(n, v)
    PROVE  /\ c \notin Digit => IsFloat(NumberChar(n, c, max))
           /\ c \in Digit /\ TooLarge(v, c - 48, max) => IsFloat(NumberChar(n, c, max))
           /\ c \in Digit /\ ~TooLarge(v, c - 48, max)
                 => IsValue(NumberChar(n, c, max), 10 * v + (c - 48))
<1> DEFINE w == 10 * v + (c - 48)  m == NumberChar(n, c, max)
<1>1. /\ n = [value |-> v, float |-> FALSE, stop |-> FALSE]
      /\ n.value = v /\ ~n.float /\ ~n.stop
  BY DEF IsValue
<1>2. CASE c \notin Digit
  <2>0. m = [n EXCEPT !.float = TRUE, !.stop = (c # 46)]
    BY <1>1, <1>2 DEF NumberChar
  <2>1. CASE c = 46
    <3>1. m = [n EXCEPT !.float = TRUE, !.stop = FALSE]
      BY <2>0, <2>1
    <3> HIDE DEF m
    <3>2. m = [value |-> v, float |-> TRUE, stop |-> FALSE]
      BY <1>1, <3>1
    <3> QED
      BY <1>2, <3>2 DEF IsFloat, m
  <2>2. CASE c # 46
    <3>1. m = [n EXCEPT !.float = TRUE, !.stop = TRUE]
      BY <2>0, <2>2
    <3> HIDE DEF m
    <3>2. m = [value |-> v, float |-> TRUE, stop |-> TRUE]
      BY <1>1, <3>1
    <3> QED
      BY <1>2, <3>2 DEF IsFloat, m
  <2> QED
    BY <2>1, <2>2
<1>3. CASE c \in Digit /\ TooLarge(v, c - 48, max)
  <2>1. m = [n EXCEPT !.float = TRUE]
    BY <1>1, <1>3 DEF NumberChar
  <2> HIDE DEF m
  <2>2. m = [value |-> v, float |-> TRUE, stop |-> FALSE]
    BY <1>1, <2>1
  <2> QED
    BY <1>3, <2>2 DEF IsFloat, m
<1>4. CASE c \in Digit /\ ~TooLarge(v, c - 48, max)
  <2>1. m = [n EXCEPT !.value = w]
    BY <1>1, <1>4 DEF NumberChar
  <2> HIDE DEF m, w
  <2>2. m = [value |-> w, float |-> FALSE, stop |-> FALSE]
    BY <1>1, <2>1
  <2> QED
    BY <1>4, <2>2 DEF IsValue, m, w
<1> QED
  BY <1>2, <1>3, <1>4

\* A float stays one.
LEMMA FloatTurns ==
    ASSUME NEW n, NEW c, NEW max, IsFloat(n)
    PROVE  IsFloat(NumberChar(n, c, max))
<1> DEFINE m == NumberChar(n, c, max)
<1>0. PICK v : \E p \in BOOLEAN : n = [value |-> v, float |-> TRUE, stop |-> p]
  BY DEF IsFloat
<1>1. PICK p \in BOOLEAN : n = [value |-> v, float |-> TRUE, stop |-> p]
  BY <1>0
<1>2. m = n \/ m = [n EXCEPT !.float = TRUE, !.stop = (c # 46)]
  <2>1. n.float
    BY <1>1
  <2> QED
    BY <2>1 DEF NumberChar
<1>3. m = n \/ m = [n EXCEPT !.float = TRUE, !.stop = TRUE] \/ m = [n EXCEPT !.float = TRUE, !.stop = FALSE]
  <2>1. CASE c = 46
    BY <1>2, <2>1
  <2>2. CASE c # 46
    BY <1>2, <2>2
  <2> QED
    BY <2>1, <2>2
<1> HIDE DEF m
<1>4. \/ m = n \/ m = [value |-> v, float |-> TRUE, stop |-> TRUE]
      \/ m = [value |-> v, float |-> TRUE, stop |-> FALSE]
  BY <1>1, <1>3
<1>5. IsFloat(m)
  BY <1>4 DEF IsFloat
<1> QED
  BY <1>5 DEF m

\* What get_number sees of a state after the loop.
LEMMA StateSays ==
    ASSUME NEW n PROVE (\A v : IsValue(n, v) => ~n.float /\ n.value = v) /\ (IsFloat(n) => n.float)
BY DEF IsValue, IsFloat

\* The first n characters are digits.
AllDigits(s, n) == \A i \in 1..n : s[i] \in Digit

\* What f says of the first characters is what their value g says.
Agree(f, g, s, max, i) ==
    /\ AllDigits(s, i) => g[i] \in Nat
    /\ IF AllDigits(s, i) /\ g[i] <= max
       THEN IsValue(f[i], g[i])
       ELSE IsFloat(f[i])

\* The test that get_number makes before it adds a digit is exact.
LEMMA TooLargeIs ==
    ASSUME NEW v \in Nat, NEW c \in 0..9, NEW max \in Nat
    PROVE  TooLarge(v, c, max) <=> 10 * v + c > max
BY DEF TooLarge

\* That is so after one character more.
LEMMA CharAgrees ==
    ASSUME NEW s, NEW max \in Nat, NEW n \in Nat, NEW f, NEW g, Afters(f, s, max, n), Firsts(g, s, n),
           NEW i \in 0..(n - 1), Agree(f, g, s, max, i)
    PROVE  Agree(f, g, s, max, i + 1)
<1> DEFINE j == i + 1  c == s[j]
<1>0. i \in Nat /\ j \in Nat /\ i \in 0..n /\ j \in 0..n /\ j # 0 /\ j - 1 = i
  OBVIOUS
<1>1. f[j] = NumberChar(f[i], c, max)
  BY <1>0 DEF Afters
<1>2. g[j] = 10 * g[i] + (c - 48)
  BY <1>0 DEF Firsts
<1>3. AllDigits(s, j) <=> AllDigits(s, i) /\ c \in Digit
  <2>1. \A k : k \in 1..j <=> k \in 1..i \/ k = j
    BY <1>0
  <2> QED
    BY <2>1 DEF AllDigits
<1> HIDE DEF j, c
<1>4. CASE AllDigits(s, i) /\ g[i] <= max
  <2>1. IsValue(f[i], g[i]) /\ g[i] \in Nat
    BY <1>4 DEF Agree
  <2>2. CASE c \notin Digit
    <3>1. IsFloat(f[j])
      BY <1>1, <2>1, <2>2, ValueTurns
    <3> QED
      BY <1>3, <2>2, <3>1 DEF Agree, j
  <2>3. CASE c \in Digit
    <3>1. c - 48 \in 0..9 /\ c \in Int
      BY <2>3 DEF Digit
    <3>2. TooLarge(g[i], c - 48, max) <=> 10 * g[i] + (c - 48) > max
      BY <2>1, <3>1, TooLargeIs
    <3>3. IF TooLarge(g[i], c - 48, max) THEN IsFloat(f[j]) ELSE IsValue(f[j], 10 * g[i] + (c - 48))
      BY <1>1, <2>1, <2>3, ValueTurns
    <3>4. g[j] \in Nat /\ (TooLarge(g[i], c - 48, max) <=> ~(g[j] <= max))
      BY <1>2, <2>1, <3>1, <3>2
    <3>5. IF g[j] <= max THEN IsValue(f[j], g[j]) ELSE IsFloat(f[j])
      BY <1>2, <3>3, <3>4
    <3>6. CASE g[j] <= max
      BY <1>3, <1>4, <2>3, <3>4, <3>5, <3>6 DEF Agree, j
    <3>7. CASE ~(g[j] <= max)
      BY <3>4, <3>5, <3>7 DEF Agree, j
    <3> QED
      BY <3>6, <3>7
  <2> QED
    BY <2>2, <2>3
<1>5. CASE ~(AllDigits(s, i) /\ g[i] <= max)
  <2>1. IsFloat(f[i])
    BY <1>5 DEF Agree
  <2>2. IsFloat(f[j])
    BY <1>1, <2>1, FloatTurns
  <2>3. AllDigits(s, j) => g[j] \in Nat /\ g[j] > max
    <3> SUFFICES ASSUME AllDigits(s, j) PROVE g[j] \in Nat /\ g[j] > max
      OBVIOUS
    <3>1. g[i] \in Nat /\ g[i] > max /\ c \in 48..57
      BY <1>3, <1>5 DEF Agree, Digit
    <3> QED
      BY <1>2, <3>1
  <2>4. ~(AllDigits(s, j) /\ g[j] <= max)
    BY <2>3
  <2> QED
    BY <2>2, <2>3, <2>4 DEF Agree, j
<1> QED
  BY <1>4, <1>5

\* get_number keeps what is all digits and not too large, and all else is a float.
LEMMA ConvertedFits ==
    ASSUME NEW s, Len(s) \in Nat, NEW max \in Nat
    PROVE  LET n == Converted(s, max) IN
           IF AllDigits(s, Len(s)) /\ Decimal(s) <= max
           THEN ~n.float /\ n.value = Decimal(s) ELSE n.float
<1>1. PICK f : Afters(f, s, max, Len(s)) /\ Converted(s, max) = f[Len(s)]
  BY ConvertedIs
<1>2. PICK g : Firsts(g, s, Len(s)) /\ Decimal(s) = g[Len(s)]
  BY DecimalIs
<1> DEFINE n == Len(s)  N == {i \in Nat : i <= n => Agree(f, g, s, max, i)}
<1>0. n \in Nat
  OBVIOUS
<1>3. 0 \in N
  <2>1. IsValue(f[0], 0) /\ g[0] = 0 /\ AllDigits(s, 0)
    BY <1>1, <1>2 DEF Afters, Firsts, AllDigits, IsValue
  <2>2. Agree(f, g, s, max, 0)
    BY <2>1 DEF Agree
  <2> QED
    BY <2>2
<1>4. ASSUME NEW i \in Nat, i \in N PROVE i + 1 \in N
  <2> SUFFICES ASSUME i + 1 <= n PROVE Agree(f, g, s, max, i + 1)
    BY i + 1 \in Nat
  <2>1. i \in 0..(n - 1) /\ Agree(f, g, s, max, i)
    BY <1>0, <1>4
  <2> QED
    BY <1>0, <1>1, <1>2, <2>1, CharAgrees
<1>5. Nat \subseteq N
  <2> HIDE DEF N
  <2> QED
    BY <1>3, <1>4, CountingUp
<1>6. Agree(f, g, s, max, n)
  BY <1>0, <1>5
<1>7. CASE AllDigits(s, n) /\ g[n] <= max
  <2>1. IsValue(f[n], g[n])
    BY <1>6, <1>7 DEF Agree
  <2>2. ~f[n].float /\ f[n].value = g[n]
    BY <2>1, StateSays
  <2> QED
    BY <1>1, <1>2, <1>7, <2>2
<1>8. CASE ~(AllDigits(s, n) /\ g[n] <= max)
  <2>1. IsFloat(f[n])
    BY <1>6, <1>8 DEF Agree
  <2>2. f[n].float
    BY <2>1, StateSays
  <2> QED
    BY <1>1, <1>2, <1>8, <2>2
<1> QED
  BY <1>7, <1>8

\* The position after the sign.
After(d, from) == IF d[from + 1] = 45 THEN from + 1 ELSE from

\* From one position to another d has a byte besides its sign, and if those are
\* digits and the first is 0 there is no other: what a number of scan is like.
Good(d, from, to) ==
    LET a == After(d, from) IN
    /\ from \in Nat /\ to \in Nat /\ a < to /\ to <= Len(d)
    /\ d[a + 1] = 48 /\ (\A i \in (a + 1)..to : d[i] \in Digit) => to = a + 1

\* What NumberExact says of one number.
Exact(s) ==
    LET value == Decimal(Drop(s, {45}))
        fits  == IsInteger(s) /\ value <= (IF s[1] = 45 THEN MaxInteger + 1 ELSE MaxUnsigned)
    IN IF fits THEN GetNumber(s) = {[value |-> IF s[1] = 45 THEN -value ELSE value,
                          type |-> IF s[1] = 45 THEN "number_integer" ELSE "number_unsigned"]}
       ELSE \A r \in GetNumber(s) : r.type \in {"number_float", "null"}

\* A token's digits after its sign.
Shape(s, d) ==
    /\ s # <<>> /\ d # <<>> /\ Len(d) \in Nat /\ d = (IF s[1] = 45 THEN Tail(s) ELSE s)
    /\ AllDigits(d, Len(d)) /\ d[1] = 48 => Len(d) = 1

\* get_number is exact for whatever has that shape.
LEMMA ShapeExact ==
    ASSUME MaxInteger \in Nat, MaxUnsigned \in Nat, NEW s, NEW d, Shape(s, d)
    PROVE  Exact(s)
<1> DEFINE max == IF s[1] = 45 THEN MaxInteger + 1 ELSE MaxUnsigned
           n == Converted(d, max)  v == Decimal(d)
<1>1. Drop(s, {45}) = d
  BY DEF Shape, Drop
<1>2. DOMAIN d = 1..Len(d)
  <2>1. \A m \in Nat : Len(d) = m => DOMAIN d = 1..m
    BY DEF Shape
  <2> QED
    BY <2>1 DEF Shape
<1>3. IsInteger(s) <=> AllDigits(d, Len(d))
  BY <1>1, <1>2 DEF IsInteger, Digits, AllDigits, Shape
<1>4. IF AllDigits(d, Len(d)) /\ v <= max THEN ~n.float /\ n.value = v ELSE n.float
  <2>1. max \in Nat /\ Len(d) \in Nat
    BY DEF Shape
  <2> HIDE DEF max
  <2> QED
    BY <2>1, ConvertedFits
<1>5. GetNumber(s) =
        IF n.float THEN {[type |-> "number_float"], [type |-> "null"]}
        ELSE {[type |-> IF s[1] = 45 THEN "number_integer" ELSE "number_unsigned",
               value |-> IF s[1] = 45 THEN -n.value ELSE n.value]}
  <2>1. n = Converted(IF s[1] = 45 THEN Tail(s) ELSE s, IF s[1] = 45 THEN MaxInteger + 1 ELSE MaxUnsigned)
    BY DEF Shape
  <2> HIDE DEF n
  <2> QED
    BY <2>1 DEF GetNumber
<1>6. Exact(s) <=> IF AllDigits(d, Len(d)) /\ v <= max
                   THEN GetNumber(s) = {[value |-> IF s[1] = 45 THEN -v ELSE v,
                          type |-> IF s[1] = 45 THEN "number_integer" ELSE "number_unsigned"]}
                   ELSE \A r \in GetNumber(s) : r.type \in {"number_float", "null"}
  BY <1>1, <1>3 DEF Exact
<1> HIDE DEF n, v, max
<1> QED
  BY <1>4, <1>5, <1>6

\* The text of such a token has it.
LEMMA GoodShape ==
    ASSUME NEW d \in Seq(Byte), NEW from, NEW to, Good(d, from, to)
    PROVE  \E t : Shape(SubSeq(d, from + 1, to), t)
<1> DEFINE a == After(d, from)  s == SubSeq(d, from + 1, to)  n == to - from  k == Len(d)
<1>0. from \in Nat /\ to \in Nat /\ a \in Nat /\ from <= a /\ a < to /\ to <= k /\ k \in Nat /\ n \in Nat /\ n >= 1
      /\ a = (IF d[from + 1] = 45 THEN from + 1 ELSE from)
  BY DEF Good, After
<1>1. s \in Seq(Byte) /\ Len(s) = n /\ \A i \in 1..n : s[i] = d[from + i]
  <2>1. \A i \in (from + 1)..to : i \in 1..k /\ d[i] \in Byte
    BY <1>0
  <2> HIDE DEF n, k, a
  <2>2. from + 1 \in Int /\ to \in Int /\ \A i \in (from + 1)..to : d[i] \in Byte
    BY <1>0, <2>1
  <2>3. /\ s \in Seq(Byte) /\ Len(s) = (IF from + 1 <= to THEN to - (from + 1) + 1 ELSE 0)
        /\ \A i \in 1..(to - (from + 1) + 1) : s[i] = d[(from + 1) + i - 1]
    BY <2>2, SubSeqProperties
  <2> HIDE DEF s
  <2>4. to - (from + 1) + 1 = n /\ from + 1 <= to
    BY <1>0 DEF n
  <2>5. \A i \in 1..n : (from + 1) + i - 1 = from + i
    BY <1>0
  <2> QED
    BY <2>3, <2>4, <2>5
<1>2. d[a + 1] = 48 /\ (\A i \in (a + 1)..to : d[i] \in Digit) => to = a + 1
  BY DEF Good
<1> HIDE DEF a, s, n, k
<1>3. s[1] = d[from + 1]
  <2>1. 1 \in 1..n
    BY <1>0
  <2> QED
    BY <1>1, <2>1
<1>4. CASE s[1] = 45
  <2> DEFINE t == Tail(s)
  <2>1. a = from + 1 /\ n >= 2
    BY <1>0, <1>3, <1>4 DEF n
  <2>2. t \in Seq(Byte) /\ Len(t) = n - 1 /\ \A i \in 1..(n - 1) : t[i] = s[i + 1]
    BY <1>0, <1>1, <2>1
  <2> HIDE DEF t
  <2>3. \A i \in 1..(n - 1) : i + 1 \in 1..n /\ from + (i + 1) = a + i
    BY <1>0, <2>1
  <2>4. \A i \in 1..(n - 1) : t[i] = d[a + i]
    BY <1>1, <2>2, <2>3
  <2>5. AllDigits(t, n - 1) => \A i \in (a + 1)..to : d[i] \in Digit
    <3> SUFFICES ASSUME AllDigits(t, n - 1), NEW i \in (a + 1)..to PROVE d[i] \in Digit
      OBVIOUS
    <3>1. i - a \in 1..(n - 1) /\ a + (i - a) = i
      BY <1>0, <2>1 DEF n
    <3> QED
      BY <2>4, <3>1 DEF AllDigits
  <2>6. t[1] = d[a + 1] /\ (to = a + 1 => n - 1 = 1)
    BY <1>0, <2>1, <2>4 DEF n
  <2>7. s # <<>> /\ t # <<>> /\ Len(t) \in Nat
    BY <1>0, <1>1, <2>1, <2>2
  <2>8. AllDigits(t, n - 1) /\ t[1] = 48 => n - 1 = 1
    BY <1>2, <2>5, <2>6
  <2>9. Shape(s, t)
    BY <1>4, <2>2, <2>7, <2>8 DEF Shape, t
  <2> QED
    BY <2>9 DEF s
<1>5. CASE s[1] # 45
  <2>1. a = from
    BY <1>0, <1>3, <1>5
  <2>5. AllDigits(s, n) => \A i \in (a + 1)..to : d[i] \in Digit
    <3> SUFFICES ASSUME AllDigits(s, n), NEW i \in (a + 1)..to PROVE d[i] \in Digit
      OBVIOUS
    <3>1. i - from \in 1..n /\ from + (i - from) = i
      BY <1>0, <2>1 DEF n
    <3> QED
      BY <1>1, <3>1 DEF AllDigits
  <2>6. to = a + 1 => n = 1
    BY <1>0, <2>1 DEF n
  <2>7. s # <<>> /\ Len(s) \in Nat
    BY <1>0, <1>1
  <2>8. Shape(s, s)
    BY <1>1, <1>2, <1>3, <1>5, <2>1, <2>5, <2>6, <2>7 DEF Shape
  <2> QED
    BY <2>8 DEF s
<1> QED
  BY <1>4, <1>5

\* At the labels of a number: where the cursor is in it.
AtNumber(l, d, from, at) ==
    /\ l = "L12" => d[from + 1] = 45 /\ at = from
    /\ l = "L13" => at = After(d, from) /\ d[at + 1] = 48
    /\ l = "L15" => d[After(d, from) + 1] \in 49..57 /\ at >= After(d, from)
    /\ l \in InExponent => at > After(d, from) /\ \E i \in (After(d, from) + 1)..(at + 1) : d[i] \notin Digit
    /\ l = "L14" => Good(d, from, at)

\* What scan returns.
Returned == [type : {Ends[l] : l \in Ending}, from : Nat, to : Nat]

\* What scan has found and is about to find as a number is one like that; the
\* marker too, wherever scan may go back to it and accept.
NumInv ==
    /\ LexInv
    /\ start \in Nat /\ (label \in Moving => start <= cursor)
    /\ yyaccept \in {0, 1}
    /\ label \notin {"scan", "done"} => AtNumber(label, data, start, cursor) /\ (yyaccept = 1 => Good(data, start, marker))
    /\ tokens \in Seq(Returned)
    /\ \A k \in DOMAIN tokens : tokens[k].type = "value_number" => Good(data, tokens[k].from, tokens[k].to)

\* Where a byte leads in a number, and from where.
Follows(l, b, to) ==
    /\ to # "L12"
    /\ to = "L13" => l = "L12" /\ b = 48
    /\ to = "L15" => (l = "L12" /\ b \in 49..57) \/ l = "L15"
    /\ to \in InExponent => (l \in {"L13", "L15"} /\ b \notin Digit) \/ l \in InExponent
    /\ to = "L14" => l \in {"L13", "L15"} \cup InExponent

\* A byte that no edge is for leads so.
LEMMA OtherFollows == ASSUME NEW l \in Moving, NEW b PROVE Follows(l, b, Otherwise(l))
BY DEF Follows, Otherwise, Moving, Between, Continuing, HexDigits, InInteger, InExponent,
     InLiteral

\* The edges of scan lead so.
LEMMA EdgeFollows ==
    ASSUME NEW l \in Moving, NEW b, NEW e \in Edges[l], b \in e.bytes
    PROVE  Follows(l, b, e.to)
<1>1. CASE l \in Between
  <2>1. CASE l = "L6"
    BY <2>1, EdgesAre, EdgeIs DEF Follows, InExponent
  <2>2. CASE l \in {"L9", "L30"}
    <3>1. e \in StringBody
      BY <2>2, EdgesAre
    <3>2. e.to \in {"L30", "L33", "L35", "L36", "L37", "L38", "L39", "L40", "L41", "L42"}
      BY <3>1, EdgeIs DEF StringBody
    <3> QED
      BY <3>2 DEF Follows, InExponent
  <2>3. CASE l = "L35"
    <3>1. e.to \in {"L30", "L48"}
      BY <2>3, EdgesAre, EdgeIs DEF Escape
    <3> QED
      BY <3>1 DEF Follows, InExponent
  <2> QED
    BY <1>1, <2>1, <2>2, <2>3 DEF Between
<1>2. CASE l \in Continuing
  <2>1. e.to \in {"L30", "L36", "L38"}
    BY <1>2, EdgesAre, EdgeIs DEF Continuation, Continuing
  <2> QED
    BY <2>1 DEF Follows, InExponent
<1>3. CASE l \in HexDigits
  <2>1. e.to \in {"L30", "L57", "L63", "L66"}
    BY <1>3, EdgesAre, EdgeIs DEF Hex, HexDigits
  <2> QED
    BY <2>1 DEF Follows, InExponent
<1>4. CASE l \in InInteger
  BY <1>4, EdgesAre, EdgeIs DEF Integer, Digit, InInteger, InExponent, Follows
<1>5. CASE l \in InExponent
  BY <1>5, EdgesAre, EdgeIs DEF Exponent, InExponent, Follows
<1>6. CASE l \in InLiteral
  BY <1>6, EdgesAre, EdgeIs DEF Literal, InLiteral, Follows, InExponent
<1> QED
  BY <1>1, <1>2, <1>3, <1>4, <1>5, <1>6 DEF Moving

\* Where the first byte of a token leads.
Opens(b, to) ==
    /\ to = "L12" => b = 45
    /\ to = "L13" => b = 48
    /\ to = "L15" => b \in 49..57
    /\ to \notin InExponent \cup {"L14"}

\* The first byte of a token leads so.
LEMMA StartOpens ==
    ASSUME NEW e \in Dispatch, NEW b, b \in e.bytes
    PROVE  Opens(b, e.to)
BY EdgeIs DEF Dispatch, InExponent, Opens

\* Any byte leads so, from any label.
LEMMA MoveFollows ==
    ASSUME NEW l \in Moving, NEW b
    PROVE  Follows(l, b, Goto(Edges[l], b, Otherwise(l)))
BY GotoIs, OtherFollows, EdgeFollows

\* Any first byte does.
LEMMA ScanOpens == ASSUME NEW b PROVE Opens(b, Goto(Dispatch, b, "L4"))
<1>1. Opens(b, "L4")
  BY DEF Opens, InExponent
<1> QED
  BY <1>1, GotoIs, StartOpens

\* What was read stays what it was.
LEMMA GoodStays ==
    ASSUME NEW d \in Seq(Byte), NEW e \in Seq(Byte), Longer(d, e), NEW from, NEW to, Good(d, from, to)
    PROVE  Good(e, from, to)
<1> DEFINE a == After(d, from)  k == Len(d)
<1>0. from \in Nat /\ to \in Nat /\ a \in {from, from + 1} /\ a < to /\ to <= k /\ k \in Nat /\ k <= Len(e)
      /\ (\A i \in 1..k : e[i] = d[i]) /\ Len(e) \in Nat
  BY DEF Good, After, Longer
<1>1. d[a + 1] = 48 /\ (\A i \in (a + 1)..to : d[i] \in Digit) => to = a + 1
  BY DEF Good
<1>a. a = After(d, from)
  OBVIOUS
<1> HIDE DEF k, a
<1>2. from + 1 \in 1..k /\ a + 1 \in 1..k /\ \A i \in (a + 1)..to : i \in 1..k
  BY <1>0
<1>3. After(e, from) = a
  BY <1>0, <1>2, <1>a DEF After
<1>4. e[a + 1] = d[a + 1] /\ \A i \in (a + 1)..to : e[i] = d[i]
  BY <1>0, <1>2
<1>5. a < to /\ to <= Len(e)
  BY <1>0
<1> QED
  BY <1>0, <1>1, <1>3, <1>4, <1>5 DEF Good

\* These labels of scan read no byte.
LEMMA NoMove == {"scan", "done", "L5", "L14"} \cap Moving = {}
BY DEF Moving, Between, Continuing, HexDigits, InInteger, InExponent, InLiteral

\* At the beginning nothing was found.
LEMMA NumStarts == Init => NumInv
<1> SUFFICES ASSUME Init PROVE NumInv
  OBVIOUS
<1>1. LexInv
  BY LexStarts
<1>2. label = "scan" /\ start = 0 /\ yyaccept = 0 /\ tokens = <<>>
  BY DEF Init
<1> QED
  BY <1>1, <1>2, NoMove DEF NumInv

\* The numbers found so far stay what they were while the buffer grows.
FoundGood(ts, d) == \A k \in DOMAIN ts : ts[k].type = "value_number" => Good(d, ts[k].from, ts[k].to)

\* They do.
LEMMA FoundStays ==
    ASSUME NEW d \in Seq(Byte), NEW e \in Seq(Byte), Longer(d, e), NEW ts, FoundGood(ts, d)
    PROVE  FoundGood(ts, e)
BY GoodStays DEF FoundGood

\* scan begins a token, which may be a number.
LEMMA NumScan == ASSUME NumInv, Scan PROVE NumInv'
<1> DEFINE b == data'[cursor + 1]
<1>1. LexInv' /\ Longer(data, data') /\ LexInv
  BY ScanStep DEF NumInv
<1>2. /\ start' = cursor /\ cursor' = cursor /\ yyaccept' = 0 /\ tokens' = tokens
      /\ label' = IF cursor < Len(data') THEN Goto(Dispatch, b, "L4") ELSE "outside"
  BY DEF Scan, Read
<1>3. data \in Seq(Byte) /\ data' \in Seq(Byte) /\ cursor \in Nat /\ label' \in Labels
  BY <1>1 DEF LexInv, BufferOK
<1>4. label' = Goto(Dispatch, b, "L4")
  BY <1>2, <1>3 DEF Labels, Moving, Between, Continuing, HexDigits, InInteger, InExponent,
       InLiteral, Ending
<1>5. Opens(b, label')
  BY <1>4, ScanOpens
<1>6. AtNumber(label', data', cursor, cursor)
  BY <1>3, <1>5 DEF AtNumber, Opens, After, b
<1>7. FoundGood(tokens, data')
  <2>1. FoundGood(tokens, data)
    BY DEF NumInv, FoundGood
  <2> QED
    BY <1>1, <1>3, <2>1, FoundStays
<1> QED
  BY <1>1, <1>2, <1>3, <1>6, <1>7 DEF NumInv, FoundGood

\* What the automaton accepts with its next byte.
LEMMA GoodHere ==
    ASSUME NEW l \in {"L13", "L15"} \cup InExponent, NEW d \in Seq(Byte), NEW from \in Nat, NEW at \in Nat, from <= at,
           at + 1 < Len(d), AtNumber(l, d, from, at)
    PROVE  Good(d, from, at + 1)
<1> DEFINE a == After(d, from)  c == at + 1
<1>0. a \in Nat /\ c \in Nat /\ c + 1 = at + 2 /\ from + 1 \in Nat /\ a <= from + 1 /\ from <= a /\ Len(d) \in Nat
  BY DEF After
<1>a. a = After(d, from)
  OBVIOUS
<1>1. at >= a
  BY <1>0 DEF AtNumber
<1>2. d[a + 1] = 48 /\ (\A i \in (a + 1)..c : d[i] \in Digit) => c = a + 1
  <2>1. CASE l = "L13"
    BY <1>0, <2>1 DEF AtNumber
  <2>2. CASE l = "L15"
    <3>1. d[a + 1] \in 49..57
      BY <2>2 DEF AtNumber
    <3> QED
      BY <3>1
  <2>3. CASE l \in InExponent
    BY <1>0, <2>3 DEF AtNumber
  <2> QED
    BY <2>1, <2>2, <2>3
<1> HIDE DEF a
<1>3. from \in Nat /\ c \in Nat /\ a < c /\ c <= Len(d)
  BY <1>0, <1>1
<1> QED
  BY <1>a, <1>2, <1>3 DEF Good

\* One byte more of a number.
LEMMA AtMoves ==
    ASSUME NEW l \in Moving, NEW to, NEW d \in Seq(Byte), NEW from \in Nat, NEW at \in Nat, from <= at,
           at + 1 < Len(d), AtNumber(l, d, from, at), Follows(l, d[at + 2], to)
    PROVE  AtNumber(to, d, from, at + 1)
<1> DEFINE a == After(d, from)  c == at + 1  b == d[at + 2]
<1>0. a \in Nat /\ c \in Nat /\ c + 1 = at + 2 /\ from + 1 \in Nat /\ a <= from + 1 /\ from <= a /\ Len(d) \in Nat
  BY DEF After
<1>a. a = After(d, from)
  OBVIOUS
<1>1. to # "L12"
  BY DEF Follows
<1>2. to = "L13" => c = a /\ d[c + 1] = 48
  <2> SUFFICES ASSUME to = "L13" PROVE c = a /\ d[c + 1] = 48
    OBVIOUS
  <2>1. l = "L12" /\ b = 48
    BY DEF Follows
  <2>2. d[from + 1] = 45 /\ at = from
    BY <2>1 DEF AtNumber
  <2> QED
    BY <1>0, <2>1, <2>2 DEF After
<1>3. to = "L15" => d[a + 1] \in 49..57 /\ c >= a
  <2> SUFFICES ASSUME to = "L15" PROVE d[a + 1] \in 49..57 /\ c >= a
    OBVIOUS
  <2>1. (l = "L12" /\ b \in 49..57) \/ l = "L15"
    BY DEF Follows
  <2>2. CASE l = "L12" /\ b \in 49..57
    <3>1. d[from + 1] = 45 /\ at = from
      BY <2>2 DEF AtNumber
    <3>2. a = at + 1
      BY <3>1 DEF After
    <3> QED
      BY <1>0, <2>2, <3>2
  <2>3. CASE l = "L15"
    <3>1. d[a + 1] \in 49..57 /\ at >= a
      BY <2>3 DEF AtNumber
    <3> HIDE DEF a
    <3> QED
      BY <1>0, <3>1
  <2> QED
    BY <2>1, <2>2, <2>3
<1>4. to \in InExponent => c > a /\ \E i \in (a + 1)..(c + 1) : d[i] \notin Digit
  <2> SUFFICES ASSUME to \in InExponent PROVE c > a /\ \E i \in (a + 1)..(c + 1) : d[i] \notin Digit
    OBVIOUS
  <2>1. (l \in {"L13", "L15"} /\ b \notin Digit) \/ l \in InExponent
    BY DEF Follows
  <2>2. CASE l \in {"L13", "L15"} /\ b \notin Digit
    <3>1. at >= a
      BY <1>0, <2>2 DEF AtNumber
    <3> HIDE DEF a
    <3>2. c + 1 \in (a + 1)..(c + 1) /\ c > a /\ d[c + 1] \notin Digit
      BY <1>0, <2>2, <3>1
    <3> QED
      BY <3>2
  <2>3. CASE l \in InExponent
    <3>1. at > a /\ \E i \in (a + 1)..(at + 1) : d[i] \notin Digit
      BY <2>3 DEF AtNumber
    <3> HIDE DEF a
    <3>2. PICK i \in (a + 1)..(at + 1) : d[i] \notin Digit
      BY <3>1
    <3>3. i \in (a + 1)..(c + 1) /\ c > a
      BY <1>0, <3>1, <3>2
    <3> QED
      BY <3>2, <3>3
  <2> QED
    BY <2>1, <2>2, <2>3
<1>5. l \in {"L13", "L15"} \cup InExponent => Good(d, from, c)
  BY GoodHere
<1>6. to = "L14" => Good(d, from, c)
  BY <1>5 DEF Follows
<1> QED
  BY <1>1, <1>2, <1>3, <1>4, <1>6 DEF AtNumber

\* Nor does what is known of the number on the way change while the buffer grows.
LEMMA AtStays ==
    ASSUME NEW l, NEW d \in Seq(Byte), NEW e \in Seq(Byte), Longer(d, e), NEW from \in Nat, NEW at \in Nat,
           from <= at, at < Len(d), l # "L14", AtNumber(l, d, from, at)
    PROVE  AtNumber(l, e, from, at)
<1> DEFINE a == After(d, from)  k == Len(d)
<1>0. a \in {from, from + 1} /\ k \in Nat /\ k <= Len(e) /\ (\A i \in 1..k : e[i] = d[i]) /\ from < k /\ Len(e) \in Nat
  BY DEF After, Longer
<1>a. a = After(d, from)
  OBVIOUS
<1> HIDE DEF k
<1>1. from + 1 \in 1..k /\ e[from + 1] = d[from + 1]
  BY <1>0
<1>2. After(e, from) = a
  BY <1>1 DEF After
<1> HIDE DEF a
<1>3. l = "L12" => e[from + 1] = 45 /\ at = from
  BY <1>1 DEF AtNumber
<1>4. l = "L13" => at = a /\ e[at + 1] = 48
  <2>1. at + 1 \in 1..k
    BY DEF k
  <2> QED
    BY <1>0, <1>a, <2>1 DEF AtNumber
<1>5. l = "L15" => e[a + 1] \in 49..57 /\ at >= a
  <2> SUFFICES ASSUME l = "L15" PROVE e[a + 1] \in 49..57 /\ at >= a
    OBVIOUS
  <2>1. d[a + 1] \in 49..57 /\ at >= a
    BY <1>a DEF AtNumber
  <2>2. a + 1 \in 1..k
    BY <1>0, <2>1 DEF k
  <2> QED
    BY <1>0, <2>1, <2>2
<1>6. l \in InExponent => at > a /\ \E i \in (a + 1)..(at + 1) : e[i] \notin Digit
  <2> SUFFICES ASSUME l \in InExponent PROVE at > a /\ \E i \in (a + 1)..(at + 1) : e[i] \notin Digit
    OBVIOUS
  <2>1. at > a /\ \E i \in (a + 1)..(at + 1) : d[i] \notin Digit
    BY <1>a DEF AtNumber
  <2>2. PICK i \in (a + 1)..(at + 1) : d[i] \notin Digit
    BY <2>1
  <2>3. i \in 1..k
    BY <1>0, <2>2 DEF k
  <2> QED
    BY <1>0, <2>1, <2>2, <2>3
<1> QED
  BY <1>2, <1>3, <1>4, <1>5, <1>6 DEF AtNumber

\* scan goes on by one byte, in a number or in another token.
LEMMA NumMove == ASSUME NumInv, Move PROVE NumInv'
<1> DEFINE c == cursor + 1  b == data'[c + 1]
<1>1. LexInv' /\ Longer(data, data') /\ LexInv
  BY MoveStep DEF NumInv
<1>2. /\ label \in Moving /\ label \notin {"scan", "done", "L14"}
      /\ start' = start /\ cursor' = c /\ tokens' = tokens
      /\ label' = IF c < Len(data') THEN Goto(Edges[label], b, Otherwise(label)) ELSE "outside"
  <2>1. label \in Moving /\ cursor' = c
    BY EdgesAre DEF Move
  <2> QED
    BY <2>1 DEF Move, Read, Moving, Between, Continuing, HexDigits, InInteger,
         InExponent, InLiteral
<1>3. /\ data \in Seq(Byte) /\ data' \in Seq(Byte) /\ cursor \in Nat /\ cursor < Len(data) /\ label' \in Labels
      /\ c \in 0..Len(data')
  BY <1>1, <1>2 DEF LexInv, BufferOK
<1>4. c < Len(data') /\ label' = Goto(Edges[label], b, Otherwise(label))
  BY <1>2, <1>3 DEF Labels, Moving, Between, Continuing, HexDigits, InInteger, InExponent,
       InLiteral, Ending
<1>5. Follows(label, b, label')
  BY <1>2, <1>4, MoveFollows
<1>6. start \in Nat /\ start <= cursor /\ AtNumber(label, data, start, cursor) /\ (yyaccept = 1 => Good(data, start, marker))
      /\ yyaccept \in {0, 1}
  BY <1>2 DEF NumInv
<1>7. AtNumber(label, data', start, cursor)
  BY <1>1, <1>2, <1>3, <1>6, AtStays
<1>8. cursor + 2 = c + 1
  BY <1>3
<1>9. AtNumber(label', data', start, c)
  BY <1>2, <1>3, <1>4, <1>5, <1>6, <1>7, <1>8, AtMoves
<1>10. yyaccept' \in {0, 1} /\ (yyaccept' = 1 => Good(data', start, marker'))
  <2>1. CASE label \in DOMAIN Marks
    <3>1. marker' = c /\ yyaccept' = Marks[label]
      BY <1>2, <2>1 DEF Move
    <3>2. yyaccept' \in {0, 1} /\ (yyaccept' = 1 => label \in {"L13", "L15"} \cup InExponent)
      BY <2>1, <3>1 DEF Marks, InExponent
    <3>3. label \in {"L13", "L15"} \cup InExponent => Good(data', start, c)
      BY <1>3, <1>4, <1>6, <1>7, GoodHere
    <3> QED
      BY <3>1, <3>2, <3>3
  <2>2. CASE label \notin DOMAIN Marks
    <3>1. marker' = marker /\ yyaccept' = yyaccept
      BY <2>2 DEF Move
    <3> QED
      BY <1>1, <1>3, <1>6, <3>1, GoodStays
  <2> QED
    BY <2>1, <2>2
<1>11. FoundGood(tokens, data')
  <2>1. FoundGood(tokens, data)
    BY DEF NumInv, FoundGood
  <2> QED
    BY <1>1, <1>3, <2>1, FoundStays
<1>12. start <= c
  BY <1>3, <1>6
<1> HIDE DEF c, b
<1>13. tokens \in Seq(Returned)
  BY DEF NumInv
<1> QED
  BY <1>1, <1>2, <1>6, <1>9, <1>10, <1>11, <1>12, <1>13 DEF NumInv, FoundGood

\* scan returns a token: a number ends where its label has found it to be one.
LEMMA NumReturn == ASSUME NumInv, Return PROVE NumInv'
<1> DEFINE t == [type |-> Ends[label], from |-> start, to |-> cursor']
           S == Returned
<1>1. LexInv /\ LexInv'
  BY LexSteps DEF NumInv, Next
<1>2. /\ label \in Ending /\ label \notin {"scan", "done"} /\ label' \in {"scan", "done"}
      /\ data' = data /\ start' = start /\ yyaccept' = yyaccept /\ tokens' = Append(tokens, t)
      /\ cursor' = IF label \in {"L5", "L14"} THEN cursor ELSE cursor + 1
  BY EndsAre DEF Return, Ending
<1>3. Ends[label] \in {Ends[l] : l \in Ending} /\ (Ends[label] = "value_number" <=> label = "L14")
  <2>3. Ends["L14"] = "value_number" /\ \A l \in Ending \ {"L14"} : Ends[l] # "value_number"
    BY DEF Ends, Ending
  <2> QED
    BY <1>2, <2>3
<1>4. cursor \in Nat /\ cursor' \in Nat /\ start \in Nat /\ tokens \in Seq(S)
  BY <1>1, <1>2 DEF LexInv, BufferOK, NumInv
<1>5. t.type = "value_number" => Good(data, t.from, t.to)
  BY <1>2, <1>3 DEF NumInv, AtNumber
<1>6. t \in S
  BY <1>3, <1>4 DEF Returned
<1>7. FoundGood(tokens, data)
  BY DEF NumInv, FoundGood
<1> HIDE DEF t, S
<1>8. Append(tokens, t) \in Seq(S) /\ FoundGood(Append(tokens, t), data)
  BY <1>4, <1>5, <1>6, <1>7 DEF FoundGood
<1>9. yyaccept \in {0, 1}
  BY DEF NumInv
<1> QED
  BY <1>1, <1>2, <1>4, <1>8, <1>9, NoMove DEF NumInv, FoundGood, S

\* Every step of scan keeps that.
LEMMA NumSteps == NumInv /\ [Next]_(vars) => NumInv'
<1> SUFFICES ASSUME NumInv, [Next]_(vars) PROVE NumInv'
  OBVIOUS
<1>1. LexInv'
  BY LexSteps DEF NumInv
<1>2. CASE Back
  <2>1. /\ label = "L32" /\ data' = data /\ start' = start /\ yyaccept' = yyaccept /\ marker' = marker
        /\ tokens' = tokens /\ cursor' = marker
        /\ label' = IF yyaccept = 0 THEN "L5" ELSE "L14"
    BY <1>2 DEF Back
  <2>2. yyaccept \in {0, 1} /\ (yyaccept = 1 => Good(data, start, marker))
    BY <2>1 DEF NumInv
  <2>3. AtNumber(label', data', start', cursor') /\ label' \notin Moving
    BY <2>1, <2>2, NoMove DEF AtNumber, InExponent
  <2> QED
    BY <1>1, <2>1, <2>2, <2>3 DEF NumInv
<1>3. CASE UNCHANGED vars
  BY <1>1, <1>3 DEF vars, NumInv
<1> QED
  BY <1>2, <1>3, NumScan, NumMove, NumReturn DEF Next

\* get_number keeps an integer exactly when its type can hold it, the smallest one
\* included, and makes a float of every other number that scan returns, for texts
\* of any length and types of any width: nothing overflows and no digit is lost.
THEOREM NumbersAreExact == Spec => []NumberExact
<1>1. NumInv => NumberExact
  <2> SUFFICES ASSUME NumInv, NEW s \in Found("value_number") PROVE Exact(s)
    BY DEF NumberExact, Exact
  <2>1. PICK k \in DOMAIN tokens : tokens[k].type = "value_number" /\ s = GetTokenString(tokens[k])
    BY DEF Found
  <2>2. Good(data, tokens[k].from, tokens[k].to) /\ data \in Seq(Byte)
    BY <2>1 DEF NumInv, LexInv, BufferOK
  <2>3. s = SubSeq(data, tokens[k].from + 1, tokens[k].to)
    BY <2>1 DEF GetTokenString
  <2>4. PICK d : Shape(s, d)
    BY <2>2, <2>3, GoodShape
  <2>5. MaxInteger \in Nat /\ MaxUnsigned \in Nat
    BY LexerAssumption DEF TextsAndLimits
  <2> QED
    BY <2>4, <2>5, ShapeExact
<1> QED
  BY <1>1, NumStarts, NumSteps, PTL DEF Spec


-----------------------------------------------------------------------------
(* The grammar, byte by byte: the positions of a token that say what it is. *)

\* What may follow 10xxxxxx's lead bytes E0 to EF and F0 to F4.
Tail8 == 128..191
Lead3(a, b) == (a = 224 /\ b \in 160..191) \/ (a \in 225..239 \ {237} /\ b \in Tail8) \/ (a = 237 /\ b \in 128..159)
Lead4(a, b) == (a = 240 /\ b \in 144..191) \/ (a \in 241..243 /\ b \in Tail8) \/ (a = 244 /\ b \in 128..143)
Simple == {Quote, 47, Backslash, 98, 102, 110, 114, 116}

\* A character of UTF-8 behind position m and up to e, byte by byte.
CharAt(s, m, e) ==
    \/ e = m + 1 /\ s[m + 1] \in 0..127
    \/ e = m + 2 /\ s[m + 1] \in 194..223 /\ s[m + 2] \in Tail8
    \/ e = m + 3 /\ Lead3(s[m + 1], s[m + 2]) /\ s[m + 3] \in Tail8
    \/ e = m + 4 /\ Lead4(s[m + 1], s[m + 2]) /\ s[m + 3] \in Tail8 /\ s[m + 4] \in Tail8

\* A unit of a string behind position m and up to e, byte by byte.
UnitAt(s, m, e) ==
    \/ CharAt(s, m, e) /\ s[m + 1] >= 32 /\ s[m + 1] \notin {Quote, Backslash}
    \/ e = m + 2 /\ s[m + 1] = Backslash /\ s[m + 2] \in Simple
    \/ e = m + 6 /\ s[m + 1] = Backslash /\ s[m + 2] = 117
       /\ s[m + 3] \in HexDigit /\ s[m + 4] \in HexDigit /\ s[m + 5] \in HexDigit /\ s[m + 6] \in HexDigit

\* B cuts what is behind from + 1, up to m, into units.
Cuts(s, from, m, B) ==
    /\ B \in SUBSET ((from + 1)..m) /\ from + 1 \in B /\ m \in B
    /\ \A b \in B \ {m} : \E e \in B : UnitAt(s, b, e)
StringTo(s, from, to, B) ==
    from + 2 <= to /\ s[from + 1] = Quote /\ s[to] = Quote /\ Cuts(s, from, to - 1, B)

\* The bytes of a number, from its sign on.
DigitsIn(s, from, to) == \A i \in (from + 1)..to : s[i] \in Digit
IntegerTo(s, from, i) ==
    After(s, from) < i /\ DigitsIn(s, After(s, from), i) /\ (s[After(s, from) + 1] = 48 => i = After(s, from) + 1)
FractionTo(s, i, j) == j = i \/ (s[i + 1] = 46 /\ i + 1 < j /\ DigitsIn(s, i + 1, j))
SignEnd(s, j) == IF s[j + 2] \in {43, 45} THEN j + 2 ELSE j + 1
ExponentTo(s, j, to) == to = j \/ (s[j + 1] \in {69, 101} /\ SignEnd(s, j) < to /\ DigitsIn(s, SignEnd(s, j), to))
NumberTo(s, from, to, i, j) == IntegerTo(s, from, i) /\ FractionTo(s, i, j) /\ ExponentTo(s, j, to)

Words == DOMAIN Fixed
WordTo(s, from, to, w) == to <= from + Len(w) /\ \A n \in 1..(to - from) : s[from + n] = w[n]

\* The label of scan behind p bytes of such a token.
NumberLabel(s, from, i, j, p) ==
    IF p <= After(s, from) THEN "L12"
    ELSE IF p <= i THEN IF s[After(s, from) + 1] = 48 THEN "L13" ELSE "L15"
    ELSE IF p <= j THEN IF p = i + 1 THEN "L43" ELSE "L49"
    ELSE IF p = j + 1 THEN "L44" ELSE IF p <= SignEnd(s, j) THEN "L51" ELSE "L52"
WordLabels == [
    begin_array |-> <<"L19">>, end_array |-> <<"L21">>, begin_object |-> <<"L26">>, end_object |-> <<"L28">>,
    name_separator |-> <<"L17">>, value_separator |-> <<"L10">>, end_of_input |-> <<"L2">>,
    literal_true |-> <<"L25", "L47", "L56", "L61">>, literal_false |-> <<"L23", "L45", "L54", "L58", "L64">>,
    literal_null |-> <<"L24", "L46", "L55", "L59">>]

\* In a unit that began behind m.
Partial(l, s, m, p) ==
    \/ l \in {"L9", "L30"} /\ p = m
    \/ l = "L35" /\ p = m + 1 /\ s[p] = Backslash
    \/ /\ l \in HexDigits /\ s[m + 1] = Backslash /\ s[m + 2] = 117
       /\ p = m + (IF l = "L48" THEN 2 ELSE IF l = "L57" THEN 3 ELSE IF l = "L63" THEN 4 ELSE 5)
       /\ \A i \in (m + 3)..p : s[i] \in HexDigit
    \/ l = "L36" /\ \/ p = m + 1 /\ s[m + 1] \in 194..223
                    \/ p = m + 2 /\ Lead3(s[m + 1], s[m + 2])
                    \/ p = m + 3 /\ Lead4(s[m + 1], s[m + 2]) /\ s[m + 3] \in Tail8
    \/ l = "L37" /\ p = m + 1 /\ s[p] = 224
    \/ l = "L38" /\ \/ p = m + 1 /\ s[p] \in 225..239 \ {237}
                    \/ p = m + 2 /\ Lead4(s[m + 1], s[m + 2])
    \/ l = "L39" /\ p = m + 1 /\ s[p] = 237
    \/ l = "L40" /\ p = m + 1 /\ s[p] = 240
    \/ l = "L41" /\ p = m + 1 /\ s[p] \in 241..243
    \/ l = "L42" /\ p = m + 1 /\ s[p] = 244

InString == {"L9", "L30", "L35"} \cup Continuing \cup HexDigits

\* Whichever token the bytes behind "from" are, scan is on its way in it.
OnNumber(l, s, from, p) ==
    \A to \in p..Len(s), i \in Nat, j \in Nat : NumberTo(s, from, to, i, j) => l = NumberLabel(s, from, i, j, p)
OnWord(l, s, from, p) ==
    \A t \in Words : LET to == from + Len(Fixed[t]) IN
        p <= to /\ to <= Len(s) /\ WordTo(s, from, to, Fixed[t]) => l = WordLabels[t][p - from]
OnString(l, s, from, p) ==
    \A to \in p..Len(s) : \A B : StringTo(s, from, to, B) =>
        IF p = to THEN l = "L33"
        ELSE \E m \in B : m <= p /\ Partial(l, s, m, p) /\ (m = to - 1 \/ \E e \in B : p < e /\ UnitAt(s, m, e))
OnWay(l, s, from, p) == OnNumber(l, s, from, p) /\ OnWord(l, s, from, p) /\ OnString(l, s, from, p)

\* What the label says of the bytes that scan has read of the token.
NumberSoFar(l, s, from, p) ==
    /\ l = "L12" => p = from + 1 /\ s[p] = 45
    /\ l = "L13" => p = After(s, from) + 1 /\ s[p] = 48
    /\ l = "L15" => IntegerTo(s, from, p) /\ s[After(s, from) + 1] # 48
    /\ l = "L43" => IntegerTo(s, from, p - 1) /\ s[p] = 46
    /\ l = "L49" => \E i \in Nat : IntegerTo(s, from, i) /\ i < p /\ FractionTo(s, i, p)
    /\ l \in {"L44", "L51", "L52"} => \E i \in Nat, j \in Nat :
          /\ IntegerTo(s, from, i) /\ i <= j /\ FractionTo(s, i, j) /\ s[j + 1] \in {69, 101}
          /\ l = "L44" => p = j + 1
          /\ l = "L51" => p = j + 2 /\ p = SignEnd(s, j)
          /\ l = "L52" => SignEnd(s, j) < p /\ DigitsIn(s, SignEnd(s, j), p)
StringSoFar(l, s, from, p) ==
    /\ l \in InString => s[from + 1] = Quote /\ \E m \in Nat : \E B : Cuts(s, from, m, B) /\ Partial(l, s, m, p)
    /\ l = "L33" => \E B : StringTo(s, from, p, B)
WordSoFar(l, s, from, p) ==
    \A t \in Words : \A n \in 1..Len(Fixed[t]) :
        l = WordLabels[t][n] => p = from + n /\ WordTo(s, from, p, Fixed[t])
SoFar(l, s, from, p) == NumberSoFar(l, s, from, p) /\ StringSoFar(l, s, from, p) /\ WordSoFar(l, s, from, p)

\* A slice of a text.
LEMMA SliceIs ==
    ASSUME NEW s \in Seq(Byte), NEW m \in Nat, NEW e \in Nat, m <= e, e <= Len(s)
    PROVE  LET u == SubSeq(s, m + 1, e) IN
           u \in Seq(Byte) /\ Len(u) = e - m /\ \A n \in 1..(e - m) : u[n] = s[m + n] /\ s[m + n] \in Byte
<1> DEFINE u == SubSeq(s, m + 1, e)
<1>1. \A i \in (m + 1)..e : i \in 1..Len(s) /\ s[i] \in Byte
  OBVIOUS
<1>2. m + 1 \in Int /\ e \in Int /\ \A i \in (m + 1)..e : s[i] \in Byte
  BY <1>1
<1>3. /\ u \in Seq(Byte) /\ Len(u) = (IF m + 1 <= e THEN e - (m + 1) + 1 ELSE 0)
      /\ \A i \in 1..(e - (m + 1) + 1) : u[i] = s[(m + 1) + i - 1]
  BY <1>2, SubSeqProperties
<1> HIDE DEF u
<1>4. e - (m + 1) + 1 = e - m /\ (~(m + 1 <= e) => e - m = 0)
  OBVIOUS
<1>5. \A n \in 1..(e - m) : (m + 1) + n - 1 = m + n /\ m + n \in (m + 1)..e
  OBVIOUS
<1> QED
  BY <1>1, <1>3, <1>4, <1>5 DEF u

\* The first lead byte and the least code point of a number of bytes.
LEMMA LeadIs ==
    /\ Lead(1) = 0 /\ Lead(2) = 192 /\ Lead(3) = 224 /\ Lead(4) = 240
    /\ Least(1) = 0 /\ Least(2) = 128 /\ Least(3) = 2048 /\ Least(4) = 65536
BY SMT DEF Lead, Least

\* The code point of a character, byte after byte.
LEMMA PointIs ==
    ASSUME NEW c \in Seq(Byte), Len(c) \in 1..4
    PROVE  /\ Len(c) = 1 => Point(c) = c[1] - 0
           /\ Len(c) = 2 => Point(c) = 64 * (c[1] - 192) + (c[2] - 128)
           /\ Len(c) = 3 => Point(c) = 64 * (64 * (c[1] - 224) + (c[2] - 128)) + (c[3] - 128)
           /\ Len(c) = 4 => Point(c) = 64 * (64 * (64 * (c[1] - 240) + (c[2] - 128)) + (c[3] - 128)) + (c[4] - 128)
<1> DEFINE n == Len(c)
           p1 == c[1] - Lead(Len(c))  p2 == 64 * p1 + (c[2] - 128)
           p3 == 64 * p2 + (c[3] - 128)  p4 == 64 * p3 + (c[4] - 128)
           P(f) == f = [i \in 1..n |-> IF i = 1 THEN p1 ELSE 64 * f[i - 1] + (c[i] - 128)]
           g == [i \in 1..n |-> IF i = 1 THEN p1 ELSE IF i = 2 THEN p2 ELSE IF i = 3 THEN p3 ELSE p4]
           f == CHOOSE h : P(h)
<1>0. /\ p2 = 64 * p1 + (c[2] - 128) /\ p3 = 64 * p2 + (c[3] - 128) /\ p4 = 64 * p3 + (c[4] - 128)
  OBVIOUS
<1>a. Point(c) = f[n]
  BY DEF Point
<1> HIDE DEF p1, p2, p3, p4, n
<1>6. n \in 1..4
  BY DEF n
<1>1. ASSUME NEW i \in 1..n PROVE g[i] = IF i = 1 THEN p1 ELSE 64 * g[i - 1] + (c[i] - 128)
  <2>1. CASE i = 1
    BY <2>1
  <2>2. CASE i = 2
    <3>1. g[i] = p2 /\ g[i - 1] = p1
      BY <1>6, <2>2
    <3> HIDE DEF g
    <3> QED
      BY <1>0, <2>2, <3>1
  <2>3. CASE i = 3
    <3>1. g[i] = p3 /\ g[i - 1] = p2
      BY <1>6, <2>3
    <3> HIDE DEF g
    <3> QED
      BY <1>0, <2>3, <3>1
  <2>4. CASE i = 4
    <3>1. g[i] = p4 /\ g[i - 1] = p3
      BY <1>6, <2>4
    <3> HIDE DEF g
    <3> QED
      BY <1>0, <2>4, <3>1
  <2> QED
    BY <1>6, <2>1, <2>2, <2>3, <2>4
<1>2. g = [i \in 1..n |-> g[i]]
  OBVIOUS
<1> HIDE DEF g
<1>3. P(g)
  BY <1>1, <1>2
<1>4. P(f)
  BY <1>3
<1> HIDE DEF f
<1>7. f[1] = p1
  BY <1>4, <1>6
<1>8. n >= 2 => f[2] = p2
  BY <1>0, <1>4, <1>6, <1>7
<1>9. n >= 3 => f[3] = p3
  BY <1>0, <1>4, <1>6, <1>8
<1>10. n >= 4 => f[4] = p4
  BY <1>0, <1>4, <1>6, <1>9
<1>11. /\ n = 1 => Point(c) = p1
       /\ n = 2 => Point(c) = p2
       /\ n = 3 => Point(c) = p3
       /\ n = 4 => Point(c) = p4
  BY <1>a, <1>6, <1>7, <1>8, <1>9, <1>10
<1>12. p1 = c[1] - Lead(n)
  BY DEF n, p1
<1>13. CASE n = 1
  BY <1>11, <1>12, <1>13, LeadIs DEF n
<1>14. CASE n = 2
  <2>1. Point(c) = 64 * (c[1] - 192) + (c[2] - 128)
    BY <1>0, <1>11, <1>12, <1>14, LeadIs
  <2> QED
    BY <1>14, <2>1 DEF n
<1>15. CASE n = 3
  <2>1. Point(c) = 64 * (64 * (c[1] - 224) + (c[2] - 128)) + (c[3] - 128)
    BY <1>0, <1>11, <1>12, <1>15, LeadIs
  <2> QED
    BY <1>15, <2>1 DEF n
<1>16. CASE n = 4
  <2>1. Point(c) = 64 * (64 * (64 * (c[1] - 240) + (c[2] - 128)) + (c[3] - 128)) + (c[4] - 128)
    BY <1>0, <1>11, <1>12, <1>16, LeadIs
  <2> QED
    BY <1>16, <2>1 DEF n
<1> QED
  BY <1>6, <1>13, <1>14, <1>15, <1>16 DEF n

\* What a code point must be that was written with some bytes.
Scalar(p, least) == p >= least /\ p <= 1114111 /\ p \notin HighSurrogate /\ p \notin LowSurrogate

\* A character of n bytes, by the value of its code point and by its bytes.
PointSums(u, n) ==
    /\ n = 1 => Point(u) = u[1] - 0
    /\ n = 2 => Point(u) = 64 * (u[1] - 192) + (u[2] - 128)
    /\ n = 3 => Point(u) = 64 * (64 * (u[1] - 224) + (u[2] - 128)) + (u[3] - 128)
    /\ n = 4 => Point(u) = 64 * (64 * (64 * (u[1] - 240) + (u[2] - 128)) + (u[3] - 128)) + (u[4] - 128)
Proper(u, n) ==
    /\ n = 1 => u[1] < 128
    /\ u[1] >= Lead(n) /\ \A i \in 2..n : u[i] \in Tail8
    /\ n \in 2..3 => u[1] < Lead(n + 1)
    /\ Scalar(Point(u), Least(n))

\* The two are the same: exactly as many bytes as it needs, no surrogate, nothing
\* above the last code point.
LEMMA ProperBytes ==
    ASSUME NEW u, NEW n \in 1..4, \A i \in 1..n : u[i] \in 0..255, PointSums(u, n)
    PROVE  Proper(u, n) <=> CharAt(u, 0, n)
<1>1. CASE n = 1
  <2>1. u[1] \in 0..255 /\ Point(u) = u[1] - 0
    BY SMT, <1>1 DEF PointSums
  <2>2. Proper(u, n) <=> u[1] < 128 /\ u[1] >= 0 /\ Scalar(Point(u), 0)
    BY SMT, <1>1, LeadIs DEF Proper
  <2>3. u[1] < 128 /\ u[1] >= 0 /\ Scalar(Point(u), 0) <=> u[1] \in 0..127
    <3>1. ASSUME NEW a \in 0..255, NEW p \in Int, p = a - 0
          PROVE  a < 128 /\ a >= 0 /\ Scalar(p, 0) <=> a \in 0..127
      BY SMT, <3>1 DEF Scalar, HighSurrogate, LowSurrogate
    <3>2. Point(u) \in Int
      BY SMT, <2>1
    <3> QED
      BY <2>1, <3>1, <3>2
  <2>4. CharAt(u, 0, n) <=> u[1] \in 0..127
    BY SMT, <1>1 DEF CharAt
  <2> QED
    BY <2>2, <2>3, <2>4
<1>2. CASE n = 2
  <2>1. u[1] \in 0..255 /\ u[2] \in 0..255 /\ Point(u) = 64 * (u[1] - 192) + (u[2] - 128)
    BY SMT, <1>2 DEF PointSums
  <2>2. Proper(u, n) <=> u[1] >= 192 /\ u[1] < 224 /\ u[2] \in Tail8 /\ Scalar(Point(u), 128)
    <3>1. (\A i \in 2..2 : u[i] \in Tail8) <=> u[2] \in Tail8
      BY SMT
    <3> QED
      BY SMT, <1>2, <3>1, LeadIs DEF Proper
  <2>3. u[1] >= 192 /\ u[1] < 224 /\ u[2] \in Tail8 /\ Scalar(Point(u), 128)
        <=> u[1] \in 194..223 /\ u[2] \in Tail8
    <3>2. PICK a \in 0..255 : a = u[1]
      BY <2>1
    <3>3. PICK b \in 0..255 : b = u[2]
      BY <2>1
    <3> DEFINE p == 64 * (a - 192) + (b - 128)
    <3>4. p \in Int
      BY SMT
    <3>5. Point(u) = p
      BY <2>1, <3>2, <3>3
    <3> HIDE DEF p
    <3>6. a >= 192 /\ a < 224 /\ b \in Tail8 /\ Scalar(p, 128) <=> a \in 194..223 /\ b \in Tail8
      BY SMT DEF p, Scalar, HighSurrogate, LowSurrogate, Tail8
    <3> QED
      BY <3>2, <3>3, <3>5, <3>6
  <2>4. CharAt(u, 0, n) <=> u[1] \in 194..223 /\ u[2] \in Tail8
    BY SMT, <1>2 DEF CharAt
  <2> QED
    BY <2>2, <2>3, <2>4
<1>3. CASE n = 3
  <2>1. /\ u[1] \in 0..255 /\ u[2] \in 0..255 /\ u[3] \in 0..255
        /\ Point(u) = 64 * (64 * (u[1] - 224) + (u[2] - 128)) + (u[3] - 128)
    BY SMT, <1>3 DEF PointSums
  <2>2. Proper(u, n) <=>
          u[1] >= 224 /\ u[1] < 240 /\ u[2] \in Tail8 /\ u[3] \in Tail8 /\ Scalar(Point(u), 2048)
    <3>1. (\A i \in 2..3 : u[i] \in Tail8) <=> u[2] \in Tail8 /\ u[3] \in Tail8
      BY SMT
    <3> QED
      BY SMT, <1>3, <3>1, LeadIs DEF Proper
  <2>3. u[1] >= 224 /\ u[1] < 240 /\ u[2] \in Tail8 /\ u[3] \in Tail8 /\ Scalar(Point(u), 2048)
        <=> Lead3(u[1], u[2]) /\ u[3] \in Tail8
    <3>2. PICK a \in 0..255 : a = u[1]
      BY <2>1
    <3>3. PICK b \in 0..255 : b = u[2]
      BY <2>1
    <3>4. PICK c \in 0..255 : c = u[3]
      BY <2>1
    <3> DEFINE p == 64 * (64 * (a - 224) + (b - 128)) + (c - 128)
    <3>5. p \in Int
      BY SMT
    <3>6. Point(u) = p
      BY <2>1, <3>2, <3>3, <3>4
    <3> HIDE DEF p
    <3>7. a >= 224 /\ a < 240 /\ b \in Tail8 /\ c \in Tail8 /\ Scalar(p, 2048) <=> Lead3(a, b) /\ c \in Tail8
      BY SMT DEF p, Scalar, HighSurrogate, LowSurrogate, Tail8, Lead3
    <3> QED
      BY <3>2, <3>3, <3>4, <3>6, <3>7
  <2>4. CharAt(u, 0, n) <=> Lead3(u[1], u[2]) /\ u[3] \in Tail8
    BY SMT, <1>3 DEF CharAt
  <2> QED
    BY <2>2, <2>3, <2>4
<1>4. CASE n = 4
  <2>1. /\ u[1] \in 0..255 /\ u[2] \in 0..255 /\ u[3] \in 0..255 /\ u[4] \in 0..255
        /\ Point(u) = 64 * (64 * (64 * (u[1] - 240) + (u[2] - 128)) + (u[3] - 128)) + (u[4] - 128)
    BY SMT, <1>4 DEF PointSums
  <2>2. Proper(u, n) <=>
          u[1] >= 240 /\ u[2] \in Tail8 /\ u[3] \in Tail8 /\ u[4] \in Tail8 /\ Scalar(Point(u), 65536)
    <3>1. (\A i \in 2..4 : u[i] \in Tail8) <=> u[2] \in Tail8 /\ u[3] \in Tail8 /\ u[4] \in Tail8
      BY SMT
    <3> QED
      BY SMT, <1>4, <3>1, LeadIs DEF Proper
  <2>3. u[1] >= 240 /\ u[2] \in Tail8 /\ u[3] \in Tail8 /\ u[4] \in Tail8 /\ Scalar(Point(u), 65536)
        <=> Lead4(u[1], u[2]) /\ u[3] \in Tail8 /\ u[4] \in Tail8
    <3>2. PICK a \in 0..255 : a = u[1]
      BY <2>1
    <3>3. PICK b \in 0..255 : b = u[2]
      BY <2>1
    <3>4. PICK c \in 0..255 : c = u[3]
      BY <2>1
    <3>5. PICK d \in 0..255 : d = u[4]
      BY <2>1
    <3> DEFINE p == 64 * (64 * (64 * (a - 240) + (b - 128)) + (c - 128)) + (d - 128)
    <3>6. p \in Int
      BY SMT
    <3>7. Point(u) = p
      BY <2>1, <3>2, <3>3, <3>4, <3>5
    <3> HIDE DEF p
    <3>8. a >= 240 /\ b \in Tail8 /\ c \in Tail8 /\ d \in Tail8 /\ Scalar(p, 65536) <=> Lead4(a, b) /\ c \in Tail8 /\ d \in Tail8
      BY SMT DEF p, Scalar, HighSurrogate, LowSurrogate, Tail8, Lead4
    <3> QED
      BY <3>2, <3>3, <3>4, <3>5, <3>7, <3>8
  <2>4. CharAt(u, 0, n) <=> Lead4(u[1], u[2]) /\ u[3] \in Tail8 /\ u[4] \in Tail8
    BY SMT, <1>4 DEF CharAt
  <2> QED
    BY <2>2, <2>3, <2>4
<1> QED
  BY <1>1, <1>2, <1>3, <1>4

\* What a character is, by its bytes.
LEMMA CharacterIs ==
    ASSUME NEW u \in Seq(Byte), Len(u) \in 1..4
    PROVE  IsCharacter(u) <=> CharAt(u, 0, Len(u))
<1>1. \A i \in 1..Len(u) : u[i] \in 0..255
  <2>1. \A i \in 1..Len(u) : u[i] \in Byte
    OBVIOUS
  <2> QED
    BY <2>1 DEF Byte
<1>2. IsCharacter(u) <=> Proper(u, Len(u))
  BY SMT DEF IsCharacter, Proper, Scalar, Tail8
<1>3. PointSums(u, Len(u))
  BY SMT, PointIs DEF PointSums
<1> HIDE DEF IsCharacter
<1> QED
  BY <1>1, <1>2, <1>3, ProperBytes

\* Bytes that are the same make the same character, wherever they are.
LEMMA CharMoves ==
    ASSUME NEW u, NEW s, NEW m \in Nat, NEW n \in 1..4, \A i \in 1..n : u[i] = s[m + i]
    PROVE  CharAt(u, 0, n) <=> CharAt(s, m, m + n)
<1>1. CASE n = 1
  BY SMT, <1>1 DEF CharAt
<1>2. CASE n = 2
  BY SMT, <1>2 DEF CharAt
<1>3. CASE n = 3
  BY SMT, <1>3 DEF CharAt
<1>4. CASE n = 4
  BY SMT, <1>4 DEF CharAt
<1> QED
  BY <1>1, <1>2, <1>3, <1>4

\* It is the same for a part of a text.
LEMMA CharHere ==
    ASSUME NEW s \in Seq(Byte), NEW m \in Nat, NEW e \in Nat, m < e, e <= Len(s)
    PROVE  IsCharacter(SubSeq(s, m + 1, e)) <=> CharAt(s, m, e)
<1> DEFINE u == SubSeq(s, m + 1, e)  n == e - m
<1>1. u \in Seq(Byte) /\ Len(u) = n /\ \A i \in 1..n : u[i] = s[m + i]
  BY SliceIs
<1>2. n \in Nat /\ n >= 1 /\ m + n = e /\ \A k \in 1..4 : e = m + k <=> n = k
  OBVIOUS
<1> HIDE DEF u, n
<1>3. CASE n \in 1..4
  <2>1. IsCharacter(u) <=> CharAt(u, 0, n)
    BY <1>1, <1>3, CharacterIs
  <2>2. CharAt(u, 0, n) <=> CharAt(s, m, m + n)
    BY <1>1, <1>3, CharMoves
  <2> QED
    BY <1>2, <2>1, <2>2 DEF u
<1>4. CASE n \notin 1..4
  <2>1. ~CharAt(s, m, e)
    BY <1>2, <1>4 DEF CharAt
  <2>2. ~IsCharacter(u)
    BY SMT, <1>1, <1>4 DEF IsCharacter
  <2> QED
    BY <2>1, <2>2 DEF u
<1> QED
  BY <1>3, <1>4

\* The bytes that may follow a backslash.
LEMMA ShortEscapes == DOMAIN Unescaped = Simple
BY DEF Unescaped, Simple

\* A unit of a string is one of a text as well.
LEMMA UnitHere ==
    ASSUME NEW s \in Seq(Byte), NEW m \in Nat, NEW e \in Nat, m < e, e <= Len(s)
    PROVE  IsUnit(SubSeq(s, m + 1, e)) <=> UnitAt(s, m, e)
<1> DEFINE u == SubSeq(s, m + 1, e)  n == e - m
<1>1. u \in Seq(Byte) /\ Len(u) = n /\ \A i \in 1..n : u[i] = s[m + i]
  BY SliceIs
<1>2. n \in Nat /\ n >= 1 /\ \A k \in 1..6 : e = m + k <=> n = k
  OBVIOUS
<1>3. IsPlain(u) <=> CharAt(s, m, e) /\ s[m + 1] >= 32 /\ s[m + 1] \notin {Quote, Backslash}
  <2>1. u[1] = s[m + 1]
    BY <1>1, <1>2
  <2> QED
    BY <2>1, CharHere DEF IsPlain
<1> HIDE DEF u, n
<1>4. IsShort(u) <=> e = m + 2 /\ s[m + 1] = Backslash /\ s[m + 2] \in Simple
  <2>1. CASE n = 2
    BY <1>1, <1>2, <2>1, ShortEscapes DEF IsShort
  <2>2. CASE n # 2
    BY <1>1, <1>2, <2>2 DEF IsShort
  <2> QED
    BY <2>1, <2>2
<1>5. IsLong(u) <=> /\ e = m + 6 /\ s[m + 1] = Backslash /\ s[m + 2] = 117
                    /\ s[m + 3] \in HexDigit /\ s[m + 4] \in HexDigit /\ s[m + 5] \in HexDigit /\ s[m + 6] \in HexDigit
  <2>1. CASE n = 6
    <3>1. u[1] = s[m + 1] /\ u[2] = s[m + 2] /\ u[3] = s[m + 3] /\ u[4] = s[m + 4] /\ u[5] = s[m + 5] /\ u[6] = s[m + 6]
      BY <1>1, <2>1
    <3>2. (\A i \in 3..6 : u[i] \in HexDigit) <=> u[3] \in HexDigit /\ u[4] \in HexDigit /\ u[5] \in HexDigit /\ u[6] \in HexDigit
      <4> SUFFICES ASSUME u[3] \in HexDigit, u[4] \in HexDigit, u[5] \in HexDigit, u[6] \in HexDigit, NEW i \in 3..6 PROVE u[i] \in HexDigit
        OBVIOUS
      <4>1. i = 3 \/ i = 4 \/ i = 5 \/ i = 6
        OBVIOUS
      <4> QED
        BY <4>1
    <3>3. e = m + 6 /\ Len(u) = 6
      BY <1>1, <1>2, <2>1
    <3> HIDE DEF IsLong
    <3> QED
      BY <3>1, <3>2, <3>3 DEF IsLong
  <2>2. CASE n # 6
    BY <1>1, <1>2, <2>2 DEF IsLong
  <2> QED
    BY <2>1, <2>2
<1> QED
  BY <1>3, <1>4, <1>5 DEF IsUnit, UnitAt, u

\* A slice of a slice.
LEMMA SubSlice ==
    ASSUME NEW s \in Seq(Byte), NEW m \in Nat, NEW e \in Nat, m <= e, e <= Len(s),
           NEW x \in Nat, NEW y \in Nat, x <= y, y <= e - m
    PROVE  SubSeq(SubSeq(s, m + 1, e), x + 1, y) = SubSeq(s, (m + x) + 1, m + y)
<1> DEFINE u == SubSeq(s, m + 1, e)  v == SubSeq(u, x + 1, y)  a == m + x  b == m + y  w == SubSeq(s, a + 1, b)
<1>1. u \in Seq(Byte) /\ Len(u) = e - m /\ \A n \in 1..(e - m) : u[n] = s[m + n]
  BY SliceIs
<1> HIDE DEF u
<1>2. v \in Seq(Byte) /\ Len(v) = y - x /\ \A n \in 1..(y - x) : v[n] = u[x + n]
  BY <1>1, SliceIs
<1>3. a \in Nat /\ b \in Nat /\ a <= b /\ b <= Len(s) /\ b - a = y - x
  OBVIOUS
<1>a. \A n \in 1..(y - x) : x + n \in 1..(e - m) /\ m + (x + n) = a + n
  OBVIOUS
<1> HIDE DEF v, a, b
<1>4. w \in Seq(Byte) /\ Len(w) = y - x /\ \A n \in 1..(y - x) : w[n] = s[a + n]
  BY <1>3, SliceIs
<1> HIDE DEF w
<1>5. \A n \in 1..(y - x) : v[n] = w[n]
  BY <1>1, <1>2, <1>4, <1>a
<1>6. v = w
  BY <1>2, <1>4, <1>5, SeqEqual
<1> QED
  BY <1>6 DEF u, v, w, a, b

\* A slice without its first byte.
LEMMA TailSlice ==
    ASSUME NEW s \in Seq(Byte), NEW m \in Nat, NEW e \in Nat, m < e, e <= Len(s)
    PROVE  Tail(SubSeq(s, m + 1, e)) = SubSeq(s, (m + 1) + 1, e)
<1> DEFINE u == SubSeq(s, m + 1, e)  v == Tail(u)  a == m + 1  w == SubSeq(s, a + 1, e)
<1>1. u \in Seq(Byte) /\ Len(u) = e - m /\ \A n \in 1..(e - m) : u[n] = s[m + n]
  BY SliceIs
<1> HIDE DEF u
<1>2. v \in Seq(Byte) /\ Len(v) = e - m - 1 /\ \A n \in 1..(e - m - 1) : v[n] = u[n + 1]
  BY <1>1
<1>3. a \in Nat /\ a <= e /\ e - a = e - m - 1 /\ \A n \in 1..(e - m - 1) : n + 1 \in 1..(e - m) /\ m + (n + 1) = a + n
  OBVIOUS
<1> HIDE DEF v, a
<1>4. w \in Seq(Byte) /\ Len(w) = e - m - 1 /\ \A n \in 1..(e - m - 1) : w[n] = s[a + n]
  BY <1>3, SliceIs
<1> HIDE DEF w
<1>5. ASSUME NEW n \in 1..(e - m - 1) PROVE v[n] = w[n]
  <2>1. v[n] = u[n + 1] /\ w[n] = s[a + n] /\ n + 1 \in 1..(e - m) /\ m + (n + 1) = a + n
    BY <1>2, <1>3, <1>4
  <2>2. u[n + 1] = s[m + (n + 1)]
    BY <1>1, <2>1
  <2> QED
    BY <2>1, <2>2
<1>6. v = w
  BY <1>2, <1>4, <1>5, SeqEqual
<1> QED
  BY <1>6 DEF u, v, w, a

\* The first byte of a slice, and when it has none.
LEMMA HeadSlice ==
    ASSUME NEW s \in Seq(Byte), NEW m \in Nat, NEW e \in Nat, m <= e, e <= Len(s)
    PROVE  /\ SubSeq(s, m + 1, e) = <<>> <=> m = e
           /\ m < e => SubSeq(s, m + 1, e)[1] = s[m + 1]
<1> DEFINE u == SubSeq(s, m + 1, e)
<1>1. u \in Seq(Byte) /\ Len(u) = e - m /\ \A n \in 1..(e - m) : u[n] = s[m + n]
  BY SliceIs
<1> HIDE DEF u
<1>2. u = <<>> <=> m = e
  BY <1>1
<1>3. m < e => u[1] = s[m + 1]
  BY <1>1
<1> QED
  BY <1>2, <1>3 DEF u

\* Digits in a text.
LEMMA DigitsHere ==
    ASSUME NEW s \in Seq(Byte), NEW m \in Nat, NEW e \in Nat, m <= e, e <= Len(s)
    PROVE  Digits(SubSeq(s, m + 1, e)) <=> m < e /\ DigitsIn(s, m, e)
<1> DEFINE u == SubSeq(s, m + 1, e)
<1>1. u \in Seq(Byte) /\ Len(u) = e - m /\ \A n \in 1..(e - m) : u[n] = s[m + n]
  BY SliceIs
<1>2. u = <<>> <=> m = e
  BY HeadSlice
<1> HIDE DEF u
<1>3. DOMAIN u = 1..(e - m)
  BY <1>1
<1>4. (\A i \in DOMAIN u : u[i] \in Digit) <=> DigitsIn(s, m, e)
  <2>1. ASSUME DigitsIn(s, m, e), NEW i \in DOMAIN u PROVE u[i] \in Digit
    <3>1. m + i \in (m + 1)..e /\ u[i] = s[m + i]
      BY <1>1, <1>3
    <3> QED
      BY <2>1, <3>1 DEF DigitsIn
  <2>2. ASSUME \A i \in DOMAIN u : u[i] \in Digit, NEW i \in (m + 1)..e PROVE s[i] \in Digit
    <3>1. i - m \in 1..(e - m) /\ m + (i - m) = i
      OBVIOUS
    <3> QED
      BY <1>1, <1>3, <2>2, <3>1
  <2> QED
    BY <2>1, <2>2 DEF DigitsIn
<1> QED
  BY <1>2, <1>4 DEF Digits, u

\* What Drop leaves of a slice.
LEMMA DropSlice ==
    ASSUME NEW s \in Seq(Byte), NEW m \in Nat, NEW e \in Nat, m <= e, e <= Len(s), NEW S
    PROVE  Drop(SubSeq(s, m + 1, e), S) =
             IF m < e /\ s[m + 1] \in S THEN SubSeq(s, (m + 1) + 1, e) ELSE SubSeq(s, m + 1, e)
<1> DEFINE u == SubSeq(s, m + 1, e)  t == SubSeq(s, (m + 1) + 1, e)
<1>1. (u = <<>> <=> m = e) /\ (m < e => u[1] = s[m + 1]) /\ (m < e => Tail(u) = t)
  BY HeadSlice, TailSlice
<1> HIDE DEF u, t
<1>2. Drop(u, S) = IF m < e /\ s[m + 1] \in S THEN t ELSE u
  <2>1. CASE m = e
    BY <1>1, <2>1 DEF Drop
  <2>2. CASE m < e
    <3>1. u # <<>> /\ u[1] = s[m + 1] /\ Tail(u) = t
      BY <1>1, <2>2
    <3>2. CASE s[m + 1] \in S
      BY <2>2, <3>1, <3>2 DEF Drop
    <3>3. CASE s[m + 1] \notin S
      BY <2>2, <3>1, <3>3 DEF Drop
    <3> QED
      BY <3>2, <3>3
  <2> QED
    BY <2>1, <2>2
<1> QED
  BY <1>2 DEF u, t

\* The integer part of a number.
LEMMA IntegerHere ==
    ASSUME NEW s \in Seq(Byte), NEW from \in Nat, NEW i \in Nat, from < i, i <= Len(s)
    PROVE  IsInteger(SubSeq(s, from + 1, i)) <=> IntegerTo(s, from, i)
<1> DEFINE a == After(s, from)  d == SubSeq(s, a + 1, i)
<1>1. a \in Nat /\ a <= i /\ a = IF s[from + 1] = 45 THEN from + 1 ELSE from
  BY DEF After
<1>2. Drop(SubSeq(s, from + 1, i), {45}) = d
  <2>0. Drop(SubSeq(s, from + 1, i), {45}) =
          IF from < i /\ s[from + 1] \in {45} THEN SubSeq(s, (from + 1) + 1, i) ELSE SubSeq(s, from + 1, i)
    BY DropSlice
  <2> DEFINE x == Drop(SubSeq(s, from + 1, i), {45})  y == SubSeq(s, (from + 1) + 1, i)  z == SubSeq(s, from + 1, i)
  <2>1. CASE s[from + 1] = 45
    <3>1. a = from + 1
      BY <1>1, <2>1
    <3>2. d = y
      BY <3>1
    <3>3. x = y
      <4> HIDE DEF x, y, z
      <4> QED
        BY <2>0, <2>1 DEF x, y, z
    <3> QED
      BY <3>2, <3>3
  <2>2. CASE s[from + 1] # 45
    <3>1. a = from
      BY <1>1, <2>2
    <3>2. d = z
      BY <3>1
    <3>3. x = z
      <4> HIDE DEF x, y, z
      <4> QED
        BY <2>0, <2>2 DEF x, y, z
    <3> QED
      BY <3>2, <3>3
  <2> QED
    BY <2>1, <2>2
<1> HIDE DEF a
<1>3. Digits(d) <=> a < i /\ DigitsIn(s, a, i)
  BY <1>1, DigitsHere
<1>4. a < i => d[1] = s[a + 1]
  BY <1>1, HeadSlice
<1>5. Len(d) = i - a
  BY <1>1, SliceIs
<1> HIDE DEF d
<1>6. Len(d) = 1 <=> i = a + 1
  BY <1>1, <1>5
<1>7. IsInteger(SubSeq(s, from + 1, i)) <=> Digits(d) /\ (d[1] = 48 => Len(d) = 1)
  BY <1>2 DEF IsInteger
<1> QED
  BY <1>3, <1>4, <1>6, <1>7 DEF IntegerTo, a

\* Its fraction.
LEMMA FractionHere ==
    ASSUME NEW s \in Seq(Byte), NEW i \in Nat, NEW j \in Nat, i <= j, j <= Len(s)
    PROVE  IsFraction(SubSeq(s, i + 1, j)) <=> FractionTo(s, i, j)
<1> DEFINE u == SubSeq(s, i + 1, j)
<1>1. (u = <<>> <=> i = j) /\ (i < j => u[1] = s[i + 1])
  BY HeadSlice
<1>2. i < j => Tail(u) = SubSeq(s, (i + 1) + 1, j)
  BY TailSlice
<1>3. i < j => (Digits(SubSeq(s, (i + 1) + 1, j)) <=> i + 1 < j /\ DigitsIn(s, i + 1, j))
  BY DigitsHere
<1> HIDE DEF u
<1>4. CASE i = j
  BY <1>1, <1>4 DEF IsFraction, FractionTo, u
<1>5. CASE i < j
  BY <1>1, <1>2, <1>3, <1>5 DEF IsFraction, FractionTo, u
<1> QED
  BY <1>4, <1>5

\* Its exponent.
LEMMA ExponentHere ==
    ASSUME NEW s \in Seq(Byte), NEW j \in Nat, NEW to \in Nat, j <= to, to <= Len(s)
    PROVE  IsExponent(SubSeq(s, j + 1, to)) <=> ExponentTo(s, j, to)
<1> DEFINE u == SubSeq(s, j + 1, to)  a == j + 1  k == SignEnd(s, j)  d == Drop(SubSeq(s, a + 1, to), {43, 45})
<1>0. a \in Nat /\ a + 1 = j + 2
  OBVIOUS
<1>1. (u = <<>> <=> j = to) /\ (j < to => u[1] = s[j + 1])
  BY HeadSlice
<1>2. j < to => Tail(u) = SubSeq(s, a + 1, to)
  BY TailSlice
<1>3. CASE j = to
  BY <1>1, <1>3 DEF IsExponent, ExponentTo
<1>4. CASE j < to
  <2>1. a <= to
    BY <1>4
  <2> HIDE DEF a, u
  <2>2. Digits(d) <=> k < to /\ DigitsIn(s, k, to)
    <3>1. k = IF s[a + 1] \in {43, 45} THEN a + 1 ELSE a
      BY <1>0 DEF SignEnd, a
    <3>0. d = IF a < to /\ s[a + 1] \in {43, 45} THEN SubSeq(s, (a + 1) + 1, to) ELSE SubSeq(s, a + 1, to)
      BY <1>0, <2>1, DropSlice
    <3> HIDE DEF d
    <3>2. CASE a < to /\ s[a + 1] \in {43, 45}
      <4>1. d = SubSeq(s, (a + 1) + 1, to)
        BY <3>0, <3>2
      <4>2. a + 1 \in Nat /\ a + 1 <= to
        BY <1>0, <3>2
      <4> QED
        BY <3>1, <3>2, <4>1, <4>2, DigitsHere
    <3>3. CASE a < to /\ s[a + 1] \notin {43, 45}
      <4>1. d = SubSeq(s, a + 1, to)
        BY <3>0, <3>3
      <4> QED
        BY <1>0, <2>1, <3>1, <3>3, <4>1, DigitsHere
    <3>4. CASE a = to
      <4>1. d = SubSeq(s, a + 1, to) /\ ~(a < to)
        BY <1>0, <3>0, <3>4
      <4>2. ~Digits(d)
        BY <1>0, <2>1, <4>1, DigitsHere
      <4>3. ~(k < to)
        BY <1>0, <3>1, <3>4
      <4> QED
        BY <4>2, <4>3
    <3> QED
      BY <1>0, <2>1, <3>2, <3>3, <3>4
  <2>3. IsExponent(u) <=> s[j + 1] \in {69, 101} /\ Digits(d)
    <3>2. Tail(u) = SubSeq(s, a + 1, to)
      BY <1>2, <1>4
    <3>3. Drop(Tail(u), {43, 45}) = d
      BY <3>2
    <3> HIDE DEF d
    <3>4. j # to
      BY <1>4
    <3>1. u # <<>> /\ u[1] = s[j + 1] /\ Drop(Tail(u), {43, 45}) = d
      BY <1>1, <1>4, <3>3, <3>4
    <3> QED
      BY <3>1 DEF IsExponent
  <2> HIDE DEF d, k
  <2> QED
    BY <1>4, <2>2, <2>3 DEF ExponentTo, u, k
<1> QED
  BY <1>3, <1>4

\* A number of a text.
LEMMA NumberHere ==
    ASSUME NEW s \in Seq(Byte), NEW from \in Nat, NEW to \in Nat, from < to, to <= Len(s)
    PROVE  IsNumber(SubSeq(s, from + 1, to)) <=> \E i \in Nat, j \in Nat : NumberTo(s, from, to, i, j)
<1> DEFINE u == SubSeq(s, from + 1, to)  n == to - from
<1>1. Len(u) = n /\ n \in Nat /\ n >= 1
  BY SliceIs
<1>2. ASSUME NEW i \in 1..n, NEW j \in 1..n, i <= j
      PROVE  /\ IsInteger(SubSeq(u, 1, i)) <=> IntegerTo(s, from, from + i)
             /\ IsFraction(SubSeq(u, i + 1, j)) <=> FractionTo(s, from + i, from + j)
             /\ IsExponent(SubSeq(u, j + 1, Len(u))) <=> ExponentTo(s, from + j, to)
  <2> DEFINE a == from + i  b == from + j
  <2>1. /\ a \in Nat /\ b \in Nat /\ from < a /\ a <= b /\ b <= to /\ a <= Len(s) /\ b <= Len(s) /\ from + n = to
        /\ i \in Nat /\ j \in Nat /\ 0 <= i /\ i <= to - from /\ j <= n /\ n <= to - from
    BY <1>1, <1>2
  <2>2. SubSeq(u, 0 + 1, i) = SubSeq(s, (from + 0) + 1, a)
    BY <2>1, SubSlice
  <2>3. SubSeq(u, i + 1, j) = SubSeq(s, a + 1, b)
    BY <1>2, <2>1, SubSlice
  <2>4. SubSeq(u, j + 1, n) = SubSeq(s, b + 1, from + n)
    BY <1>1, <2>1, SubSlice
  <2> HIDE DEF u, a, b, n
  <2>5. from + 0 = from /\ 0 + 1 = 1
    OBVIOUS
  <2>6. SubSeq(u, 1, i) = SubSeq(s, from + 1, a) /\ SubSeq(u, j + 1, Len(u)) = SubSeq(s, b + 1, to)
    BY <1>1, <2>1, <2>2, <2>4, <2>5
  <2>7. IsInteger(SubSeq(s, from + 1, a)) <=> IntegerTo(s, from, a)
    BY <2>1, IntegerHere
  <2>8. IsFraction(SubSeq(s, a + 1, b)) <=> FractionTo(s, a, b)
    BY <2>1, FractionHere
  <2>9. IsExponent(SubSeq(s, b + 1, to)) <=> ExponentTo(s, b, to)
    BY <2>1, ExponentHere
  <2> QED
    BY <2>3, <2>6, <2>7, <2>8, <2>9 DEF a, b
<1>3. ASSUME IsNumber(u) PROVE \E i \in Nat, j \in Nat : NumberTo(s, from, to, i, j)
  <2> HIDE DEF u, n
  <2>1. PICK i \in 1..n, j \in 1..n :
           /\ i <= j /\ IsInteger(SubSeq(u, 1, i)) /\ IsFraction(SubSeq(u, i + 1, j))
           /\ IsExponent(SubSeq(u, j + 1, Len(u)))
    BY <1>1, <1>3 DEF IsNumber
  <2>2. NumberTo(s, from, to, from + i, from + j)
    BY <1>2, <2>1 DEF NumberTo
  <2>3. from + i \in Nat /\ from + j \in Nat
    BY <1>1
  <2> QED
    BY <2>2, <2>3
<1>4. ASSUME NEW x \in Nat, NEW y \in Nat, NumberTo(s, from, to, x, y) PROVE IsNumber(u)
  <2> DEFINE i == x - from  j == y - from
  <2>1. from < x /\ x <= y /\ y <= to
    <3>1. After(s, from) \in Nat /\ from <= After(s, from) /\ SignEnd(s, y) \in Nat /\ SignEnd(s, y) > y
      BY DEF After, SignEnd
    <3> QED
      BY <1>4, <3>1 DEF NumberTo, IntegerTo, FractionTo, ExponentTo
  <2>2. i \in 1..n /\ j \in 1..n /\ i <= j /\ from + i = x /\ from + j = y
    BY <2>1
  <2> HIDE DEF u, n, i, j
  <2>3. IsInteger(SubSeq(u, 1, i)) /\ IsFraction(SubSeq(u, i + 1, j)) /\ IsExponent(SubSeq(u, j + 1, Len(u)))
    BY <1>2, <1>4, <2>2 DEF NumberTo
  <2> QED
    BY <1>1, <2>2, <2>3 DEF IsNumber
<1> QED
  BY <1>3, <1>4

\* Units, with the set of what is one in the place of an operator: where those
\* from a position on may end, and what they are.
UnitEnds(f, u, One, i) == {j \in i..Min({i + 5, Len(u)}) : SubSeq(u, i, j) \in One /\ f[j + 1].ok}
UnitsFrom(f, u, One, i) ==
    IF i = Len(u) + 1 THEN [ok |-> TRUE, list |-> <<>>]
    ELSE IF UnitEnds(f, u, One, i) = {} THEN [ok |-> FALSE, list |-> <<>>]
    ELSE [ok |-> TRUE, list |-> <<SubSeq(u, i, Min(UnitEnds(f, u, One, i)))>> \o f[Min(UnitEnds(f, u, One, i)) + 1].list]
AllUnits(f, u, One, k) == f = [i \in k..(Len(u) + 1) |-> UnitsFrom(f, u, One, i)]

\* Where they may end: inside of the text.
LEMMA UnitEndsIn ==
    ASSUME NEW f, NEW u \in Seq(Byte), NEW One, NEW i \in 1..Len(u)
    PROVE  /\ UnitEnds(f, u, One, i) \subseteq i..Len(u)
           /\ \A j \in i..Len(u) : j <= i + 5 /\ SubSeq(u, i, j) \in One /\ f[j + 1].ok => j \in UnitEnds(f, u, One, i)
<1> DEFINE n == Len(u)  T == {i + 5, n}
<1>1. n \in Nat /\ i \in Nat /\ T \subseteq Nat /\ T # {} /\ n \in T /\ i + 5 \in T /\ \A x \in T : x = n \/ x = i + 5
  OBVIOUS
<1> HIDE DEF T
<1>2. Min(T) \in T /\ \A m \in T : Min(T) <= m
  BY <1>1, MinIs
<1>3. Min(T) \in Nat /\ Min(T) <= n /\ (Min(T) = n \/ Min(T) = i + 5)
  BY <1>1, <1>2
<1>4. UnitEnds(f, u, One, i) = {j \in i..Min(T) : SubSeq(u, i, j) \in One /\ f[j + 1].ok}
  BY DEF UnitEnds, T
<1> HIDE DEF n
<1> QED
  BY <1>1, <1>3, <1>4 DEF n

\* What the units from a position on are depends on the later positions only.
LEMMA UnitsLater ==
    ASSUME NEW f, NEW g, NEW u \in Seq(Byte), NEW One, NEW i \in 1..(Len(u) + 1),
           \A j \in (i + 1)..(Len(u) + 1) : f[j] = g[j]
    PROVE  UnitsFrom(f, u, One, i) = UnitsFrom(g, u, One, i)
<1>1. CASE i = Len(u) + 1
  BY <1>1 DEF UnitsFrom
<1>2. CASE i # Len(u) + 1
  <2>1. i \in 1..Len(u) /\ Len(u) \in Nat
    BY <1>2
  <2> DEFINE E == UnitEnds(f, u, One, i)  D == UnitEnds(g, u, One, i)
  <2>2. E \subseteq i..Len(u) /\ D \subseteq i..Len(u)
    BY <2>1, UnitEndsIn
  <2>3. \A j \in i..Len(u) : f[j + 1] = g[j + 1]
    BY <2>1
  <2>4. \A j \in i..Len(u) : j \in E <=> j \in D
    BY <2>3 DEF UnitEnds
  <2> HIDE DEF E, D
  <2>5. E = D
    BY <2>2, <2>4
  <2>6. E # {} => Min(E) \in i..Len(u)
    <3>1. E \subseteq Nat
      BY <2>1, <2>2
    <3> QED
      BY <2>2, <3>1, MinIs
  <2>7. E # {} => f[Min(E) + 1] = g[Min(E) + 1]
    BY <2>3, <2>6
  <2> QED
    BY <2>5, <2>7 DEF UnitsFrom, E, D
<1> QED
  BY <1>1, <1>2

\* There are such units for every text.
LEMMA UnitsExist == ASSUME NEW u \in Seq(Byte), NEW One PROVE \E f : AllUnits(f, u, One, 1)
<1> DEFINE n == Len(u)  N == {k \in Nat : k <= n => \E f : AllUnits(f, u, One, n + 1 - k)}
<1>0. n \in Nat
  OBVIOUS
<1>1. 0 \in N
  <2> DEFINE f == [i \in (n + 1)..(n + 1) |-> [ok |-> TRUE, list |-> <<>>]]
  <2>1. \A i \in (n + 1)..(n + 1) : UnitsFrom(f, u, One, i) = [ok |-> TRUE, list |-> <<>>]
    BY DEF UnitsFrom
  <2>2. f = [i \in (n + 1)..(n + 1) |-> UnitsFrom(f, u, One, i)]
    BY <2>1
  <2>3. n + 1 - 0 = n + 1
    BY <1>0
  <2> QED
    BY <2>2, <2>3 DEF AllUnits
<1>2. ASSUME NEW k \in Nat, k \in N PROVE k + 1 \in N
  <2> SUFFICES ASSUME k + 1 <= n PROVE \E f : AllUnits(f, u, One, n + 1 - (k + 1))
    OBVIOUS
  <2> DEFINE b == n + 1 - k  a == n - k
  <2>1. a \in Nat /\ b \in Nat /\ b = a + 1 /\ a >= 1 /\ b <= n + 1 /\ n + 1 - (k + 1) = a /\ k <= n
    BY <1>0
  <2>2. PICK f : AllUnits(f, u, One, b)
    BY <1>2, <2>1
  <2> DEFINE g == [i \in a..(n + 1) |-> IF i = a THEN UnitsFrom(f, u, One, a) ELSE f[i]]
  <2> HIDE DEF a, b
  <2>3. \A i \in b..(n + 1) : g[i] = f[i] /\ i # a /\ i \in a..(n + 1)
    BY <1>0, <2>1
  <2>4. g[a] = UnitsFrom(f, u, One, a)
    BY <1>0, <2>1
  <2>5. ASSUME NEW i \in a..(n + 1) PROVE g[i] = UnitsFrom(g, u, One, i)
    <3> HIDE DEF g
    <3>1. i \in 1..(n + 1) /\ \A j \in (i + 1)..(n + 1) : j \in b..(n + 1)
      BY <1>0, <2>1
    <3>2. UnitsFrom(f, u, One, i) = UnitsFrom(g, u, One, i)
      BY <2>3, <3>1, UnitsLater
    <3>3. CASE i = a
      BY <2>4, <3>2, <3>3
    <3>4. CASE i # a
      <4>1. i \in b..(n + 1)
        BY <1>0, <2>1, <3>4
      <4>2. f[i] = UnitsFrom(f, u, One, i)
        BY <2>2, <4>1 DEF AllUnits
      <4> QED
        BY <2>3, <3>2, <4>1, <4>2
    <3> QED
      BY <3>3, <3>4
  <2>6. g = [i \in a..(n + 1) |-> g[i]]
    OBVIOUS
  <2> HIDE DEF g
  <2>7. AllUnits(g, u, One, a)
    BY <2>5, <2>6 DEF AllUnits
  <2> QED
    BY <2>1, <2>7
<1>3. n \in N
  <2>1. Nat \subseteq N
    <3> HIDE DEF N
    <3> QED
      BY <1>1, <1>2, CountingUp
  <2> QED
    BY <1>0, <2>1
<1>4. n + 1 - n = 1 /\ n <= n
  BY <1>0
<1> QED
  BY <1>3, <1>4

\* All units, and all characters.
AllOfUnit == {x \in Seq(Byte) : IsUnit(x)}
AllOfCharacter == {x \in Seq(Byte) : IsCharacter(x)}

\* A part of a text, by its first and last position.
LEMMA PartIn == ASSUME NEW u \in Seq(Byte), NEW i \in 1..Len(u), NEW j \in i..Len(u)
                PROVE  SubSeq(u, i, j) \in Seq(Byte) /\ Len(SubSeq(u, i, j)) = j - i + 1
<1> DEFINE m == i - 1
<1>1. m \in Nat /\ m + 1 = i /\ m <= j /\ j <= Len(u) /\ j \in Nat /\ j - m = j - i + 1
  OBVIOUS
<1> HIDE DEF m
<1>2. SubSeq(u, m + 1, j) \in Seq(Byte) /\ Len(SubSeq(u, m + 1, j)) = j - m
  BY <1>1, SliceIs
<1> QED
  BY <1>1, <1>2

\* What Units gives: the units from the first position on.
LEMMA UnitsAre ==
    ASSUME NEW u \in Seq(Byte)
    PROVE  \E f : AllUnits(f, u, AllOfUnit, 1) /\ Units(u, IsUnit) = f[1]
<1> DEFINE P(f) == f = [i \in 1..(Len(u) + 1) |->
            IF i = Len(u) + 1 THEN [ok |-> TRUE, list |-> <<>>]
            ELSE LET ends == {j \in i..Min({i + 5, Len(u)}) : IsUnit(SubSeq(u, i, j)) /\ f[j + 1].ok}
                 IN IF ends = {} THEN [ok |-> FALSE, list |-> <<>>]
                    ELSE LET j == Min(ends) IN
                         [ok |-> TRUE, list |-> <<SubSeq(u, i, j)>> \o f[j + 1].list]]
           f == CHOOSE f : P(f)
<1>1. Units(u, IsUnit) = f[1]
  BY DEF Units
<1>2. ASSUME NEW g, AllUnits(g, u, AllOfUnit, 1) PROVE P(g)
  <2>1. ASSUME NEW i \in 1..Len(u) PROVE UnitEnds(g, u, AllOfUnit, i) = {j \in i..Min({i + 5, Len(u)}) : IsUnit(SubSeq(u, i, j)) /\ g[j + 1].ok}
    <3> DEFINE m == Min({i + 5, Len(u)})
    <3>1. m <= Len(u) /\ m \in Nat /\ Len(u) \in Nat
      <4> DEFINE T == {i + 5, Len(u)}
      <4>1. T \subseteq Nat /\ T # {} /\ Len(u) \in T
        OBVIOUS
      <4> HIDE DEF T
      <4> QED
        BY <4>1, MinIs DEF T
    <3> HIDE DEF m
    <3>2. ASSUME NEW j \in i..m PROVE SubSeq(u, i, j) \in AllOfUnit <=> IsUnit(SubSeq(u, i, j))
      <4>1. j \in i..Len(u)
        BY <3>1
      <4> QED
        BY <4>1, PartIn DEF AllOfUnit
    <3> QED
      BY <3>2 DEF UnitEnds, m
  <2>2. \A i \in 1..(Len(u) + 1) : i = Len(u) + 1 \/ i \in 1..Len(u)
    OBVIOUS
  <2> QED
    BY <1>2, <2>1, <2>2 DEF AllUnits, UnitsFrom
<1>3. P(f)
  <2>1. \E g : P(g)
    <3> HIDE DEF P
    <3> QED
      BY <1>2, UnitsExist
  <2> QED
    BY <2>1
<1>4. ASSUME NEW g, P(g) PROVE AllUnits(g, u, AllOfUnit, 1)
  <2>1. ASSUME NEW i \in 1..Len(u) PROVE UnitEnds(g, u, AllOfUnit, i) = {j \in i..Min({i + 5, Len(u)}) : IsUnit(SubSeq(u, i, j)) /\ g[j + 1].ok}
    <3> DEFINE m == Min({i + 5, Len(u)})
    <3>1. m <= Len(u) /\ m \in Nat /\ Len(u) \in Nat
      <4> DEFINE T == {i + 5, Len(u)}
      <4>1. T \subseteq Nat /\ T # {} /\ Len(u) \in T
        OBVIOUS
      <4> HIDE DEF T
      <4> QED
        BY <4>1, MinIs DEF T
    <3> HIDE DEF m, P
    <3>2. ASSUME NEW j \in i..m PROVE SubSeq(u, i, j) \in AllOfUnit <=> IsUnit(SubSeq(u, i, j))
      <4>1. j \in i..Len(u)
        BY <3>1
      <4> QED
        BY <4>1, PartIn DEF AllOfUnit
    <3> QED
      BY <3>2 DEF UnitEnds, m
  <2>2. \A i \in 1..(Len(u) + 1) : i = Len(u) + 1 \/ i \in 1..Len(u)
    OBVIOUS
  <2> QED
    BY <1>4, <2>1, <2>2 DEF AllUnits, UnitsFrom
<1> HIDE DEF P, f
<1> QED
  BY <1>1, <1>3, <1>4

\* A unit of a string's inside, and of the text it is in.
LEMMA UnitWithin ==
    ASSUME NEW s \in Seq(Byte), NEW a \in Nat, NEW z \in Nat, a <= z, z <= Len(s),
           NEW i \in 1..(z - a), NEW j \in i..(z - a)
    PROVE  SubSeq(SubSeq(s, a + 1, z), i, j) \in AllOfUnit <=> UnitAt(s, a + i - 1, a + j)
<1> DEFINE u == SubSeq(s, a + 1, z)  x == i - 1  m == a + x  e == a + j
<1>1. x \in Nat /\ j \in Nat /\ x + 1 = i /\ x <= j /\ j <= z - a /\ m \in Nat /\ e \in Nat /\ m < e /\ e <= Len(s) /\ m = a + i - 1
  OBVIOUS
<1>2. SubSeq(u, x + 1, j) = SubSeq(s, m + 1, e)
  BY <1>1, SubSlice
<1>3. u \in Seq(Byte) /\ Len(u) = z - a /\ i \in 1..Len(u) /\ j \in i..Len(u)
  BY SliceIs
<1> HIDE DEF u, x, m, e
<1>4. SubSeq(u, i, j) \in Seq(Byte)
  BY <1>3, PartIn
<1>5. IsUnit(SubSeq(s, m + 1, e)) <=> UnitAt(s, m, e)
  BY <1>1, UnitHere
<1> QED
  BY <1>1, <1>2, <1>4, <1>5 DEF AllOfUnit, u, e

\* A unit goes on for one to six bytes.
LEMMA UnitLength == ASSUME NEW s, NEW m \in Nat, NEW e, UnitAt(s, m, e)
                    PROVE  e \in Nat /\ m < e /\ e <= m + 6
BY DEF UnitAt, CharAt

\* The inside of a string splits into units where it can be cut into them.
LEMMA CutsHere ==
    ASSUME NEW s \in Seq(Byte), NEW from \in Nat, NEW to \in Nat, from + 2 <= to, to <= Len(s)
    PROVE  Units(SubSeq(s, (from + 1) + 1, to - 1), IsUnit).ok <=> \E B : Cuts(s, from, to - 1, B)
<1> DEFINE a == from + 1  z == to - 1  u == SubSeq(s, a + 1, z)  n == z - a
<1>1. a \in Nat /\ z \in Nat /\ a <= z /\ z <= Len(s) /\ n \in Nat /\ from + n + 1 = z /\ a = from + 1
  OBVIOUS
<1>2. u \in Seq(Byte) /\ Len(u) = n
  BY SliceIs
<1>3. PICK f : AllUnits(f, u, AllOfUnit, 1) /\ Units(u, IsUnit) = f[1]
  BY <1>2, UnitsAre
<1> HIDE DEF u, a, z, n
<1>4. f[n + 1].ok
  <2>1. f[n + 1] = [ok |-> TRUE, list |-> <<>>]
    BY <1>1, <1>2, <1>3 DEF AllUnits, UnitsFrom
  <2> QED
    BY <2>1
<1>5. ASSUME NEW i \in 1..n PROVE f[i].ok <=> \E j \in i..n : UnitAt(s, a + i - 1, a + j) /\ f[j + 1].ok
  <2>0. i \in 1..Len(u) /\ i \in 1..(Len(u) + 1) /\ i # Len(u) + 1
    BY <1>1, <1>2
  <2>1. f[i] = IF UnitEnds(f, u, AllOfUnit, i) = {} THEN [ok |-> FALSE, list |-> <<>>]
               ELSE [ok |-> TRUE, list |-> <<SubSeq(u, i, Min(UnitEnds(f, u, AllOfUnit, i)))>> \o f[Min(UnitEnds(f, u, AllOfUnit, i)) + 1].list]
    BY <1>3, <2>0 DEF AllUnits, UnitsFrom
  <2>2. f[i].ok <=> UnitEnds(f, u, AllOfUnit, i) # {}
    BY <2>1
  <2>3. ASSUME NEW j \in i..n PROVE SubSeq(u, i, j) \in AllOfUnit <=> UnitAt(s, a + i - 1, a + j)
    BY <1>1, UnitWithin DEF u, n
  <2>4. ASSUME NEW j \in UnitEnds(f, u, AllOfUnit, i) PROVE j \in i..n /\ UnitAt(s, a + i - 1, a + j) /\ f[j + 1].ok
    <3>1. j \in i..n
      BY <1>2, <2>0, UnitEndsIn
    <3>2. SubSeq(u, i, j) \in AllOfUnit /\ f[j + 1].ok
      BY <2>4 DEF UnitEnds
    <3> QED
      BY <2>3, <3>1, <3>2
  <2>5. ASSUME NEW j \in i..n, UnitAt(s, a + i - 1, a + j), f[j + 1].ok PROVE j \in UnitEnds(f, u, AllOfUnit, i)
    <3>1. a + i - 1 \in Nat
      BY <1>1
    <3>2. a + j <= (a + i - 1) + 6
      BY <2>5, <3>1, UnitLength
    <3>3. j <= i + 5
      BY <1>1, <3>2
    <3>4. SubSeq(u, i, j) \in AllOfUnit
      BY <2>3, <2>5
    <3> QED
      BY <1>2, <2>0, <2>5, <3>3, <3>4, UnitEndsIn
  <2> QED
    BY <2>2, <2>4, <2>5
<1>6. ASSUME f[1].ok PROVE \E B : Cuts(s, from, z, B)
  <2> DEFINE B == {m \in a..z : f[m - from].ok}
  <2>1. a \in B /\ z \in B /\ B \subseteq a..z
    <3>1. a - from = 1 /\ z - from = n + 1 /\ a \in a..z /\ z \in a..z
      BY <1>1
    <3> QED
      BY <1>4, <1>6, <3>1
  <2>2. ASSUME NEW b \in B \ {z} PROVE \E e \in B : UnitAt(s, b, e)
    <3>1. b - from \in 1..n /\ a + (b - from) - 1 = b /\ f[b - from].ok
      BY <1>1
    <3>2. PICK j \in (b - from)..n : UnitAt(s, a + (b - from) - 1, a + j) /\ f[j + 1].ok
      BY <1>5, <3>1
    <3>3. a + j \in a..z /\ (a + j) - from = j + 1
      BY <1>1, <3>1
    <3>4. a + j \in B
      BY <3>2, <3>3
    <3> QED
      BY <3>1, <3>2, <3>4
  <2> HIDE DEF B
  <2>3. Cuts(s, from, z, B)
    BY <2>1, <2>2 DEF Cuts, a
  <2> QED
    BY <2>3
<1>7. ASSUME NEW B, Cuts(s, from, z, B) PROVE f[1].ok
  <2>1. B \subseteq a..z /\ a \in B /\ z \in B /\ \A b \in B \ {z} : \E e \in B : UnitAt(s, b, e)
    BY <1>7 DEF Cuts, a
  <2> DEFINE N == {k \in Nat : \A b \in B : z - b <= k => f[b - from].ok}
  <2>2. 0 \in N
    <3> SUFFICES ASSUME NEW b \in B, z - b <= 0 PROVE f[b - from].ok
      OBVIOUS
    <3>1. b - from = n + 1
      BY <1>1, <2>1
    <3> QED
      BY <1>4, <3>1
  <2>3. ASSUME NEW k \in Nat, k \in N PROVE k + 1 \in N
    <3> SUFFICES ASSUME NEW b \in B, z - b <= k + 1 PROVE f[b - from].ok
      OBVIOUS
    <3>1. CASE b = z
      <4>1. b - from = n + 1
        BY <1>1, <3>1
      <4> QED
        BY <1>4, <4>1
    <3>2. CASE b # z
      <4>1. PICK e \in B : UnitAt(s, b, e)
        BY <2>1, <3>2
      <4>2. b \in Nat /\ b \in a..z /\ e \in a..z
        BY <1>1, <2>1
      <4>3. b < e
        BY <4>1, <4>2, UnitLength
      <4>4. z - e <= k
        BY <1>1, <4>2, <4>3
      <4>5. f[e - from].ok
        BY <2>3, <4>4
      <4> DEFINE i == b - from  j == e - from - 1
      <4>6. i \in 1..n /\ j \in i..n /\ a + i - 1 = b /\ a + j = e /\ j + 1 = e - from
        BY <1>1, <3>2, <4>2, <4>3
      <4> HIDE DEF i, j
      <4>7. f[i].ok
        BY <1>5, <4>1, <4>5, <4>6
      <4> QED
        BY <4>7 DEF i
    <3> QED
      BY <3>1, <3>2
  <2>4. n \in N
    <3>1. Nat \subseteq N
      <4> HIDE DEF N
      <4> QED
        BY <2>2, <2>3, CountingUp
    <3> QED
      BY <1>1, <3>1
  <2>5. a - from = 1 /\ z - a <= n
    BY <1>1 DEF n
  <2> QED
    BY <2>1, <2>4, <2>5
<1>8. f[1].ok <=> \E B : Cuts(s, from, z, B)
  BY <1>6, <1>7
<1> QED
  BY <1>3, <1>8 DEF u, a, z

\* A string of a text.
LEMMA StringHere ==
    ASSUME NEW s \in Seq(Byte), NEW from \in Nat, NEW to \in Nat, from < to, to <= Len(s)
    PROVE  IsString(SubSeq(s, from + 1, to)) <=> \E B : StringTo(s, from, to, B)
<1> DEFINE v == SubSeq(s, from + 1, to)  n == to - from
<1>1. v \in Seq(Byte) /\ Len(v) = n /\ (\A k \in 1..n : v[k] = s[from + k]) /\ n \in Nat
  BY SliceIs
<1>2. CASE n < 2
  <2>1. ~(from + 2 <= to)
    BY <1>2
  <2> HIDE DEF v, n
  <2>2. ~IsString(v)
    BY <1>1, <1>2 DEF IsString
  <2> QED
    BY <2>1, <2>2 DEF StringTo, v
<1>3. CASE n >= 2
  <2> DEFINE y == n - 1  w == SubSeq(v, 1 + 1, y)
  <2>1. w = SubSeq(s, (from + 1) + 1, from + y)
    BY <1>3, SubSlice
  <2>2. from + y = to - 1 /\ from + 2 <= to /\ y = n - 1 /\ 1 \in 1..n /\ n \in 1..n /\ from + n = to
    BY <1>3
  <2>3. w = SubSeq(s, (from + 1) + 1, to - 1)
    BY <2>1, <2>2
  <2>4. Units(w, IsUnit).ok <=> \E B : Cuts(s, from, to - 1, B)
    BY <2>2, <2>3, CutsHere
  <2> HIDE DEF v, n, w
  <2>5. v[1] = s[from + 1] /\ v[Len(v)] = s[to]
    BY <1>1, <2>2
  <2>6. Inside(v) = w
    BY <1>1, <2>2 DEF Inside, w
  <2>7. IsString(v) <=> s[from + 1] = Quote /\ s[to] = Quote /\ Units(w, IsUnit).ok
    <3>1. Len(v) >= 2
      BY <1>1, <1>3
    <3> QED
      BY <2>5, <2>6, <3>1 DEF IsString
  <2> QED
    BY <2>2, <2>4, <2>7 DEF StringTo, v
<1> QED
  BY <1>1, <1>2, <1>3

\* The words of the grammar.
WordNames == {"begin_array", "end_array", "begin_object", "end_object", "name_separator", "value_separator",
              "literal_true", "literal_false", "literal_null", "end_of_input"}

\* The bytes of each.
LEMMA FixedIs ==
    /\ Words = WordNames
    /\ Fixed["begin_array"] = <<91>> /\ Fixed["end_array"] = <<93>> /\ Fixed["begin_object"] = <<123>>
    /\ Fixed["end_object"] = <<125>> /\ Fixed["name_separator"] = <<58>> /\ Fixed["value_separator"] = <<44>>
    /\ Fixed["literal_true"] = <<116, 114, 117, 101>> /\ Fixed["literal_false"] = <<102, 97, 108, 115, 101>>
    /\ Fixed["literal_null"] = <<110, 117, 108, 108>> /\ Fixed["end_of_input"] = <<0>>
BY DEF Words, Fixed, WordNames

\* They have bytes.
LEMMA WordsAre == \A t \in Words : Fixed[t] \in Seq(Byte) /\ Len(Fixed[t]) \in 1..5
<1> SUFFICES ASSUME NEW t \in WordNames PROVE Fixed[t] \in Seq(Byte) /\ Len(Fixed[t]) \in 1..5
  BY FixedIs
<1>1. <<91>> \in Seq(Byte) /\ <<93>> \in Seq(Byte) /\ <<123>> \in Seq(Byte) /\ <<125>> \in Seq(Byte)
      /\ <<58>> \in Seq(Byte) /\ <<44>> \in Seq(Byte) /\ <<0>> \in Seq(Byte)
      /\ Len(<<91>>) = 1 /\ Len(<<93>>) = 1 /\ Len(<<123>>) = 1 /\ Len(<<125>>) = 1
      /\ Len(<<58>>) = 1 /\ Len(<<44>>) = 1 /\ Len(<<0>>) = 1 /\ 1 \in 1..5
  BY DEF Byte
<1>2. <<116, 114, 117, 101>> \in Seq(Byte) /\ <<102, 97, 108, 115, 101>> \in Seq(Byte) /\ <<110, 117, 108, 108>> \in Seq(Byte)
  BY DEF Byte
<1>3. t \in {"begin_array", "end_array", "begin_object", "end_object"} \/ t \in {"name_separator", "value_separator", "end_of_input"}
      \/ t = "literal_true" \/ t = "literal_false" \/ t = "literal_null"
  BY DEF WordNames
<1>4. CASE t \in {"begin_array", "end_array", "begin_object", "end_object"}
  <2>1. CASE t = "begin_array"
    BY <1>1, <2>1, FixedIs
  <2>2. CASE t = "end_array"
    BY <1>1, <2>2, FixedIs
  <2>3. CASE t = "begin_object"
    BY <1>1, <2>3, FixedIs
  <2>4. CASE t = "end_object"
    BY <1>1, <2>4, FixedIs
  <2> QED
    BY <1>4, <2>1, <2>2, <2>3, <2>4
<1>5. CASE t \in {"name_separator", "value_separator", "end_of_input"}
  <2>1. CASE t = "name_separator"
    BY <1>1, <2>1, FixedIs
  <2>2. CASE t = "value_separator"
    BY <1>1, <2>2, FixedIs
  <2>3. CASE t = "end_of_input"
    BY <1>1, <2>3, FixedIs
  <2> QED
    BY <1>5, <2>1, <2>2, <2>3
<1>6. CASE t = "literal_true"
  BY <1>2, <1>6, FixedIs
<1>7. CASE t = "literal_false"
  BY <1>2, <1>7, FixedIs
<1>8. CASE t = "literal_null"
  BY <1>2, <1>8, FixedIs
<1> QED
  BY <1>3, <1>4, <1>5, <1>6, <1>7, <1>8

\* A word of a text.
LEMMA WordHere ==
    ASSUME NEW s \in Seq(Byte), NEW from \in Nat, NEW to \in Nat, from < to, to <= Len(s), NEW t \in Words
    PROVE  SubSeq(s, from + 1, to) = Fixed[t] <=> to = from + Len(Fixed[t]) /\ WordTo(s, from, to, Fixed[t])
<1> DEFINE v == SubSeq(s, from + 1, to)  n == to - from  w == Fixed[t]
<1>1. v \in Seq(Byte) /\ Len(v) = n /\ (\A k \in 1..n : v[k] = s[from + k]) /\ n \in Nat
  BY SliceIs
<1>2. w \in Seq(Byte) /\ Len(w) \in Nat
  BY WordsAre
<1> HIDE DEF v, w
<1>3. ASSUME v = w PROVE to = from + Len(w) /\ WordTo(s, from, to, w)
  <2>1. Len(w) = n /\ to = from + n
    BY <1>1, <1>3
  <2> QED
    BY <1>1, <1>3, <2>1 DEF WordTo
<1>4. ASSUME to = from + Len(w), WordTo(s, from, to, w) PROVE v = w
  <2>1. Len(w) = n
    BY <1>2, <1>4
  <2>2. \A k \in 1..n : v[k] = w[k]
    BY <1>1, <1>4 DEF WordTo
  <2> QED
    BY <1>1, <1>2, <2>1, <2>2, SeqEqual
<1> QED
  BY <1>3, <1>4 DEF v, w

-----------------------------------------------------------------------------
(* The automaton: where each label leads.                                  *)

\* An edge that is the only one for a byte is taken.
LEMMA EdgeTaken ==
    ASSUME NEW edges, NEW b, NEW o, NEW e \in edges, b \in e.bytes,
           \A f \in edges : b \in f.bytes => f.to = e.to
    PROVE  Goto(edges, b, o) = e.to
BY DEF Goto

\* Without an edge for a byte the others' way is taken.
LEMMA NoEdge == ASSUME NEW edges, NEW b, NEW o, \A f \in edges : b \notin f.bytes
                PROVE  Goto(edges, b, o) = o
BY DEF Goto

\* Where one edge leads.
LEMMA GotoOne == ASSUME NEW B, NEW t, NEW b, NEW o
                 PROVE  Goto({Edge(B, t)}, b, o) = IF b \in B THEN t ELSE o
<1> DEFINE S == {Edge(B, t)}
<1>1. Edge(B, t) \in S /\ \A f \in S : f.bytes = B /\ f.to = t
  BY EdgeIs
<1> HIDE DEF S
<1>2. Goto(S, b, o) = IF b \in B THEN t ELSE o
  BY <1>1, EdgeTaken, NoEdge
<1> QED
  BY <1>2 DEF S

\* Where two edges lead.
LEMMA GotoTwo == ASSUME NEW B, NEW t, NEW C, NEW u, NEW b, NEW o, ~(b \in B /\ b \in C)
                 PROVE  Goto({Edge(B, t), Edge(C, u)}, b, o) = IF b \in B THEN t ELSE IF b \in C THEN u ELSE o
<1> DEFINE S == {Edge(B, t), Edge(C, u)}
<1>1. Edge(B, t) \in S /\ Edge(C, u) \in S /\ Edge(B, t).bytes = B /\ Edge(B, t).to = t
      /\ Edge(C, u).bytes = C /\ Edge(C, u).to = u
      /\ \A f \in S : (f.bytes = B /\ f.to = t) \/ (f.bytes = C /\ f.to = u)
  BY EdgeIs
<1> HIDE DEF S
<1>2. CASE b \in B
  BY <1>1, <1>2, EdgeTaken DEF S
<1>3. CASE b \in C
  BY <1>1, <1>3, EdgeTaken DEF S
<1>4. CASE b \notin B /\ b \notin C
  BY <1>1, <1>4, NoEdge DEF S
<1> QED
  BY <1>2, <1>3, <1>4

\* Where three edges lead.
LEMMA GotoThree ==
    ASSUME NEW B, NEW t, NEW C, NEW u, NEW D, NEW v, NEW b, NEW o,
           ~(b \in B /\ b \in C), ~(b \in B /\ b \in D), ~(b \in C /\ b \in D)
    PROVE  Goto({Edge(B, t), Edge(C, u), Edge(D, v)}, b, o) =
             IF b \in B THEN t ELSE IF b \in C THEN u ELSE IF b \in D THEN v ELSE o
<1> DEFINE S == {Edge(B, t), Edge(C, u), Edge(D, v)}
<1>1. Edge(B, t) \in S /\ Edge(C, u) \in S /\ Edge(D, v) \in S /\ Edge(B, t).bytes = B /\ Edge(B, t).to = t
      /\ Edge(C, u).bytes = C /\ Edge(C, u).to = u /\ Edge(D, v).bytes = D /\ Edge(D, v).to = v
      /\ \A f \in S : (f.bytes = B /\ f.to = t) \/ (f.bytes = C /\ f.to = u) \/ (f.bytes = D /\ f.to = v)
  BY EdgeIs
<1> HIDE DEF S
<1>2. CASE b \in B
  BY <1>1, <1>2, EdgeTaken DEF S
<1>3. CASE b \in C
  BY <1>1, <1>3, EdgeTaken DEF S
<1>5. CASE b \in D
  BY <1>1, <1>5, EdgeTaken DEF S
<1>4. CASE b \notin B /\ b \notin C /\ b \notin D
  BY <1>1, <1>4, NoEdge DEF S
<1> QED
  BY <1>2, <1>3, <1>4, <1>5

\* The next label behind a label and a byte, and the first of a token.
To(l, b) == Goto(Edges[l], b, Otherwise(l))
First(b) == Goto(Dispatch, b, "L4")

\* Bytes that begin a character of a string, by the label they lead to.
Plain == 32..127 \ {Quote, Backslash}
StringStep(b, o) ==
    IF b \in Plain THEN "L30" ELSE IF b = Quote THEN "L33" ELSE IF b = Backslash THEN "L35"
    ELSE IF b \in 194..223 THEN "L36" ELSE IF b = 224 THEN "L37" ELSE IF b \in 225..239 \ {237} THEN "L38"
    ELSE IF b = 237 THEN "L39" ELSE IF b = 240 THEN "L40" ELSE IF b \in 241..243 THEN "L41"
    ELSE IF b = 244 THEN "L42" ELSE o

\* StringBody leads so.
LEMMA StringSteps == ASSUME NEW b \in Byte, NEW o PROVE Goto(StringBody, b, o) = StringStep(b, o)
<1> DEFINE S == StringBody
<1> DEFINE e0 == Edge(Plain, "L30")
           e1 == Edge({Quote}, "L33")
           e2 == Edge({Backslash}, "L35")
           e3 == Edge(194..223, "L36")
           e4 == Edge({224}, "L37")
           e5 == Edge(225..239 \ {237}, "L38")
           e6 == Edge({237}, "L39")
           e7 == Edge({240}, "L40")
           e8 == Edge(241..243, "L41")
           e9 == Edge({244}, "L42")
<1>a0. e0.bytes = (Plain) /\ e0.to = "L30"
  BY EdgeIs
<1>a1. e1.bytes = ({Quote}) /\ e1.to = "L33"
  BY EdgeIs
<1>a2. e2.bytes = ({Backslash}) /\ e2.to = "L35"
  BY EdgeIs
<1>a3. e3.bytes = (194..223) /\ e3.to = "L36"
  BY EdgeIs
<1>a4. e4.bytes = ({224}) /\ e4.to = "L37"
  BY EdgeIs
<1>a5. e5.bytes = (225..239 \ {237}) /\ e5.to = "L38"
  BY EdgeIs
<1>a6. e6.bytes = ({237}) /\ e6.to = "L39"
  BY EdgeIs
<1>a7. e7.bytes = ({240}) /\ e7.to = "L40"
  BY EdgeIs
<1>a8. e8.bytes = (241..243) /\ e8.to = "L41"
  BY EdgeIs
<1>a9. e9.bytes = ({244}) /\ e9.to = "L42"
  BY EdgeIs
<1>s. S = {e0, e1, e2, e3, e4, e5, e6, e7, e8, e9}
  BY DEF StringBody, Plain
<1> HIDE DEF S, e0, e1, e2, e3, e4, e5, e6, e7, e8, e9
<1>1. ASSUME NEW f \in S, b \in f.bytes PROVE f.to = StringStep(b, o)
  <2>0. CASE f = e0
    BY <1>1, <1>a0, <2>0 DEF StringStep, Plain, Byte, Quote, Backslash
  <2>1. CASE f = e1
    BY <1>1, <1>a1, <2>1 DEF StringStep, Plain, Byte, Quote, Backslash
  <2>2. CASE f = e2
    BY <1>1, <1>a2, <2>2 DEF StringStep, Plain, Byte, Quote, Backslash
  <2>3. CASE f = e3
    BY <1>1, <1>a3, <2>3 DEF StringStep, Plain, Byte, Quote, Backslash
  <2>4. CASE f = e4
    BY <1>1, <1>a4, <2>4 DEF StringStep, Plain, Byte, Quote, Backslash
  <2>5. CASE f = e5
    BY <1>1, <1>a5, <2>5 DEF StringStep, Plain, Byte, Quote, Backslash
  <2>6. CASE f = e6
    BY <1>1, <1>a6, <2>6 DEF StringStep, Plain, Byte, Quote, Backslash
  <2>7. CASE f = e7
    BY <1>1, <1>a7, <2>7 DEF StringStep, Plain, Byte, Quote, Backslash
  <2>8. CASE f = e8
    BY <1>1, <1>a8, <2>8 DEF StringStep, Plain, Byte, Quote, Backslash
  <2>9. CASE f = e9
    BY <1>1, <1>a9, <2>9 DEF StringStep, Plain, Byte, Quote, Backslash
  <2> QED
    BY <1>s, <2>0, <2>1, <2>2, <2>3, <2>4, <2>5, <2>6, <2>7, <2>8, <2>9
<1>2. /\ \E f \in S : f.to = "L30" /\ f.bytes = Plain
      /\ \E f \in S : f.to = "L33" /\ f.bytes = {Quote}
      /\ \E f \in S : f.to = "L35" /\ f.bytes = {Backslash}
      /\ \E f \in S : f.to = "L36" /\ f.bytes = 194..223
      /\ \E f \in S : f.to = "L37" /\ f.bytes = {224}
      /\ \E f \in S : f.to = "L38" /\ f.bytes = 225..239 \ {237}
      /\ \E f \in S : f.to = "L39" /\ f.bytes = {237}
      /\ \E f \in S : f.to = "L40" /\ f.bytes = {240}
      /\ \E f \in S : f.to = "L41" /\ f.bytes = 241..243
      /\ \E f \in S : f.to = "L42" /\ f.bytes = {244}
  BY <1>s, <1>a0, <1>a1, <1>a2, <1>a3, <1>a4, <1>a5, <1>a6, <1>a7, <1>a8, <1>a9
<1>4. CASE \E f \in S : b \in f.bytes
  BY <1>1, <1>4, EdgeTaken DEF S
<1>5. CASE \A f \in S : b \notin f.bytes
  <2>1. b \notin Plain /\ b # Quote /\ b # Backslash /\ b \notin 194..223 /\ b # 224 /\ b \notin 225..239 \ {237}
        /\ b # 237 /\ b # 240 /\ b \notin 241..243 /\ b # 244
    BY <1>2, <1>5
  <2>2. StringStep(b, o) = o
    BY <2>1 DEF StringStep
  <2> QED
    BY <1>5, <2>2, NoEdge DEF S
<1> QED
  BY <1>4, <1>5

\* The label that the first byte of a token leads to.
FirstStep(b) ==
    IF b = 0 THEN "L2" ELSE IF b \in White THEN "L6" ELSE IF b = Quote THEN "L9"
    ELSE IF b = 44 THEN "L10" ELSE IF b = 45 THEN "L12" ELSE IF b = 48 THEN "L13"
    ELSE IF b \in 49..57 THEN "L15" ELSE IF b = 58 THEN "L17" ELSE IF b = 91 THEN "L19"
    ELSE IF b = 93 THEN "L21" ELSE IF b = 102 THEN "L23" ELSE IF b = 110 THEN "L24"
    ELSE IF b = 116 THEN "L25" ELSE IF b = 123 THEN "L26" ELSE IF b = 125 THEN "L28" ELSE "L4"

\* Dispatch leads so.
LEMMA FirstSteps == ASSUME NEW b \in Byte PROVE First(b) = FirstStep(b)
<1> DEFINE S == Dispatch
           e0 == Edge({0}, "L2")
           e1 == Edge(White, "L6")
           e2 == Edge({Quote}, "L9")
           e3 == Edge({44}, "L10")
           e4 == Edge({45}, "L12")
           e5 == Edge({48}, "L13")
           e6 == Edge(49..57, "L15")
           e7 == Edge({58}, "L17")
           e8 == Edge({91}, "L19")
           e9 == Edge({93}, "L21")
           e10 == Edge({102}, "L23")
           e11 == Edge({110}, "L24")
           e12 == Edge({116}, "L25")
           e13 == Edge({123}, "L26")
           e14 == Edge({125}, "L28")
<1>a0. e0.bytes = ({0}) /\ e0.to = "L2"
  BY EdgeIs
<1>a1. e1.bytes = (White) /\ e1.to = "L6"
  BY EdgeIs
<1>a2. e2.bytes = ({Quote}) /\ e2.to = "L9"
  BY EdgeIs
<1>a3. e3.bytes = ({44}) /\ e3.to = "L10"
  BY EdgeIs
<1>a4. e4.bytes = ({45}) /\ e4.to = "L12"
  BY EdgeIs
<1>a5. e5.bytes = ({48}) /\ e5.to = "L13"
  BY EdgeIs
<1>a6. e6.bytes = (49..57) /\ e6.to = "L15"
  BY EdgeIs
<1>a7. e7.bytes = ({58}) /\ e7.to = "L17"
  BY EdgeIs
<1>a8. e8.bytes = ({91}) /\ e8.to = "L19"
  BY EdgeIs
<1>a9. e9.bytes = ({93}) /\ e9.to = "L21"
  BY EdgeIs
<1>a10. e10.bytes = ({102}) /\ e10.to = "L23"
  BY EdgeIs
<1>a11. e11.bytes = ({110}) /\ e11.to = "L24"
  BY EdgeIs
<1>a12. e12.bytes = ({116}) /\ e12.to = "L25"
  BY EdgeIs
<1>a13. e13.bytes = ({123}) /\ e13.to = "L26"
  BY EdgeIs
<1>a14. e14.bytes = ({125}) /\ e14.to = "L28"
  BY EdgeIs
<1>s. S = {e0, e1, e2, e3, e4, e5, e6, e7, e8, e9, e10, e11, e12, e13, e14}
  BY DEF Dispatch
<1> HIDE DEF S, e0, e1, e2, e3, e4, e5, e6, e7, e8, e9, e10, e11, e12, e13, e14
<1>1. ASSUME NEW f \in S, b \in f.bytes PROVE f.to = FirstStep(b)
  <2>0. CASE f = e0
    BY <1>1, <1>a0, <2>0 DEF FirstStep, Byte, Quote, White
  <2>1. CASE f = e1
    BY <1>1, <1>a1, <2>1 DEF FirstStep, Byte, Quote, White
  <2>2. CASE f = e2
    BY <1>1, <1>a2, <2>2 DEF FirstStep, Byte, Quote, White
  <2>3. CASE f = e3
    BY <1>1, <1>a3, <2>3 DEF FirstStep, Byte, Quote, White
  <2>4. CASE f = e4
    BY <1>1, <1>a4, <2>4 DEF FirstStep, Byte, Quote, White
  <2>5. CASE f = e5
    BY <1>1, <1>a5, <2>5 DEF FirstStep, Byte, Quote, White
  <2>6. CASE f = e6
    BY <1>1, <1>a6, <2>6 DEF FirstStep, Byte, Quote, White
  <2>7. CASE f = e7
    BY <1>1, <1>a7, <2>7 DEF FirstStep, Byte, Quote, White
  <2>8. CASE f = e8
    BY <1>1, <1>a8, <2>8 DEF FirstStep, Byte, Quote, White
  <2>9. CASE f = e9
    BY <1>1, <1>a9, <2>9 DEF FirstStep, Byte, Quote, White
  <2>10. CASE f = e10
    BY <1>1, <1>a10, <2>10 DEF FirstStep, Byte, Quote, White
  <2>11. CASE f = e11
    BY <1>1, <1>a11, <2>11 DEF FirstStep, Byte, Quote, White
  <2>12. CASE f = e12
    BY <1>1, <1>a12, <2>12 DEF FirstStep, Byte, Quote, White
  <2>13. CASE f = e13
    BY <1>1, <1>a13, <2>13 DEF FirstStep, Byte, Quote, White
  <2>14. CASE f = e14
    BY <1>1, <1>a14, <2>14 DEF FirstStep, Byte, Quote, White
  <2> QED
    BY <1>s, <2>0, <2>1, <2>2, <2>3, <2>4, <2>5, <2>6, <2>7, <2>8, <2>9, <2>10, <2>11, <2>12, <2>13, <2>14
<1>2. /\ \E f \in S : f.bytes = ({0})
      /\ \E f \in S : f.bytes = (White)
      /\ \E f \in S : f.bytes = ({Quote})
      /\ \E f \in S : f.bytes = ({44})
      /\ \E f \in S : f.bytes = ({45})
      /\ \E f \in S : f.bytes = ({48})
      /\ \E f \in S : f.bytes = (49..57)
      /\ \E f \in S : f.bytes = ({58})
      /\ \E f \in S : f.bytes = ({91})
      /\ \E f \in S : f.bytes = ({93})
      /\ \E f \in S : f.bytes = ({102})
      /\ \E f \in S : f.bytes = ({110})
      /\ \E f \in S : f.bytes = ({116})
      /\ \E f \in S : f.bytes = ({123})
      /\ \E f \in S : f.bytes = ({125})
  BY <1>s, <1>a0, <1>a1, <1>a2, <1>a3, <1>a4, <1>a5, <1>a6, <1>a7, <1>a8, <1>a9, <1>a10, <1>a11, <1>a12, <1>a13, <1>a14
<1>3. CASE \E f \in S : b \in f.bytes
  BY <1>1, <1>3, EdgeTaken DEF S, First
<1>4. CASE \A f \in S : b \notin f.bytes
  <2>1. /\ b \notin ({0})
        /\ b \notin (White)
        /\ b \notin ({Quote})
        /\ b \notin ({44})
        /\ b \notin ({45})
        /\ b \notin ({48})
        /\ b \notin (49..57)
        /\ b \notin ({58})
        /\ b \notin ({91})
        /\ b \notin ({93})
        /\ b \notin ({102})
        /\ b \notin ({110})
        /\ b \notin ({116})
        /\ b \notin ({123})
        /\ b \notin ({125})
    BY <1>2, <1>4
  <2>2. FirstStep(b) = "L4"
    BY <2>1 DEF FirstStep
  <2> QED
    BY <1>4, <2>2, NoEdge DEF S, First
<1> QED
  BY <1>3, <1>4

\* Where scan goes from its labels.
LEMMA StringGoes == ASSUME NEW b \in Byte
                    PROVE  To("L9", b) = StringStep(b, "L5") /\ To("L30", b) = StringStep(b, "L32")
<1>1. Edges["L9"] = StringBody /\ Edges["L30"] = StringBody
  BY EdgesAre
<1>2. Otherwise("L9") = "L5" /\ Otherwise("L30") = "L32"
  BY DEF Otherwise
<1> QED
  BY <1>1, <1>2, StringSteps DEF To

\* Between tokens.
LEMMA WhiteGoes ==
    ASSUME NEW b
    PROVE  /\ To("L6", b) = IF b \in White THEN "L6" ELSE "scan"
<1>1. To("L6", b) = IF b \in White THEN "L6" ELSE "scan"
  <2>1. Edges["L6"] = {Edge(White, "L6")}
    BY EdgesAre DEF White
  <2>2. Otherwise("L6") = "scan"
    BY DEF Otherwise
  <2> QED
    BY <2>1, <2>2, GotoOne DEF To
<1> QED
  BY <1>1

\* Behind a backslash.
LEMMA EscapeGoes ==
    ASSUME NEW b
    PROVE  /\ To("L35", b) = IF b \in Simple THEN "L30" ELSE IF b = 117 THEN "L48" ELSE "L32"
<1>1. To("L35", b) = IF b \in Simple THEN "L30" ELSE IF b \in {117} THEN "L48" ELSE "L32"
  <2>1. Edges["L35"] = {Edge(Simple, "L30"), Edge({117}, "L48")}
    BY EdgesAre DEF Escape, Simple
  <2>2. Otherwise("L35") = "L32"
    BY DEF Otherwise
  <2>3. ~(b \in Simple /\ b \in {117})
    BY DEF Digit, Simple, Quote, Backslash
  <2> QED
    BY <2>1, <2>2, <2>3, GotoTwo DEF To
<1> QED
  BY <1>1

\* Behind a lead byte.
LEMMA ContinuationGoes ==
    ASSUME NEW b
    PROVE  /\ To("L36", b) = IF b \in Tail8 THEN "L30" ELSE "L32"
           /\ To("L37", b) = IF b \in 160..191 THEN "L36" ELSE "L32"
           /\ To("L38", b) = IF b \in Tail8 THEN "L36" ELSE "L32"
           /\ To("L39", b) = IF b \in 128..159 THEN "L36" ELSE "L32"
           /\ To("L40", b) = IF b \in 144..191 THEN "L38" ELSE "L32"
           /\ To("L41", b) = IF b \in Tail8 THEN "L38" ELSE "L32"
           /\ To("L42", b) = IF b \in 128..143 THEN "L38" ELSE "L32"
<1>1. To("L36", b) = IF b \in Tail8 THEN "L30" ELSE "L32"
  <2>1. Edges["L36"] = {Edge(Tail8, "L30")}
    BY EdgesAre DEF Continuation, Continuing, Tail8
  <2>2. Otherwise("L36") = "L32"
    BY DEF Otherwise
  <2> QED
    BY <2>1, <2>2, GotoOne DEF To
<1>2. To("L37", b) = IF b \in 160..191 THEN "L36" ELSE "L32"
  <2>1. Edges["L37"] = {Edge(160..191, "L36")}
    BY EdgesAre DEF Continuation, Continuing, Tail8
  <2>2. Otherwise("L37") = "L32"
    BY DEF Otherwise
  <2> QED
    BY <2>1, <2>2, GotoOne DEF To
<1>3. To("L38", b) = IF b \in Tail8 THEN "L36" ELSE "L32"
  <2>1. Edges["L38"] = {Edge(Tail8, "L36")}
    BY EdgesAre DEF Continuation, Continuing, Tail8
  <2>2. Otherwise("L38") = "L32"
    BY DEF Otherwise
  <2> QED
    BY <2>1, <2>2, GotoOne DEF To
<1>4. To("L39", b) = IF b \in 128..159 THEN "L36" ELSE "L32"
  <2>1. Edges["L39"] = {Edge(128..159, "L36")}
    BY EdgesAre DEF Continuation, Continuing, Tail8
  <2>2. Otherwise("L39") = "L32"
    BY DEF Otherwise
  <2> QED
    BY <2>1, <2>2, GotoOne DEF To
<1>5. To("L40", b) = IF b \in 144..191 THEN "L38" ELSE "L32"
  <2>1. Edges["L40"] = {Edge(144..191, "L38")}
    BY EdgesAre DEF Continuation, Continuing, Tail8
  <2>2. Otherwise("L40") = "L32"
    BY DEF Otherwise
  <2> QED
    BY <2>1, <2>2, GotoOne DEF To
<1>6. To("L41", b) = IF b \in Tail8 THEN "L38" ELSE "L32"
  <2>1. Edges["L41"] = {Edge(Tail8, "L38")}
    BY EdgesAre DEF Continuation, Continuing, Tail8
  <2>2. Otherwise("L41") = "L32"
    BY DEF Otherwise
  <2> QED
    BY <2>1, <2>2, GotoOne DEF To
<1>7. To("L42", b) = IF b \in 128..143 THEN "L38" ELSE "L32"
  <2>1. Edges["L42"] = {Edge(128..143, "L38")}
    BY EdgesAre DEF Continuation, Continuing, Tail8
  <2>2. Otherwise("L42") = "L32"
    BY DEF Otherwise
  <2> QED
    BY <2>1, <2>2, GotoOne DEF To
<1> QED
  BY <1>1, <1>2, <1>3, <1>4, <1>5, <1>6, <1>7

\* In the digits behind a u.
LEMMA HexGoes ==
    ASSUME NEW b
    PROVE  /\ To("L48", b) = IF b \in HexDigit THEN "L57" ELSE "L32"
           /\ To("L57", b) = IF b \in HexDigit THEN "L63" ELSE "L32"
           /\ To("L63", b) = IF b \in HexDigit THEN "L66" ELSE "L32"
           /\ To("L66", b) = IF b \in HexDigit THEN "L30" ELSE "L32"
<1>1. To("L48", b) = IF b \in HexDigit THEN "L57" ELSE "L32"
  <2>1. Edges["L48"] = {Edge(HexDigit, "L57")}
    BY EdgesAre DEF Hex, HexDigits
  <2>2. Otherwise("L48") = "L32"
    BY DEF Otherwise
  <2> QED
    BY <2>1, <2>2, GotoOne DEF To
<1>2. To("L57", b) = IF b \in HexDigit THEN "L63" ELSE "L32"
  <2>1. Edges["L57"] = {Edge(HexDigit, "L63")}
    BY EdgesAre DEF Hex, HexDigits
  <2>2. Otherwise("L57") = "L32"
    BY DEF Otherwise
  <2> QED
    BY <2>1, <2>2, GotoOne DEF To
<1>3. To("L63", b) = IF b \in HexDigit THEN "L66" ELSE "L32"
  <2>1. Edges["L63"] = {Edge(HexDigit, "L66")}
    BY EdgesAre DEF Hex, HexDigits
  <2>2. Otherwise("L63") = "L32"
    BY DEF Otherwise
  <2> QED
    BY <2>1, <2>2, GotoOne DEF To
<1>4. To("L66", b) = IF b \in HexDigit THEN "L30" ELSE "L32"
  <2>1. Edges["L66"] = {Edge(HexDigit, "L30")}
    BY EdgesAre DEF Hex, HexDigits
  <2>2. Otherwise("L66") = "L32"
    BY DEF Otherwise
  <2> QED
    BY <2>1, <2>2, GotoOne DEF To
<1> QED
  BY <1>1, <1>2, <1>3, <1>4

\* In the integer part of a number.
LEMMA IntegerGoes ==
    ASSUME NEW b
    PROVE  /\ To("L12", b) = IF b = 48 THEN "L13" ELSE IF b \in 49..57 THEN "L15" ELSE "L5"
           /\ To("L13", b) = IF b = 46 THEN "L43" ELSE IF b \in {69, 101} THEN "L44" ELSE "L14"
           /\ To("L15", b) = IF b \in Digit THEN "L15" ELSE IF b = 46 THEN "L43" ELSE IF b \in {69, 101} THEN "L44" ELSE "L14"
<1>1. To("L12", b) = IF b \in {48} THEN "L13" ELSE IF b \in 49..57 THEN "L15" ELSE "L5"
  <2>1. Edges["L12"] = {Edge({48}, "L13"), Edge(49..57, "L15")}
    BY EdgesAre DEF Integer, InInteger
  <2>2. Otherwise("L12") = "L5"
    BY DEF Otherwise
  <2>3. ~(b \in {48} /\ b \in 49..57)
    BY DEF Digit, Simple, Quote, Backslash
  <2> QED
    BY <2>1, <2>2, <2>3, GotoTwo DEF To
<1>2. To("L13", b) = IF b \in {46} THEN "L43" ELSE IF b \in {69, 101} THEN "L44" ELSE "L14"
  <2>1. Edges["L13"] = {Edge({46}, "L43"), Edge({69, 101}, "L44")}
    BY EdgesAre DEF Integer, InInteger
  <2>2. Otherwise("L13") = "L14"
    BY DEF Otherwise
  <2>3. ~(b \in {46} /\ b \in {69, 101})
    BY DEF Digit, Simple, Quote, Backslash
  <2> QED
    BY <2>1, <2>2, <2>3, GotoTwo DEF To
<1>3. To("L15", b) = IF b \in Digit THEN "L15" ELSE IF b \in {46} THEN "L43" ELSE IF b \in {69, 101} THEN "L44" ELSE "L14"
  <2>1. Edges["L15"] = {Edge(Digit, "L15"), Edge({46}, "L43"), Edge({69, 101}, "L44")}
    BY EdgesAre DEF Integer, InInteger
  <2>2. Otherwise("L15") = "L14"
    BY DEF Otherwise
  <2>3. ~(b \in Digit /\ b \in {46}) /\ ~(b \in Digit /\ b \in {69, 101}) /\ ~(b \in {46} /\ b \in {69, 101})
    BY DEF Digit, Simple, Quote, Backslash
  <2> QED
    BY <2>1, <2>2, <2>3, GotoThree DEF To
<1> QED
  BY <1>1, <1>2, <1>3

\* In its fraction and in its exponent.
LEMMA ExponentGoes ==
    ASSUME NEW b
    PROVE  /\ To("L43", b) = IF b \in Digit THEN "L49" ELSE "L32"
           /\ To("L44", b) = IF b \in {43, 45} THEN "L51" ELSE IF b \in Digit THEN "L52" ELSE "L32"
           /\ To("L49", b) = IF b \in Digit THEN "L49" ELSE IF b \in {69, 101} THEN "L44" ELSE "L14"
           /\ To("L51", b) = IF b \in Digit THEN "L52" ELSE "L32"
           /\ To("L52", b) = IF b \in Digit THEN "L52" ELSE "L14"
<1>1. To("L43", b) = IF b \in Digit THEN "L49" ELSE "L32"
  <2>1. Edges["L43"] = {Edge(Digit, "L49")}
    BY EdgesAre DEF Exponent, InExponent
  <2>2. Otherwise("L43") = "L32"
    BY DEF Otherwise
  <2> QED
    BY <2>1, <2>2, GotoOne DEF To
<1>2. To("L44", b) = IF b \in {43, 45} THEN "L51" ELSE IF b \in Digit THEN "L52" ELSE "L32"
  <2>1. Edges["L44"] = {Edge({43, 45}, "L51"), Edge(Digit, "L52")}
    BY EdgesAre DEF Exponent, InExponent
  <2>2. Otherwise("L44") = "L32"
    BY DEF Otherwise
  <2>3. ~(b \in {43, 45} /\ b \in Digit)
    BY DEF Digit, Simple, Quote, Backslash
  <2> QED
    BY <2>1, <2>2, <2>3, GotoTwo DEF To
<1>3. To("L49", b) = IF b \in Digit THEN "L49" ELSE IF b \in {69, 101} THEN "L44" ELSE "L14"
  <2>1. Edges["L49"] = {Edge(Digit, "L49"), Edge({69, 101}, "L44")}
    BY EdgesAre DEF Exponent, InExponent
  <2>2. Otherwise("L49") = "L14"
    BY DEF Otherwise
  <2>3. ~(b \in Digit /\ b \in {69, 101})
    BY DEF Digit, Simple, Quote, Backslash
  <2> QED
    BY <2>1, <2>2, <2>3, GotoTwo DEF To
<1>4. To("L51", b) = IF b \in Digit THEN "L52" ELSE "L32"
  <2>1. Edges["L51"] = {Edge(Digit, "L52")}
    BY EdgesAre DEF Exponent, InExponent
  <2>2. Otherwise("L51") = "L32"
    BY DEF Otherwise
  <2> QED
    BY <2>1, <2>2, GotoOne DEF To
<1>5. To("L52", b) = IF b \in Digit THEN "L52" ELSE "L14"
  <2>1. Edges["L52"] = {Edge(Digit, "L52")}
    BY EdgesAre DEF Exponent, InExponent
  <2>2. Otherwise("L52") = "L14"
    BY DEF Otherwise
  <2> QED
    BY <2>1, <2>2, GotoOne DEF To
<1> QED
  BY <1>1, <1>2, <1>3, <1>4, <1>5

\* In the literals.
LEMMA LiteralGoes ==
    ASSUME NEW b
    PROVE  /\ To("L23", b) = IF b = 97 THEN "L45" ELSE "L5"
           /\ To("L45", b) = IF b = 108 THEN "L54" ELSE "L32"
           /\ To("L54", b) = IF b = 115 THEN "L58" ELSE "L32"
           /\ To("L58", b) = IF b = 101 THEN "L64" ELSE "L32"
           /\ To("L24", b) = IF b = 117 THEN "L46" ELSE "L5"
           /\ To("L46", b) = IF b = 108 THEN "L55" ELSE "L32"
           /\ To("L55", b) = IF b = 108 THEN "L59" ELSE "L32"
           /\ To("L25", b) = IF b = 114 THEN "L47" ELSE "L5"
           /\ To("L47", b) = IF b = 117 THEN "L56" ELSE "L32"
           /\ To("L56", b) = IF b = 101 THEN "L61" ELSE "L32"
<1>1. To("L23", b) = IF b \in {97} THEN "L45" ELSE "L5"
  <2>1. Edges["L23"] = {Edge({97}, "L45")}
    BY EdgesAre DEF Literal, InLiteral
  <2>2. Otherwise("L23") = "L5"
    BY DEF Otherwise
  <2>3. Goto({Edge({97}, "L45")}, b, "L5") = IF b \in {97} THEN "L45" ELSE "L5"
    BY GotoOne
  <2> QED
    BY <2>1, <2>2, <2>3 DEF To
<1>2. To("L45", b) = IF b \in {108} THEN "L54" ELSE "L32"
  <2>1. Edges["L45"] = {Edge({108}, "L54")}
    BY EdgesAre DEF Literal, InLiteral
  <2>2. Otherwise("L45") = "L32"
    BY DEF Otherwise
  <2> QED
    BY <2>1, <2>2, GotoOne DEF To
<1>3. To("L54", b) = IF b \in {115} THEN "L58" ELSE "L32"
  <2>1. Edges["L54"] = {Edge({115}, "L58")}
    BY EdgesAre DEF Literal, InLiteral
  <2>2. Otherwise("L54") = "L32"
    BY DEF Otherwise
  <2> QED
    BY <2>1, <2>2, GotoOne DEF To
<1>4. To("L58", b) = IF b \in {101} THEN "L64" ELSE "L32"
  <2>1. Edges["L58"] = {Edge({101}, "L64")}
    BY EdgesAre DEF Literal, InLiteral
  <2>2. Otherwise("L58") = "L32"
    BY DEF Otherwise
  <2> QED
    BY <2>1, <2>2, GotoOne DEF To
<1>5. To("L24", b) = IF b \in {117} THEN "L46" ELSE "L5"
  <2>1. Edges["L24"] = {Edge({117}, "L46")}
    BY EdgesAre DEF Literal, InLiteral
  <2>2. Otherwise("L24") = "L5"
    BY DEF Otherwise
  <2> QED
    BY <2>1, <2>2, GotoOne DEF To
<1>6. To("L46", b) = IF b \in {108} THEN "L55" ELSE "L32"
  <2>1. Edges["L46"] = {Edge({108}, "L55")}
    BY EdgesAre DEF Literal, InLiteral
  <2>2. Otherwise("L46") = "L32"
    BY DEF Otherwise
  <2> QED
    BY <2>1, <2>2, GotoOne DEF To
<1>7. To("L55", b) = IF b \in {108} THEN "L59" ELSE "L32"
  <2>1. Edges["L55"] = {Edge({108}, "L59")}
    BY EdgesAre DEF Literal, InLiteral
  <2>2. Otherwise("L55") = "L32"
    BY DEF Otherwise
  <2> QED
    BY <2>1, <2>2, GotoOne DEF To
<1>8. To("L25", b) = IF b \in {114} THEN "L47" ELSE "L5"
  <2>1. Edges["L25"] = {Edge({114}, "L47")}
    BY EdgesAre DEF Literal, InLiteral
  <2>2. Otherwise("L25") = "L5"
    BY DEF Otherwise
  <2> QED
    BY <2>1, <2>2, GotoOne DEF To
<1>9. To("L47", b) = IF b \in {117} THEN "L56" ELSE "L32"
  <2>1. Edges["L47"] = {Edge({117}, "L56")}
    BY EdgesAre DEF Literal, InLiteral
  <2>2. Otherwise("L47") = "L32"
    BY DEF Otherwise
  <2> QED
    BY <2>1, <2>2, GotoOne DEF To
<1>10. To("L56", b) = IF b \in {101} THEN "L61" ELSE "L32"
  <2>1. Edges["L56"] = {Edge({101}, "L61")}
    BY EdgesAre DEF Literal, InLiteral
  <2>2. Otherwise("L56") = "L32"
    BY DEF Otherwise
  <2> QED
    BY <2>1, <2>2, GotoOne DEF To
<1> QED
  BY <1>1, <1>2, <1>3, <1>4, <1>5, <1>6, <1>7, <1>8, <1>9, <1>10

-----------------------------------------------------------------------------
(* On the way in a token: the label says which tokens may still come.     *)

\* A unit that scan is in goes on to its end.
LEMMA UnitMoves ==
    ASSUME NEW s, NEW m \in Nat, NEW e \in Nat, UnitAt(s, m, e), NEW p \in Nat, m <= p, p < e,
           s[p + 1] \in Byte, NEW l, Partial(l, s, m, p)
    PROVE  IF p + 1 = e THEN To(l, s[p + 1]) = "L30" ELSE Partial(To(l, s[p + 1]), s, m, p + 1)
<1> DEFINE b == s[p + 1]  k == To(l, b)
<1>0. l \in {"L9", "L30"} \/ l = "L35" \/ l \in HexDigits \/ l \in Continuing
  BY DEF Partial, Continuing
<1>1. CASE l \in {"L9", "L30"}
  <2>1. p = m /\ b = s[m + 1] /\ b \in Byte
    BY <1>1 DEF Partial, HexDigits
  <2>2. \E o \in {"L5", "L32"} : k = StringStep(b, o)
    BY <1>1, <2>1, StringGoes
  <2> HIDE DEF b, k
  <2>3. CASE CharAt(s, m, e) /\ b >= 32 /\ b \notin {Quote, Backslash}
    <3>1. CASE e = m + 1 /\ s[m + 1] \in 0..127
      <4>1. k = "L30"
        BY <2>1, <2>2, <2>3, <3>1 DEF StringStep, Plain, Byte
      <4> QED
        BY <2>1, <3>1, <4>1 DEF k, b
    <3>2. CASE e = m + 2 /\ s[m + 1] \in 194..223 /\ s[m + 2] \in Tail8
      <4>1. k = "L36"
        BY <2>1, <2>2, <3>2 DEF StringStep, Plain, Byte, Quote, Backslash
      <4>2. Partial("L36", s, m, p + 1)
        BY <2>1, <3>2 DEF Partial
      <4> QED
        BY <2>1, <3>2, <4>1, <4>2 DEF k, b
    <3>3. CASE e = m + 3 /\ Lead3(s[m + 1], s[m + 2]) /\ s[m + 3] \in Tail8
      <4>1. (b = 224 /\ k = "L37") \/ (b = 237 /\ k = "L39") \/ (b \in 225..239 \ {237} /\ k = "L38")
        BY <2>1, <2>2, <3>3 DEF Lead3, StringStep, Plain, Byte, Quote, Backslash
      <4>2. Partial(k, s, m, p + 1)
        BY <2>1, <4>1 DEF Partial
      <4> QED
        BY <2>1, <3>3, <4>2 DEF k, b
    <3>4. CASE e = m + 4 /\ Lead4(s[m + 1], s[m + 2]) /\ s[m + 3] \in Tail8 /\ s[m + 4] \in Tail8
      <4>1. (b = 240 /\ k = "L40") \/ (b = 244 /\ k = "L42") \/ (b \in 241..243 /\ k = "L41")
        BY <2>1, <2>2, <3>4 DEF Lead4, StringStep, Plain, Byte, Quote, Backslash
      <4>2. Partial(k, s, m, p + 1)
        BY <2>1, <4>1 DEF Partial
      <4> QED
        BY <2>1, <3>4, <4>2 DEF k, b
    <3> QED
      BY <2>3, <3>1, <3>2, <3>3, <3>4 DEF CharAt
  <2>4. CASE b = Backslash /\ e > m + 1
    <3>1. k = "L35"
      BY <2>2, <2>4 DEF StringStep, Plain, Quote, Backslash
    <3>2. Partial("L35", s, m, p + 1)
      BY <2>1, <2>4 DEF Partial, b
    <3> QED
      BY <2>1, <2>4, <3>1, <3>2 DEF k, b
  <2> QED
    BY <2>1, <2>3, <2>4 DEF UnitAt
<1>2. CASE l = "L35"
  <2>1. p = m + 1 /\ s[m + 1] = Backslash /\ b = s[m + 2]
    BY <1>2 DEF Partial, HexDigits
  <2>2. k = IF b \in Simple THEN "L30" ELSE IF b = 117 THEN "L48" ELSE "L32"
    BY <1>2, EscapeGoes
  <2> HIDE DEF b, k
  <2>3. ~(CharAt(s, m, e) /\ s[m + 1] >= 32 /\ s[m + 1] \notin {Quote, Backslash})
    BY <2>1
  <2>4. CASE e = m + 2 /\ b \in Simple
    BY <2>1, <2>2, <2>4 DEF k, b
  <2>5. CASE e = m + 6 /\ b = 117
    <3>1. k = "L48"
      BY <2>2, <2>5 DEF Simple, Quote, Backslash
    <3>2. Partial("L48", s, m, p + 1)
      BY <2>1, <2>5 DEF Partial, HexDigits
    <3> QED
      BY <2>1, <2>5, <3>1, <3>2 DEF k, b
  <2> QED
    BY <2>1, <2>3, <2>4, <2>5 DEF UnitAt
<1>3. CASE l \in HexDigits
  <2>1. /\ s[m + 1] = Backslash /\ s[m + 2] = 117 /\ \A i \in (m + 3)..p : s[i] \in HexDigit
        /\ p = m + (IF l = "L48" THEN 2 ELSE IF l = "L57" THEN 3 ELSE IF l = "L63" THEN 4 ELSE 5)
    BY <1>3 DEF Partial, HexDigits, Continuing
  <2>2. e = m + 6 /\ s[m + 3] \in HexDigit /\ s[m + 4] \in HexDigit /\ s[m + 5] \in HexDigit /\ s[m + 6] \in HexDigit
    BY <2>1 DEF UnitAt, CharAt, Simple, Quote, Backslash
  <2>3. b \in HexDigit
    BY <1>3, <2>1, <2>2 DEF HexDigits
  <2>4. k = IF l = "L48" THEN "L57" ELSE IF l = "L57" THEN "L63" ELSE IF l = "L63" THEN "L66" ELSE "L30"
    BY <1>3, <2>3, HexGoes DEF HexDigits
  <2>5. \A i \in (m + 3)..(p + 1) : s[i] \in HexDigit
    <3> SUFFICES ASSUME NEW i \in (m + 3)..(p + 1) PROVE s[i] \in HexDigit
      OBVIOUS
    <3>1. i = p + 1 \/ i \in (m + 3)..p
      OBVIOUS
    <3> QED
      BY <2>1, <2>3, <3>1
  <2> HIDE DEF b, k
  <2>6. CASE l = "L66"
    BY <2>1, <2>2, <2>4, <2>6 DEF k, b
  <2>7. CASE l # "L66"
    <3>1. k \in HexDigits /\ p + 1 = m + (IF k = "L48" THEN 2 ELSE IF k = "L57" THEN 3 ELSE IF k = "L63" THEN 4 ELSE 5)
      BY <1>3, <2>1, <2>4, <2>7 DEF HexDigits
    <3>2. Partial(k, s, m, p + 1)
      BY <2>1, <2>5, <3>1 DEF Partial
    <3>3. p + 1 # e
      BY <1>3, <2>1, <2>2, <2>7 DEF HexDigits
    <3> QED
      BY <3>2, <3>3 DEF k, b
  <2> QED
    BY <2>6, <2>7
<1>4. CASE l \in Continuing
  <2>0. l \notin HexDigits /\ l \notin {"L9", "L30"} /\ l # "L35"
    BY <1>4 DEF Continuing, HexDigits
  <2>1. p > m /\ s[m + 1] \in 194..244
    BY <1>4, <2>0 DEF Partial, Lead3, Lead4
  <2>2. CharAt(s, m, e)
    BY <2>1 DEF UnitAt, Backslash
  <2>3. /\ To("L36", b) = IF b \in Tail8 THEN "L30" ELSE "L32"
        /\ To("L37", b) = IF b \in 160..191 THEN "L36" ELSE "L32"
        /\ To("L38", b) = IF b \in Tail8 THEN "L36" ELSE "L32"
        /\ To("L39", b) = IF b \in 128..159 THEN "L36" ELSE "L32"
        /\ To("L40", b) = IF b \in 144..191 THEN "L38" ELSE "L32"
        /\ To("L41", b) = IF b \in Tail8 THEN "L38" ELSE "L32"
        /\ To("L42", b) = IF b \in 128..143 THEN "L38" ELSE "L32"
    BY ContinuationGoes
  <2> HIDE DEF b
  <2>4. CASE e = m + 2 /\ s[m + 1] \in 194..223 /\ s[m + 2] \in Tail8
    <3>1. l = "L36" /\ p = m + 1
      BY <1>4, <2>0, <2>4 DEF Partial, Lead3, Lead4
    <3>2. k = "L30"
      BY <2>3, <2>4, <3>1 DEF b
    <3> QED
      BY <2>4, <3>1, <3>2 DEF b
  <2>5. CASE e = m + 3 /\ Lead3(s[m + 1], s[m + 2]) /\ s[m + 3] \in Tail8
    <3>1. s[m + 1] \in 224..239
      BY <2>5 DEF Lead3
    <3>2. CASE p = m + 1
      <4>1. (l = "L37" /\ s[m + 1] = 224) \/ (l = "L38" /\ s[m + 1] \in 225..239 \ {237}) \/ (l = "L39" /\ s[m + 1] = 237)
        BY <1>4, <2>0, <3>1, <3>2 DEF Partial
      <4>2. k = "L36"
        BY <2>3, <2>5, <3>2, <4>1 DEF b, Lead3
      <4>3. Partial("L36", s, m, p + 1)
        BY <2>5, <3>2 DEF Partial
      <4> QED
        BY <2>5, <3>2, <4>2, <4>3 DEF b
    <3>3. CASE p = m + 2
      <4>1. l = "L36"
        BY <1>4, <2>0, <3>1, <3>3 DEF Partial, Lead4
      <4>2. k = "L30"
        BY <2>3, <2>5, <3>3, <4>1 DEF b
      <4> QED
        BY <2>5, <3>3, <4>2 DEF b
    <3> QED
      BY <2>1, <2>5, <3>2, <3>3
  <2>6. CASE e = m + 4 /\ Lead4(s[m + 1], s[m + 2]) /\ s[m + 3] \in Tail8 /\ s[m + 4] \in Tail8
    <3>1. s[m + 1] \in 240..244
      BY <2>6 DEF Lead4
    <3>2. CASE p = m + 1
      <4>1. (l = "L40" /\ s[m + 1] = 240) \/ (l = "L41" /\ s[m + 1] \in 241..243) \/ (l = "L42" /\ s[m + 1] = 244)
        BY <1>4, <2>0, <3>1, <3>2 DEF Partial
      <4>2. k = "L38"
        BY <2>3, <2>6, <3>2, <4>1 DEF b, Lead4
      <4>3. Partial("L38", s, m, p + 1)
        BY <2>6, <3>2 DEF Partial
      <4> QED
        BY <2>6, <3>2, <4>2, <4>3 DEF b
    <3>3. CASE p = m + 2
      <4>1. l = "L38"
        BY <1>4, <2>0, <3>1, <3>3 DEF Partial, Lead3
      <4>2. k = "L36"
        BY <2>3, <2>6, <3>3, <4>1 DEF b
      <4>3. Partial("L36", s, m, p + 1)
        BY <2>6, <3>3 DEF Partial
      <4> QED
        BY <2>6, <3>3, <4>2, <4>3 DEF b
    <3>4. CASE p = m + 3
      <4>1. l = "L36"
        BY <1>4, <2>0, <3>4 DEF Partial
      <4>2. k = "L30"
        BY <2>3, <2>6, <3>4, <4>1 DEF b
      <4> QED
        BY <2>6, <3>4, <4>2 DEF b
    <3> QED
      BY <2>1, <2>6, <3>2, <3>3, <3>4
  <2> QED
    BY <2>1, <2>2, <2>4, <2>5, <2>6 DEF CharAt
<1> QED
  BY <1>0, <1>1, <1>2, <1>3, <1>4

\* What scan does in a unit: it gives up, finds the quote at the end, goes on in the
\* unit, or finds its end.
Gone(k, b, s, m, p) ==
    \/ k \in {"L5", "L32"}
    \/ k = "L33" /\ p = m /\ b = Quote
    \/ k \in InString /\ Partial(k, s, m, p + 1)
    \/ k = "L30" /\ UnitAt(s, m, p + 1)

\* So it does.
LEMMA PartialMoves ==
    ASSUME NEW s, NEW m \in Nat, NEW p \in Nat, s[p + 1] \in Byte, NEW l \in InString, Partial(l, s, m, p)
    PROVE  Gone(To(l, s[p + 1]), s[p + 1], s, m, p)
<1> DEFINE b == s[p + 1]  k == To(l, b)
<1>0. l \in {"L9", "L30"} \/ l = "L35" \/ l \in HexDigits \/ l \in Continuing
  BY DEF InString
<1>c. Continuing \subseteq InString /\ HexDigits \subseteq InString /\ "L30" \in InString /\ "L35" \in InString
  BY DEF InString
<1>1. CASE l \in {"L9", "L30"}
  <2>1. p = m /\ b = s[m + 1] /\ b \in Byte
    BY <1>1 DEF Partial, HexDigits
  <2>2. \E o \in {"L5", "L32"} : k = StringStep(b, o)
    BY <1>1, <2>1, StringGoes
  <2> HIDE DEF b, k
  <2>3. CASE b \in Plain
    <3>1. k = "L30"
      BY <2>2, <2>3 DEF StringStep
    <3>2. UnitAt(s, m, p + 1)
      BY <2>1, <2>3 DEF UnitAt, CharAt, Plain
    <3> QED
      BY <3>1, <3>2 DEF Gone, k, b
  <2>4. CASE b = Quote
    <3>1. k = "L33"
      BY <2>2, <2>4 DEF StringStep, Plain
    <3> QED
      BY <2>1, <2>4, <3>1 DEF Gone, k, b
  <2>5. CASE b = Backslash
    <3>1. k = "L35"
      BY <2>2, <2>5 DEF StringStep, Plain, Quote, Backslash
    <3>2. Partial("L35", s, m, p + 1)
      BY <2>1, <2>5 DEF Partial, b
    <3> QED
      BY <1>c, <3>1, <3>2 DEF Gone, k, b
  <2>6. CASE b \in 194..244
    <3>0. PICK o \in {"L5", "L32"} : k = StringStep(b, o)
      BY <2>2
    <3>1. (k = "L36" /\ b \in 194..223) \/ (k = "L37" /\ b = 224) \/ (k = "L38" /\ b \in 225..239 \ {237})
          \/ (k = "L39" /\ b = 237) \/ (k = "L40" /\ b = 240) \/ (k = "L41" /\ b \in 241..243) \/ (k = "L42" /\ b = 244)
      <4>1. b \in 194..223 => k = "L36"
        BY <3>0 DEF StringStep, Plain, Quote, Backslash
      <4>2. b = 224 => k = "L37"
        BY <3>0 DEF StringStep, Plain, Quote, Backslash
      <4>8. b = 237 => k = "L39"
        BY <3>0 DEF StringStep, Plain, Quote, Backslash
      <4>3. b \in 225..239 \ {237} => k = "L38"
        BY <3>0 DEF StringStep, Plain, Quote, Backslash
      <4>4. b = 240 => k = "L40"
        BY <3>0 DEF StringStep, Plain, Quote, Backslash
      <4>5. b \in 241..243 => k = "L41"
        BY <3>0 DEF StringStep, Plain, Quote, Backslash
      <4>6. b = 244 => k = "L42"
        BY <3>0 DEF StringStep, Plain, Quote, Backslash
      <4>7. b \in 194..223 \/ b = 224 \/ b = 237 \/ b \in 225..239 \ {237} \/ b = 240 \/ b \in 241..243 \/ b = 244
        BY <2>6
      <4>a. CASE b \in 194..223
        BY <4>a, <4>1
      <4>b. CASE b = 224 \/ b = 237 \/ b = 240 \/ b = 244
        BY <4>b, <4>2, <4>4, <4>6, <4>8
      <4>d. CASE b \in 225..239 \ {237}
        BY <4>d, <4>3
      <4>e. CASE b \in 241..243
        BY <4>e, <4>5
      <4> QED
        BY <4>a, <4>b, <4>d, <4>e, <4>7
    <3>2. k \in Continuing /\ Partial(k, s, m, p + 1)
      BY <2>1, <3>1 DEF Partial, Continuing, b
    <3> QED
      BY <1>c, <3>2 DEF Gone, k, b
  <2>7. CASE b \notin Plain /\ b # Quote /\ b # Backslash /\ b \notin 194..244
    <3>1. k \in {"L5", "L32"}
      BY <2>1, <2>2, <2>7 DEF StringStep, Byte
    <3> QED
      BY <3>1 DEF Gone, k, b
  <2> QED
    BY <2>3, <2>4, <2>5, <2>6, <2>7
<1>2. CASE l = "L35"
  <2>1. p = m + 1 /\ s[m + 1] = Backslash /\ b = s[m + 2]
    BY <1>2 DEF Partial, HexDigits
  <2>2. k = IF b \in Simple THEN "L30" ELSE IF b = 117 THEN "L48" ELSE "L32"
    BY <1>2, EscapeGoes
  <2> HIDE DEF b, k
  <2>3. CASE b \in Simple
    <3>1. UnitAt(s, m, p + 1)
      BY <2>1, <2>3 DEF UnitAt
    <3> QED
      BY <2>2, <2>3, <3>1 DEF Gone, k, b
  <2>4. CASE b \notin Simple /\ b = 117
    <3>1. Partial("L48", s, m, p + 1)
      BY <2>1, <2>4 DEF Partial, HexDigits
    <3>2. "L48" \in InString
      BY DEF InString, HexDigits
    <3> QED
      BY <2>2, <2>4, <3>1, <3>2 DEF Gone, k, b
  <2>5. CASE b \notin Simple /\ b # 117
    BY <2>2, <2>5 DEF Gone, k, b
  <2> QED
    BY <2>3, <2>4, <2>5
<1>3. CASE l \in HexDigits
  <2>1. /\ s[m + 1] = Backslash /\ s[m + 2] = 117 /\ \A i \in (m + 3)..p : s[i] \in HexDigit
        /\ p = m + (IF l = "L48" THEN 2 ELSE IF l = "L57" THEN 3 ELSE IF l = "L63" THEN 4 ELSE 5)
    BY <1>3 DEF Partial, HexDigits, Continuing
  <2>4. k = IF b \notin HexDigit THEN "L32" ELSE IF l = "L48" THEN "L57" ELSE IF l = "L57" THEN "L63" ELSE IF l = "L63" THEN "L66" ELSE "L30"
    BY <1>3, HexGoes DEF HexDigits
  <2>5. CASE b \notin HexDigit
    BY <2>4, <2>5 DEF Gone
  <2>6. CASE b \in HexDigit
    <3>5. \A i \in (m + 3)..(p + 1) : s[i] \in HexDigit
      <4> SUFFICES ASSUME NEW i \in (m + 3)..(p + 1) PROVE s[i] \in HexDigit
        OBVIOUS
      <4>1. i = p + 1 \/ i \in (m + 3)..p
        OBVIOUS
      <4> QED
        BY <2>1, <2>6, <4>1
    <3> HIDE DEF b, k
    <3>6. CASE l = "L66"
      <4>1. p = m + 5
        BY <2>1, <3>6
      <4>2. UnitAt(s, m, p + 1)
        BY <2>1, <3>5, <4>1 DEF UnitAt
      <4> QED
        BY <2>4, <2>6, <3>6, <4>2 DEF Gone, k, b
    <3>7. CASE l # "L66"
      <4>1. k \in HexDigits /\ p + 1 = m + (IF k = "L48" THEN 2 ELSE IF k = "L57" THEN 3 ELSE IF k = "L63" THEN 4 ELSE 5)
        BY <1>3, <2>1, <2>4, <2>6, <3>7 DEF HexDigits
      <4>2. Partial(k, s, m, p + 1)
        BY <2>1, <3>5, <4>1 DEF Partial
      <4> QED
        BY <1>c, <4>1, <4>2 DEF Gone, k, b
    <3> QED
      BY <3>6, <3>7
  <2> QED
    BY <2>5, <2>6
<1>4. CASE l \in Continuing
  <2>0. l \notin HexDigits /\ l \notin {"L9", "L30"} /\ l # "L35"
    BY <1>4 DEF Continuing, HexDigits
  <2>1. "L36" \in InString /\ "L38" \in InString
    BY DEF InString, Continuing
  <2>2. s[m + 1] \in 194..244 => s[m + 1] >= 32 /\ s[m + 1] \notin {Quote, Backslash}
    BY DEF Quote, Backslash
  <2>3. /\ To("L36", b) = IF b \in Tail8 THEN "L30" ELSE "L32"
        /\ To("L37", b) = IF b \in 160..191 THEN "L36" ELSE "L32"
        /\ To("L38", b) = IF b \in Tail8 THEN "L36" ELSE "L32"
        /\ To("L39", b) = IF b \in 128..159 THEN "L36" ELSE "L32"
        /\ To("L40", b) = IF b \in 144..191 THEN "L38" ELSE "L32"
        /\ To("L41", b) = IF b \in Tail8 THEN "L38" ELSE "L32"
        /\ To("L42", b) = IF b \in 128..143 THEN "L38" ELSE "L32"
    BY ContinuationGoes
  <2> HIDE DEF b
  <2>4. CASE k = "L32"
    BY <2>4 DEF Gone, b
  <2>5. CASE k # "L32"
    <3>1. CASE l = "L36"
      <4>1. b \in Tail8 /\ k = "L30"
        BY <2>3, <2>5, <3>1
      <4>2. \/ p = m + 1 /\ s[m + 1] \in 194..223
            \/ p = m + 2 /\ Lead3(s[m + 1], s[m + 2])
            \/ p = m + 3 /\ Lead4(s[m + 1], s[m + 2]) /\ s[m + 3] \in Tail8
        <5>1. Partial("L36", s, m, p) /\ "L36" \notin HexDigits
          BY <2>0, <3>1
        <5> QED
          BY <5>1 DEF Partial
      <4>3. s[m + 1] \in 194..244
        BY <4>2 DEF Lead3, Lead4
      <4>4. CharAt(s, m, p + 1)
        BY <4>1, <4>2 DEF CharAt, b
      <4>5. UnitAt(s, m, p + 1)
        BY <2>2, <4>3, <4>4 DEF UnitAt
      <4> QED
        BY <4>1, <4>5 DEF Gone, b
    <3>2. CASE l \in {"L37", "L39"}
      <4>1. k = "L36" /\ p = m + 1 /\ Lead3(s[m + 1], s[m + 2])
        BY <2>0, <2>3, <2>5, <3>2 DEF Partial, Lead3, b
      <4>2. Partial(k, s, m, p + 1)
        BY <4>1 DEF Partial
      <4> QED
        BY <2>1, <4>1, <4>2 DEF Gone, b
    <3>3. CASE l = "L38"
      <4>1. k = "L36" /\ b \in Tail8
        BY <2>3, <2>5, <3>3
      <4>2. (p = m + 1 /\ s[m + 1] \in 225..239 \ {237}) \/ (p = m + 2 /\ Lead4(s[m + 1], s[m + 2]))
        BY <2>0, <3>3 DEF Partial
      <4>3. Partial("L36", s, m, p + 1)
        <5>1. CASE p = m + 1 /\ s[m + 1] \in 225..239 \ {237}
          <6>1. b = s[m + 2] /\ p + 1 = m + 2
            BY <5>1 DEF b
          <6>2. Lead3(s[m + 1], s[m + 2])
            BY <4>1, <5>1, <6>1 DEF Lead3
          <6> QED
            BY <6>1, <6>2 DEF Partial
        <5>2. CASE p = m + 2 /\ Lead4(s[m + 1], s[m + 2])
          BY <4>1, <5>2 DEF Partial, b
        <5> QED
          BY <4>2, <5>1, <5>2
      <4> QED
        BY <2>1, <4>1, <4>3 DEF Gone, b
    <3>4. CASE l \in {"L40", "L41", "L42"}
      <4>1. k = "L38" /\ p = m + 1 /\ Lead4(s[m + 1], s[m + 2])
        BY <2>0, <2>3, <2>5, <3>4 DEF Partial, Lead4, b
      <4>2. Partial(k, s, m, p + 1)
        BY <4>1 DEF Partial
      <4> QED
        BY <2>1, <4>1, <4>2 DEF Gone, b
    <3> QED
      BY <1>4, <3>1, <3>2, <3>3, <3>4 DEF Continuing
  <2> QED
    BY <2>4, <2>5
<1> QED
  BY <1>0, <1>1, <1>2, <1>3, <1>4

\* The n-th byte of a word, and the label behind it.
Letter(t, n, x, b) ==
    \/ t = "begin_array" /\ n = 1 /\ x = "L19" /\ b = 91
    \/ t = "end_array" /\ n = 1 /\ x = "L21" /\ b = 93
    \/ t = "begin_object" /\ n = 1 /\ x = "L26" /\ b = 123
    \/ t = "end_object" /\ n = 1 /\ x = "L28" /\ b = 125
    \/ t = "name_separator" /\ n = 1 /\ x = "L17" /\ b = 58
    \/ t = "value_separator" /\ n = 1 /\ x = "L10" /\ b = 44
    \/ t = "end_of_input" /\ n = 1 /\ x = "L2" /\ b = 0
    \/ t = "literal_true" /\ n = 1 /\ x = "L25" /\ b = 116
    \/ t = "literal_true" /\ n = 2 /\ x = "L47" /\ b = 114
    \/ t = "literal_true" /\ n = 3 /\ x = "L56" /\ b = 117
    \/ t = "literal_true" /\ n = 4 /\ x = "L61" /\ b = 101
    \/ t = "literal_false" /\ n = 1 /\ x = "L23" /\ b = 102
    \/ t = "literal_false" /\ n = 2 /\ x = "L45" /\ b = 97
    \/ t = "literal_false" /\ n = 3 /\ x = "L54" /\ b = 108
    \/ t = "literal_false" /\ n = 4 /\ x = "L58" /\ b = 115
    \/ t = "literal_false" /\ n = 5 /\ x = "L64" /\ b = 101
    \/ t = "literal_null" /\ n = 1 /\ x = "L24" /\ b = 110
    \/ t = "literal_null" /\ n = 2 /\ x = "L46" /\ b = 117
    \/ t = "literal_null" /\ n = 3 /\ x = "L55" /\ b = 108
    \/ t = "literal_null" /\ n = 4 /\ x = "L59" /\ b = 108

\* The words have these.
LEMMA LettersAre == \A t \in Words : \A n \in 1..Len(Fixed[t]) : Letter(t, n, WordLabels[t][n], Fixed[t][n])
<1> SUFFICES ASSUME NEW t \in WordNames, NEW n \in 1..Len(Fixed[t]) PROVE Letter(t, n, WordLabels[t][n], Fixed[t][n])
  BY FixedIs
<1>1. CASE t = "begin_array"
  <2>1. WordLabels["begin_array"] = <<"L19">>
    BY DEF WordLabels
  <2>2. Fixed["begin_array"] = <<91>> /\ Len(Fixed["begin_array"]) = 1
    BY FixedIs
  <2>3. n = 1
    BY <1>1, <2>2
  <2>4. CASE n = 1
    BY <1>1, <2>1, <2>2, <2>4 DEF Letter
  <2> QED
    BY <2>3, <2>4
<1>2. CASE t = "end_array"
  <2>1. WordLabels["end_array"] = <<"L21">>
    BY DEF WordLabels
  <2>2. Fixed["end_array"] = <<93>> /\ Len(Fixed["end_array"]) = 1
    BY FixedIs
  <2>3. n = 1
    BY <1>2, <2>2
  <2>4. CASE n = 1
    BY <1>2, <2>1, <2>2, <2>4 DEF Letter
  <2> QED
    BY <2>3, <2>4
<1>3. CASE t = "begin_object"
  <2>1. WordLabels["begin_object"] = <<"L26">>
    BY DEF WordLabels
  <2>2. Fixed["begin_object"] = <<123>> /\ Len(Fixed["begin_object"]) = 1
    BY FixedIs
  <2>3. n = 1
    BY <1>3, <2>2
  <2>4. CASE n = 1
    BY <1>3, <2>1, <2>2, <2>4 DEF Letter
  <2> QED
    BY <2>3, <2>4
<1>4. CASE t = "end_object"
  <2>1. WordLabels["end_object"] = <<"L28">>
    BY DEF WordLabels
  <2>2. Fixed["end_object"] = <<125>> /\ Len(Fixed["end_object"]) = 1
    BY FixedIs
  <2>3. n = 1
    BY <1>4, <2>2
  <2>4. CASE n = 1
    BY <1>4, <2>1, <2>2, <2>4 DEF Letter
  <2> QED
    BY <2>3, <2>4
<1>5. CASE t = "name_separator"
  <2>1. WordLabels["name_separator"] = <<"L17">>
    BY DEF WordLabels
  <2>2. Fixed["name_separator"] = <<58>> /\ Len(Fixed["name_separator"]) = 1
    BY FixedIs
  <2>3. n = 1
    BY <1>5, <2>2
  <2>4. CASE n = 1
    BY <1>5, <2>1, <2>2, <2>4 DEF Letter
  <2> QED
    BY <2>3, <2>4
<1>6. CASE t = "value_separator"
  <2>1. WordLabels["value_separator"] = <<"L10">>
    BY DEF WordLabels
  <2>2. Fixed["value_separator"] = <<44>> /\ Len(Fixed["value_separator"]) = 1
    BY FixedIs
  <2>3. n = 1
    BY <1>6, <2>2
  <2>4. CASE n = 1
    BY <1>6, <2>1, <2>2, <2>4 DEF Letter
  <2> QED
    BY <2>3, <2>4
<1>7. CASE t = "end_of_input"
  <2>1. WordLabels["end_of_input"] = <<"L2">>
    BY DEF WordLabels
  <2>2. Fixed["end_of_input"] = <<0>> /\ Len(Fixed["end_of_input"]) = 1
    BY FixedIs
  <2>3. n = 1
    BY <1>7, <2>2
  <2>4. CASE n = 1
    BY <1>7, <2>1, <2>2, <2>4 DEF Letter
  <2> QED
    BY <2>3, <2>4
<1>8. CASE t = "literal_true"
  <2>1. WordLabels["literal_true"] = <<"L25", "L47", "L56", "L61">>
    BY DEF WordLabels
  <2>2. Fixed["literal_true"] = <<116, 114, 117, 101>> /\ Len(Fixed["literal_true"]) = 4
    BY FixedIs
  <2>3. n = 1 \/ n = 2 \/ n = 3 \/ n = 4
    BY <1>8, <2>2
  <2>4. CASE n = 1
    BY <1>8, <2>1, <2>2, <2>4 DEF Letter
  <2>5. CASE n = 2
    BY <1>8, <2>1, <2>2, <2>5 DEF Letter
  <2>6. CASE n = 3
    BY <1>8, <2>1, <2>2, <2>6 DEF Letter
  <2>7. CASE n = 4
    BY <1>8, <2>1, <2>2, <2>7 DEF Letter
  <2> QED
    BY <2>3, <2>4, <2>5, <2>6, <2>7
<1>9. CASE t = "literal_false"
  <2>1. WordLabels["literal_false"] = <<"L23", "L45", "L54", "L58", "L64">>
    BY DEF WordLabels
  <2>2. Fixed["literal_false"] = <<102, 97, 108, 115, 101>> /\ Len(Fixed["literal_false"]) = 5
    BY FixedIs
  <2>3. n = 1 \/ n = 2 \/ n = 3 \/ n = 4 \/ n = 5
    BY <1>9, <2>2
  <2>4. CASE n = 1
    BY <1>9, <2>1, <2>2, <2>4 DEF Letter
  <2>5. CASE n = 2
    BY <1>9, <2>1, <2>2, <2>5 DEF Letter
  <2>6. CASE n = 3
    BY <1>9, <2>1, <2>2, <2>6 DEF Letter
  <2>7. CASE n = 4
    BY <1>9, <2>1, <2>2, <2>7 DEF Letter
  <2>8. CASE n = 5
    BY <1>9, <2>1, <2>2, <2>8 DEF Letter
  <2> QED
    BY <2>3, <2>4, <2>5, <2>6, <2>7, <2>8
<1>10. CASE t = "literal_null"
  <2>1. WordLabels["literal_null"] = <<"L24", "L46", "L55", "L59">>
    BY DEF WordLabels
  <2>2. Fixed["literal_null"] = <<110, 117, 108, 108>> /\ Len(Fixed["literal_null"]) = 4
    BY FixedIs
  <2>3. n = 1 \/ n = 2 \/ n = 3 \/ n = 4
    BY <1>10, <2>2
  <2>4. CASE n = 1
    BY <1>10, <2>1, <2>2, <2>4 DEF Letter
  <2>5. CASE n = 2
    BY <1>10, <2>1, <2>2, <2>5 DEF Letter
  <2>6. CASE n = 3
    BY <1>10, <2>1, <2>2, <2>6 DEF Letter
  <2>7. CASE n = 4
    BY <1>10, <2>1, <2>2, <2>7 DEF Letter
  <2> QED
    BY <2>3, <2>4, <2>5, <2>6, <2>7
<1> QED
  BY <1>1, <1>2, <1>3, <1>4, <1>5, <1>6, <1>7, <1>8, <1>9, <1>10 DEF WordNames

\* scan goes through a word.
LEMMA LetterMoves ==
    ASSUME NEW t, NEW n \in Nat, NEW x, NEW b, NEW y, NEW c, Letter(t, n, x, b), Letter(t, n + 1, y, c)
    PROVE  To(x, c) = y
<1>1. \/ n = 1 /\ x = "L25" /\ y = "L47" /\ c = 114
      \/ n = 2 /\ x = "L47" /\ y = "L56" /\ c = 117
      \/ n = 3 /\ x = "L56" /\ y = "L61" /\ c = 101
      \/ n = 1 /\ x = "L23" /\ y = "L45" /\ c = 97
      \/ n = 2 /\ x = "L45" /\ y = "L54" /\ c = 108
      \/ n = 3 /\ x = "L54" /\ y = "L58" /\ c = 115
      \/ n = 4 /\ x = "L58" /\ y = "L64" /\ c = 101
      \/ n = 1 /\ x = "L24" /\ y = "L46" /\ c = 117
      \/ n = 2 /\ x = "L46" /\ y = "L55" /\ c = 108
      \/ n = 3 /\ x = "L55" /\ y = "L59" /\ c = 108
  BY DEF Letter
<1> QED
  BY <1>1, LiteralGoes

\* Where scan gets to along a word it was already behind the byte before.
LEMMA LetterCame ==
    ASSUME NEW l \in InLiteral, NEW b, NEW t, NEW n \in Nat, NEW c, Letter(t, n, To(l, b), c)
    PROVE  n > 1 /\ b = c /\ \E d : Letter(t, n - 1, l, d)
<1> DEFINE k == To(l, b)
<1>1. \/ k \in {"L5", "L32"}
      \/ l = "L23" /\ b = 97 /\ k = "L45"
      \/ l = "L45" /\ b = 108 /\ k = "L54"
      \/ l = "L54" /\ b = 115 /\ k = "L58"
      \/ l = "L58" /\ b = 101 /\ k = "L64"
      \/ l = "L24" /\ b = 117 /\ k = "L46"
      \/ l = "L46" /\ b = 108 /\ k = "L55"
      \/ l = "L55" /\ b = 108 /\ k = "L59"
      \/ l = "L25" /\ b = 114 /\ k = "L47"
      \/ l = "L47" /\ b = 117 /\ k = "L56"
      \/ l = "L56" /\ b = 101 /\ k = "L61"
  <2>1. CASE l = "L23"
    <3>1. To("L23", b) = IF b = 97 THEN "L45" ELSE "L5"
      BY LiteralGoes
    <3> QED
      BY <2>1, <3>1
  <2>2. CASE l = "L45"
    <3>1. To("L45", b) = IF b = 108 THEN "L54" ELSE "L32"
      BY LiteralGoes
    <3> QED
      BY <2>2, <3>1
  <2>3. CASE l = "L54"
    <3>1. To("L54", b) = IF b = 115 THEN "L58" ELSE "L32"
      BY LiteralGoes
    <3> QED
      BY <2>3, <3>1
  <2>4. CASE l = "L58"
    <3>1. To("L58", b) = IF b = 101 THEN "L64" ELSE "L32"
      BY LiteralGoes
    <3> QED
      BY <2>4, <3>1
  <2>5. CASE l = "L24"
    <3>1. To("L24", b) = IF b = 117 THEN "L46" ELSE "L5"
      BY LiteralGoes
    <3> QED
      BY <2>5, <3>1
  <2>6. CASE l = "L46"
    <3>1. To("L46", b) = IF b = 108 THEN "L55" ELSE "L32"
      BY LiteralGoes
    <3> QED
      BY <2>6, <3>1
  <2>7. CASE l = "L55"
    <3>1. To("L55", b) = IF b = 108 THEN "L59" ELSE "L32"
      BY LiteralGoes
    <3> QED
      BY <2>7, <3>1
  <2>8. CASE l = "L25"
    <3>1. To("L25", b) = IF b = 114 THEN "L47" ELSE "L5"
      BY LiteralGoes
    <3> QED
      BY <2>8, <3>1
  <2>9. CASE l = "L47"
    <3>1. To("L47", b) = IF b = 117 THEN "L56" ELSE "L32"
      BY LiteralGoes
    <3> QED
      BY <2>9, <3>1
  <2>10. CASE l = "L56"
    <3>1. To("L56", b) = IF b = 101 THEN "L61" ELSE "L32"
      BY LiteralGoes
    <3> QED
      BY <2>10, <3>1
  <2> QED
    BY <2>1, <2>2, <2>3, <2>4, <2>5, <2>6, <2>7, <2>8, <2>9, <2>10 DEF InLiteral
<1>2. Letter(t, n, k, c)
  OBVIOUS
<1> HIDE DEF k
<1>3. k \notin {"L5", "L32"}
  BY <1>2 DEF Letter
<1>4. n > 1 /\ b = c
  BY <1>1, <1>2, <1>3 DEF Letter
<1>5. \E d : Letter(t, n - 1, l, d)
  <2>1. CASE l = "L23" /\ k = "L45"
    <3>1. t = "literal_false" /\ n - 1 = 1
      BY <1>2, <2>1 DEF Letter
    <3>2. Letter(t, n - 1, l, 102)
      BY <2>1, <3>1 DEF Letter
    <3> QED
      BY <3>2
  <2>2. CASE l = "L45" /\ k = "L54"
    <3>1. t = "literal_false" /\ n - 1 = 2
      BY <1>2, <2>2 DEF Letter
    <3>2. Letter(t, n - 1, l, 97)
      BY <2>2, <3>1 DEF Letter
    <3> QED
      BY <3>2
  <2>3. CASE l = "L54" /\ k = "L58"
    <3>1. t = "literal_false" /\ n - 1 = 3
      BY <1>2, <2>3 DEF Letter
    <3>2. Letter(t, n - 1, l, 108)
      BY <2>3, <3>1 DEF Letter
    <3> QED
      BY <3>2
  <2>4. CASE l = "L58" /\ k = "L64"
    <3>1. t = "literal_false" /\ n - 1 = 4
      BY <1>2, <2>4 DEF Letter
    <3>2. Letter(t, n - 1, l, 115)
      BY <2>4, <3>1 DEF Letter
    <3> QED
      BY <3>2
  <2>5. CASE l = "L24" /\ k = "L46"
    <3>1. t = "literal_null" /\ n - 1 = 1
      BY <1>2, <2>5 DEF Letter
    <3>2. Letter(t, n - 1, l, 110)
      BY <2>5, <3>1 DEF Letter
    <3> QED
      BY <3>2
  <2>6. CASE l = "L46" /\ k = "L55"
    <3>1. t = "literal_null" /\ n - 1 = 2
      BY <1>2, <2>6 DEF Letter
    <3>2. Letter(t, n - 1, l, 117)
      BY <2>6, <3>1 DEF Letter
    <3> QED
      BY <3>2
  <2>7. CASE l = "L55" /\ k = "L59"
    <3>1. t = "literal_null" /\ n - 1 = 3
      BY <1>2, <2>7 DEF Letter
    <3>2. Letter(t, n - 1, l, 108)
      BY <2>7, <3>1 DEF Letter
    <3> QED
      BY <3>2
  <2>8. CASE l = "L25" /\ k = "L47"
    <3>1. t = "literal_true" /\ n - 1 = 1
      BY <1>2, <2>8 DEF Letter
    <3>2. Letter(t, n - 1, l, 116)
      BY <2>8, <3>1 DEF Letter
    <3> QED
      BY <3>2
  <2>9. CASE l = "L47" /\ k = "L56"
    <3>1. t = "literal_true" /\ n - 1 = 2
      BY <1>2, <2>9 DEF Letter
    <3>2. Letter(t, n - 1, l, 114)
      BY <2>9, <3>1 DEF Letter
    <3> QED
      BY <3>2
  <2>10. CASE l = "L56" /\ k = "L61"
    <3>1. t = "literal_true" /\ n - 1 = 3
      BY <1>2, <2>10 DEF Letter
    <3>2. Letter(t, n - 1, l, 117)
      BY <2>10, <3>1 DEF Letter
    <3> QED
      BY <3>2
  <2> QED
    BY <1>1, <1>3, <2>1, <2>2, <2>3, <2>4, <2>5, <2>6, <2>7, <2>8, <2>9, <2>10
<1> QED
  BY <1>4, <1>5

\* The first byte of a word.
LEMMA LetterFirst ==
    ASSUME NEW t, NEW x, NEW b
    PROVE  /\ Letter(t, 1, x, b) => First(b) = x
           /\ Letter(t, 1, x, b) => b \in Byte
<1> SUFFICES ASSUME Letter(t, 1, x, b) PROVE First(b) = x /\ b \in Byte
  OBVIOUS
<1>1. b \in Byte
  BY DEF Letter, Byte
<1>2. First(b) = FirstStep(b)
  BY <1>1, FirstSteps
<1> QED
  BY <1>1, <1>2 DEF Letter, FirstStep, White, Quote

\* No other first byte leads into a word.
LEMMA FirstLetter ==
    ASSUME NEW b \in Byte, NEW t, NEW n \in Nat, NEW c, Letter(t, n, First(b), c)
    PROVE  n = 1 /\ b = c
<1>1. First(b) = FirstStep(b)
  BY FirstSteps
<1>2. \/ FirstStep(b) \in {"L6", "L9", "L12", "L13", "L15", "L4"}
      \/ b = 0 /\ FirstStep(b) = "L2"
      \/ b = 44 /\ FirstStep(b) = "L10"
      \/ b = 58 /\ FirstStep(b) = "L17"
      \/ b = 91 /\ FirstStep(b) = "L19"
      \/ b = 93 /\ FirstStep(b) = "L21"
      \/ b = 102 /\ FirstStep(b) = "L23"
      \/ b = 110 /\ FirstStep(b) = "L24"
      \/ b = 116 /\ FirstStep(b) = "L25"
      \/ b = 123 /\ FirstStep(b) = "L26"
      \/ b = 125 /\ FirstStep(b) = "L28"
  BY DEF FirstStep
<1> DEFINE k == FirstStep(b)
<1> HIDE DEF k
<1> QED
  BY <1>1, <1>2 DEF Letter, k

\* A number ends no earlier than its parts.
LEMMA NumberOrder ==
    ASSUME NEW s, NEW from \in Nat, NEW to \in Nat, NEW i \in Nat, NEW j \in Nat, NumberTo(s, from, to, i, j)
    PROVE  /\ After(s, from) \in {from, from + 1} /\ After(s, from) < i /\ i <= j /\ j <= to
           /\ SignEnd(s, j) \in {j + 1, j + 2} /\ (j # to => SignEnd(s, j) < to)
BY DEF After, SignEnd, NumberTo, IntegerTo, FractionTo, ExponentTo

\* scan goes through a number.
LEMMA NumberMoves ==
    ASSUME NEW s, NEW from \in Nat, NEW to \in Nat, NEW i \in Nat, NEW j \in Nat, NumberTo(s, from, to, i, j),
           NEW p \in Nat, from < p, p < to
    PROVE  To(NumberLabel(s, from, i, j, p), s[p + 1]) = NumberLabel(s, from, i, j, p + 1)
<1> DEFINE a == After(s, from)  b == s[p + 1]  g == SignEnd(s, j)  l == NumberLabel(s, from, i, j, p)  k == NumberLabel(s, from, i, j, p + 1)
<1>1. /\ a \in Nat /\ a < i /\ i <= j /\ j <= to /\ (a = from \/ a = from + 1)
      /\ g \in Nat /\ (g = j + 1 \/ g = j + 2) /\ (j # to => g < to)
  BY NumberOrder
<1>2. /\ \A n \in (a + 1)..i : s[n] \in Digit
      /\ s[a + 1] = 48 => i = a + 1
  BY DEF NumberTo, IntegerTo, DigitsIn
<1>3. j # i => s[i + 1] = 46 /\ i + 1 < j /\ \A n \in (i + 2)..j : s[n] \in Digit
  <2>1. j # i => s[i + 1] = 46 /\ i + 1 < j /\ \A n \in ((i + 1) + 1)..j : s[n] \in Digit
    BY DEF NumberTo, FractionTo, DigitsIn
  <2>2. (i + 1) + 1 = i + 2
    OBVIOUS
  <2> QED
    BY <2>1, <2>2
<1>4. j # to => s[j + 1] \in {69, 101} /\ \A n \in (g + 1)..to : s[n] \in Digit
  BY DEF NumberTo, ExponentTo, DigitsIn
<1>5. g = IF s[j + 2] \in {43, 45} THEN j + 2 ELSE j + 1
  BY DEF SignEnd
<1> HIDE DEF a, g
<1>6. /\ To("L12", b) = IF b = 48 THEN "L13" ELSE IF b \in 49..57 THEN "L15" ELSE "L5"
      /\ To("L13", b) = IF b = 46 THEN "L43" ELSE IF b \in {69, 101} THEN "L44" ELSE "L14"
      /\ To("L15", b) = IF b \in Digit THEN "L15" ELSE IF b = 46 THEN "L43" ELSE IF b \in {69, 101} THEN "L44" ELSE "L14"
  BY IntegerGoes
<1>7. /\ To("L43", b) = IF b \in Digit THEN "L49" ELSE "L32"
      /\ To("L44", b) = IF b \in {43, 45} THEN "L51" ELSE IF b \in Digit THEN "L52" ELSE "L32"
      /\ To("L49", b) = IF b \in Digit THEN "L49" ELSE IF b \in {69, 101} THEN "L44" ELSE "L14"
      /\ To("L51", b) = IF b \in Digit THEN "L52" ELSE "L32"
      /\ To("L52", b) = IF b \in Digit THEN "L52" ELSE "L14"
  BY ExponentGoes
<1>8. /\ l = IF p <= a THEN "L12" ELSE IF p <= i THEN IF s[a + 1] = 48 THEN "L13" ELSE "L15"
             ELSE IF p <= j THEN IF p = i + 1 THEN "L43" ELSE "L49"
             ELSE IF p = j + 1 THEN "L44" ELSE IF p <= g THEN "L51" ELSE "L52"
      /\ k = IF p + 1 <= a THEN "L12" ELSE IF p + 1 <= i THEN IF s[a + 1] = 48 THEN "L13" ELSE "L15"
             ELSE IF p + 1 <= j THEN IF p + 1 = i + 1 THEN "L43" ELSE "L49"
             ELSE IF p + 1 = j + 1 THEN "L44" ELSE IF p + 1 <= g THEN "L51" ELSE "L52"
  BY DEF NumberLabel, a, g
<1> HIDE DEF l, k
<1>9. CASE p <= a
  <2>1. p = a /\ l = "L12" /\ b = s[a + 1] /\ a + 1 \in (a + 1)..i /\ b \in Digit
    BY <1>1, <1>2, <1>8, <1>9
  <2>2. k = IF s[a + 1] = 48 THEN "L13" ELSE "L15"
    BY <1>1, <1>8, <2>1
  <2> HIDE DEF b
  <2> QED
    BY <1>6, <2>1, <2>2 DEF Digit, l, k, b
<1>10. CASE a < p /\ p < i
  <2>1. l = "L15" /\ k = "L15" /\ p + 1 \in (a + 1)..i
    BY <1>1, <1>2, <1>8, <1>10
  <2>2. b \in Digit
    BY <1>2, <2>1
  <2> QED
    BY <1>6, <2>1, <2>2 DEF l, k
<1>11. CASE p = i /\ i # j
  <2>1. (l = "L13" \/ l = "L15") /\ k = "L43" /\ b = 46
    BY <1>1, <1>3, <1>8, <1>11
  <2> HIDE DEF b
  <2> QED
    BY <1>6, <2>1 DEF Digit, l, k, b
<1>12. CASE p = i /\ i = j
  <2>1. (l = "L13" \/ l = "L15") /\ k = "L44" /\ b \in {69, 101}
    BY <1>1, <1>4, <1>8, <1>12
  <2> HIDE DEF b
  <2> QED
    BY <1>6, <2>1 DEF Digit, l, k, b
<1>13. CASE i < p /\ p < j
  <2>1. (l = "L43" \/ l = "L49") /\ k = "L49" /\ p + 1 \in (i + 2)..j /\ i # j
    BY <1>1, <1>8, <1>13
  <2>2. b \in Digit
    BY <1>3, <2>1
  <2> QED
    BY <1>7, <2>1, <2>2 DEF l, k
<1>14. CASE i < p /\ p = j
  <2>1. l = "L49" /\ k = "L44" /\ b \in {69, 101}
    BY <1>1, <1>3, <1>4, <1>8, <1>14
  <2> HIDE DEF b
  <2> QED
    BY <1>7, <2>1 DEF Digit, l, k, b
<1>15. CASE p = j + 1
  <2>1. l = "L44" /\ b = s[j + 2] /\ j # to /\ k = IF p + 1 <= g THEN "L51" ELSE "L52"
    BY <1>1, <1>8, <1>15
  <2>2. CASE b \in {43, 45}
    <3>1. k = "L51"
      BY <1>1, <1>5, <1>15, <2>1, <2>2
    <3> QED
      BY <1>7, <2>1, <2>2, <3>1 DEF l, k
  <2>3. CASE b \notin {43, 45}
    <3>1. k = "L52" /\ p + 1 \in (g + 1)..to
      BY <1>1, <1>5, <1>15, <2>1, <2>3
    <3>2. b \in Digit
      BY <1>4, <2>1, <3>1
    <3> QED
      BY <1>7, <2>1, <2>3, <3>1, <3>2 DEF l, k
  <2> QED
    BY <2>2, <2>3
<1>16. CASE p > j + 1
  <2>1. (l = "L51" \/ l = "L52") /\ k = "L52" /\ p + 1 \in (g + 1)..to /\ j # to
    BY <1>1, <1>8, <1>16
  <2>2. b \in Digit
    BY <1>4, <2>1
  <2> QED
    BY <1>7, <2>1, <2>2 DEF l, k
<1> QED
  BY <1>1, <1>9, <1>10, <1>11, <1>12, <1>13, <1>14, <1>15, <1>16

\* On its way in a token scan stays on it.
LEMMA OnWayMoves ==
    ASSUME NEW s \in Seq(Byte), NEW from \in Nat, NEW p \in Nat, from < p, p < Len(s), NEW l, OnWay(l, s, from, p)
    PROVE  OnWay(To(l, s[p + 1]), s, from, p + 1)
<1> DEFINE b == s[p + 1]  k == To(l, b)
<1>0. b \in Byte
  OBVIOUS
<1>1. OnNumber(k, s, from, p + 1)
  <2> SUFFICES ASSUME NEW to \in (p + 1)..Len(s), NEW i \in Nat, NEW j \in Nat, NumberTo(s, from, to, i, j)
               PROVE  k = NumberLabel(s, from, i, j, p + 1)
    BY DEF OnNumber
  <2>1. to \in Nat /\ to \in p..Len(s) /\ p < to
    OBVIOUS
  <2>2. l = NumberLabel(s, from, i, j, p)
    BY <2>1 DEF OnWay, OnNumber
  <2> QED
    BY <2>1, <2>2, NumberMoves
<1>2. OnWord(k, s, from, p + 1)
  <2> SUFFICES ASSUME NEW t \in Words, p + 1 <= from + Len(Fixed[t]), from + Len(Fixed[t]) <= Len(s),
                      WordTo(s, from, from + Len(Fixed[t]), Fixed[t])
               PROVE  k = WordLabels[t][(p + 1) - from]
    BY DEF OnWord
  <2> DEFINE w == Fixed[t]  n == p - from
  <2>1. Len(w) \in Nat
    BY WordsAre
  <2> HIDE DEF w
  <2>2. n \in Nat /\ n \in 1..Len(w) /\ n + 1 \in 1..Len(w) /\ from + (n + 1) = p + 1 /\ p <= from + Len(w)
        /\ (p + 1) - from = n + 1 /\ (from + Len(w)) - from = Len(w)
    BY <2>1 DEF w
  <2>3. l = WordLabels[t][n]
    BY <2>2 DEF OnWay, OnWord, w
  <2>4. b = w[n + 1]
    <3>1. \A m \in 1..((from + Len(w)) - from) : s[from + m] = w[m]
      BY DEF WordTo, w
    <3> QED
      BY <2>2, <3>1
  <2> HIDE DEF n
  <2>5. Letter(t, n, WordLabels[t][n], w[n]) /\ Letter(t, n + 1, WordLabels[t][n + 1], w[n + 1])
    BY <2>2, LettersAre DEF w
  <2>6. To(WordLabels[t][n], w[n + 1]) = WordLabels[t][n + 1]
    BY <2>2, <2>5, LetterMoves
  <2> QED
    BY <2>2, <2>3, <2>4, <2>6
<1>3. OnString(k, s, from, p + 1)
  <2> SUFFICES ASSUME NEW to \in (p + 1)..Len(s), NEW B, StringTo(s, from, to, B)
               PROVE  IF p + 1 = to THEN k = "L33"
                      ELSE \E m \in B : m <= p + 1 /\ Partial(k, s, m, p + 1) /\ (m = to - 1 \/ \E e \in B : p + 1 < e /\ UnitAt(s, m, e))
    BY DEF OnString
  <2>1. to \in Nat /\ to \in p..Len(s) /\ p < to /\ p # to
    OBVIOUS
  <2>2. PICK m \in B : m <= p /\ Partial(l, s, m, p) /\ (m = to - 1 \/ \E e \in B : p < e /\ UnitAt(s, m, e))
    BY <2>1 DEF OnWay, OnString
  <2>3. /\ B \subseteq (from + 1)..(to - 1) /\ \A x \in B \ {to - 1} : \E e \in B : UnitAt(s, x, e)
        /\ s[to] = Quote
    BY DEF StringTo, Cuts
  <2>4. m \in Nat /\ m <= to - 1
    BY <2>1, <2>3
  <2>5. CASE m = to - 1
    <3>1. p = m /\ p + 1 = to /\ b = Quote
      BY <2>1, <2>2, <2>3, <2>4, <2>5
    <3>2. l \in {"L9", "L30"}
      BY <2>2, <2>4, <3>1 DEF Partial, HexDigits
    <3>3. k = "L33"
      <4>1. StringStep(Quote, "L5") = "L33" /\ StringStep(Quote, "L32") = "L33"
        BY DEF StringStep, Plain
      <4> QED
        BY <1>0, <3>1, <3>2, <4>1, StringGoes
    <3> QED
      BY <3>1, <3>3
  <2>6. CASE m # to - 1
    <3>1. PICK e \in B : p < e /\ UnitAt(s, m, e)
      BY <2>2, <2>6
    <3>2. e \in Nat /\ e <= to - 1
      BY <2>1, <2>3
    <3>3. IF p + 1 = e THEN k = "L30" ELSE Partial(k, s, m, p + 1)
      BY <1>0, <2>2, <2>4, <3>1, <3>2, UnitMoves
    <3>4. CASE p + 1 = e
      <4>1. Partial("L30", s, e, e)
        BY DEF Partial
      <4>2. e # to - 1 => \E f \in B : UnitAt(s, e, f) /\ e < f
        BY <2>3, <3>2, UnitLength
      <4>3. p + 1 # to
        BY <2>1, <3>2, <3>4
      <4> HIDE DEF k
      <4> QED
        BY <3>2, <3>3, <3>4, <4>1, <4>2, <4>3
    <3>5. CASE p + 1 # e
      <4>1. p + 1 # to /\ p + 1 < e /\ m <= p + 1
        BY <2>1, <2>2, <2>4, <3>1, <3>2, <3>5
      <4> HIDE DEF k
      <4> QED
        BY <3>1, <3>3, <3>5, <4>1
    <3> QED
      BY <3>4, <3>5
  <2> QED
    BY <2>5, <2>6
<1> QED
  BY <1>1, <1>2, <1>3 DEF OnWay

\* The first byte brings scan on its way.
LEMMA OnWayStarts ==
    ASSUME NEW s \in Seq(Byte), NEW from \in Nat, from < Len(s)
    PROVE  OnWay(First(s[from + 1]), s, from, from + 1)
<1> DEFINE b == s[from + 1]  k == First(b)
<1>0. b \in Byte /\ k = FirstStep(b)
  <2>1. b \in Byte
    OBVIOUS
  <2> QED
    BY <2>1, FirstSteps
<1>1. OnNumber(k, s, from, from + 1)
  <2> SUFFICES ASSUME NEW to \in (from + 1)..Len(s), NEW i \in Nat, NEW j \in Nat, NumberTo(s, from, to, i, j)
               PROVE  k = NumberLabel(s, from, i, j, from + 1)
    BY DEF OnNumber
  <2> DEFINE a == After(s, from)
  <2>1. a < i /\ a = IF b = 45 THEN from + 1 ELSE from
    BY NumberOrder DEF After
  <2>2. \A n \in (a + 1)..i : s[n] \in Digit
    BY DEF NumberTo, IntegerTo, DigitsIn
  <2>3. NumberLabel(s, from, i, j, from + 1) = IF from + 1 <= a THEN "L12"
          ELSE IF from + 1 <= i THEN IF s[a + 1] = 48 THEN "L13" ELSE "L15" ELSE NumberLabel(s, from, i, j, from + 1)
    BY DEF NumberLabel
  <2> HIDE DEF a
  <2>4. CASE b = 45
    <3>1. k = "L12"
      BY <1>0, <2>4 DEF FirstStep, White, Quote
    <3> QED
      BY <2>1, <2>3, <2>4, <3>1
  <2>5. CASE b # 45
    <3>1. a = from /\ from + 1 \in (a + 1)..i
      BY <2>1, <2>5
    <3>2. b \in Digit
      BY <2>2, <3>1
    <3>3. k = IF b = 48 THEN "L13" ELSE "L15"
      <4> HIDE DEF b
      <4> QED
        BY <1>0, <3>2 DEF FirstStep, White, Quote, Digit
    <3>4. ~(from + 1 <= a) /\ from + 1 <= i /\ s[a + 1] = b
      BY <3>1
    <3> HIDE DEF b, k
    <3>5. NumberLabel(s, from, i, j, from + 1) = IF b = 48 THEN "L13" ELSE "L15"
      BY <2>3, <3>4
    <3> QED
      BY <3>3, <3>5 DEF k, b
  <2> QED
    BY <2>4, <2>5
<1>2. OnWord(k, s, from, from + 1)
  <2> SUFFICES ASSUME NEW t \in Words, from + Len(Fixed[t]) <= Len(s), WordTo(s, from, from + Len(Fixed[t]), Fixed[t])
               PROVE  k = WordLabels[t][(from + 1) - from]
    BY DEF OnWord
  <2>1. 1 \in 1..Len(Fixed[t]) /\ Len(Fixed[t]) \in Nat
    <3> DEFINE n == Len(Fixed[t])
    <3>1. n \in 1..5
      BY WordsAre
    <3> HIDE DEF n
    <3>2. 1 \in 1..n /\ n \in Nat
      BY <3>1
    <3> QED
      BY <3>2 DEF n
  <2>2. b = Fixed[t][1]
    BY <2>1 DEF WordTo
  <2>3. Letter(t, 1, WordLabels[t][1], Fixed[t][1])
    BY <2>1, LettersAre
  <2>4. (from + 1) - from = 1
    OBVIOUS
  <2> QED
    BY <2>2, <2>3, <2>4, LetterFirst
<1>3. OnString(k, s, from, from + 1)
  <2> SUFFICES ASSUME NEW to \in (from + 1)..Len(s), NEW B, StringTo(s, from, to, B)
               PROVE  IF from + 1 = to THEN k = "L33"
                      ELSE \E m \in B : m <= from + 1 /\ Partial(k, s, m, from + 1) /\ (m = to - 1 \/ \E e \in B : from + 1 < e /\ UnitAt(s, m, e))
    BY DEF OnString
  <2>1. /\ from + 2 <= to /\ b = Quote /\ from + 1 \in B
        /\ \A x \in B \ {to - 1} : \E e \in B : UnitAt(s, x, e)
    BY DEF StringTo, Cuts
  <2>2. k = "L9"
    BY <1>0, <2>1 DEF FirstStep, White, Quote
  <2>3. Partial("L9", s, from + 1, from + 1)
    BY DEF Partial
  <2> DEFINE m == from + 1
  <2>4. m # to - 1 => \E f \in B : UnitAt(s, m, f) /\ m < f
    <3>1. m \in Nat
      OBVIOUS
    <3> HIDE DEF m
    <3> QED
      BY <2>1, <3>1, UnitLength DEF m
  <2>5. m # to /\ m \in B /\ m <= m
    BY <2>1
  <2> HIDE DEF m, k
  <2> QED
    BY <2>2, <2>3, <2>4, <2>5 DEF m
<1> QED
  BY <1>1, <1>2, <1>3 DEF OnWay

\* The labels of the parts of a number, and where scan goes from them.
InNumber == InInteger \cup InExponent

\* What scan has read of a number grows.
LEMMA NumberGrows ==
    ASSUME NEW s, NEW from \in Nat, NEW p \in Nat, from < p, NEW l \in InNumber,
           NumberSoFar(l, s, from, p)
    PROVE  NumberSoFar(To(l, s[p + 1]), s, from, p + 1)
<1> DEFINE a == After(s, from)  b == s[p + 1]
<1>1. a \in Nat /\ (a = from \/ a = from + 1) /\ a = IF s[from + 1] = 45 THEN from + 1 ELSE from
  BY DEF After
<1>2. \A x : x \in {"L5", "L14", "L32"} => NumberSoFar(x, s, from, p + 1)
  BY DEF NumberSoFar
<1>g. \A j : SignEnd(s, j) = IF s[j + 2] \in {43, 45} THEN j + 2 ELSE j + 1
  BY DEF SignEnd
<1>3. /\ To("L12", b) = IF b = 48 THEN "L13" ELSE IF b \in 49..57 THEN "L15" ELSE "L5"
      /\ To("L13", b) = IF b = 46 THEN "L43" ELSE IF b \in {69, 101} THEN "L44" ELSE "L14"
      /\ To("L15", b) = IF b \in Digit THEN "L15" ELSE IF b = 46 THEN "L43" ELSE IF b \in {69, 101} THEN "L44" ELSE "L14"
  BY IntegerGoes
<1>4. /\ To("L43", b) = IF b \in Digit THEN "L49" ELSE "L32"
      /\ To("L44", b) = IF b \in {43, 45} THEN "L51" ELSE IF b \in Digit THEN "L52" ELSE "L32"
      /\ To("L49", b) = IF b \in Digit THEN "L49" ELSE IF b \in {69, 101} THEN "L44" ELSE "L14"
      /\ To("L51", b) = IF b \in Digit THEN "L52" ELSE "L32"
      /\ To("L52", b) = IF b \in Digit THEN "L52" ELSE "L14"
  BY ExponentGoes
<1> SUFFICES NumberSoFar(To(l, b), s, from, p + 1)
  OBVIOUS
<1> HIDE DEF b
\* An exponent begins behind an integer, or behind a fraction.
<1>5. ASSUME NEW i \in Nat, NEW j \in Nat, IntegerTo(s, from, i), i <= j, FractionTo(s, i, j), j = p, b \in {69, 101}
      PROVE  NumberSoFar("L44", s, from, p + 1)
  BY <1>5 DEF NumberSoFar, b
<1>6. CASE l = "L12"
  <2>1. p = from + 1 /\ a = from + 1
    BY <1>1, <1>6 DEF NumberSoFar
  <2>2. CASE b = 48
    <3>1. NumberSoFar("L13", s, from, p + 1)
      BY <2>1, <2>2 DEF NumberSoFar, a, b
    <3> QED
      BY <1>3, <1>6, <2>2, <3>1
  <2>3. CASE b \in 49..57
    <3>1. IntegerTo(s, from, p + 1) /\ s[a + 1] # 48
      <4>1. \A n \in (a + 1)..(p + 1) : n = p + 1
        BY <2>1
      <4>2. b \in Digit /\ s[a + 1] = b
        BY <2>1, <2>3 DEF Digit, b
      <4>3. b # 48
        BY <2>3
      <4> QED
        BY <2>1, <4>1, <4>2, <4>3 DEF IntegerTo, DigitsIn, a, b
    <3>2. NumberSoFar("L15", s, from, p + 1)
      BY <3>1 DEF NumberSoFar, a
    <3>3. b # 48
      BY <2>3
    <3> QED
      BY <1>3, <1>6, <2>3, <3>2, <3>3
  <2> QED
    BY <1>2, <1>3, <1>6, <2>2, <2>3
<1>7. CASE l = "L13"
  <2>1. p = a + 1 /\ s[p] = 48
    BY <1>1, <1>7 DEF NumberSoFar, a
  <2>2. IntegerTo(s, from, p)
    <3>1. \A n \in (a + 1)..p : n = p
      BY <1>1, <2>1
    <3> QED
      BY <1>1, <2>1, <3>1 DEF IntegerTo, DigitsIn, Digit, a
  <2>3. CASE b = 46
    <3>1. NumberSoFar("L43", s, from, p + 1)
      BY <2>2, <2>3 DEF NumberSoFar, b
    <3> QED
      BY <1>3, <1>7, <2>3, <3>1
  <2>4. CASE b \in {69, 101}
    <3>1. FractionTo(s, p, p)
      BY DEF FractionTo
    <3>2. NumberSoFar("L44", s, from, p + 1)
      BY <1>5, <2>2, <2>4, <3>1
    <3> QED
      BY <1>3, <1>7, <2>4, <3>2
  <2> QED
    BY <1>2, <1>3, <1>7, <2>3, <2>4
<1>8. CASE l = "L15"
  <2>2. IntegerTo(s, from, p) /\ s[a + 1] # 48
    BY <1>8 DEF NumberSoFar, a
  <2>3. CASE b = 46
    <3>1. NumberSoFar("L43", s, from, p + 1)
      BY <2>2, <2>3 DEF NumberSoFar, b
    <3> QED
      BY <1>3, <1>8, <2>3, <3>1 DEF Digit
  <2>4. CASE b \in {69, 101}
    <3>1. FractionTo(s, p, p)
      BY DEF FractionTo
    <3>2. NumberSoFar("L44", s, from, p + 1)
      BY <1>5, <2>2, <2>4, <3>1
    <3>3. b \notin Digit /\ b # 46
      BY <2>4 DEF Digit
    <3> QED
      BY <1>3, <1>8, <2>4, <3>2, <3>3
  <2>5. CASE b \in Digit
    <3>1. \A n \in (a + 1)..(p + 1) : n = p + 1 \/ n \in (a + 1)..p
      BY <1>1
    <3>2. IntegerTo(s, from, p + 1)
      BY <1>1, <2>2, <2>5, <3>1 DEF IntegerTo, DigitsIn, a, b
    <3>3. NumberSoFar("L15", s, from, p + 1)
      BY <2>2, <3>2 DEF NumberSoFar, a
    <3> QED
      BY <1>3, <1>8, <2>5, <3>3
  <2> QED
    BY <1>2, <1>3, <1>8, <2>3, <2>4, <2>5
<1>9. CASE l = "L43"
  <2>1. IntegerTo(s, from, p - 1) /\ s[p] = 46 /\ p - 1 \in Nat
    BY <1>9 DEF NumberSoFar
  <2>2. CASE b \in Digit
    <3>1. FractionTo(s, p - 1, p + 1)
      <4>1. (p - 1) + 1 = p /\ \A n \in (((p - 1) + 1) + 1)..(p + 1) : n = p + 1
        OBVIOUS
      <4> QED
        BY <2>1, <2>2, <4>1 DEF FractionTo, DigitsIn, b
    <3>2. NumberSoFar("L49", s, from, p + 1)
      BY <2>1, <3>1 DEF NumberSoFar
    <3> QED
      BY <1>4, <1>9, <2>2, <3>2
  <2> QED
    BY <1>2, <1>4, <1>9, <2>2
<1>10. CASE l = "L49"
  <2>1. PICK i \in Nat : IntegerTo(s, from, i) /\ i < p /\ FractionTo(s, i, p)
    BY <1>10 DEF NumberSoFar
  <2>2. CASE b \in Digit
    <3>1. s[i + 1] = 46 /\ i + 1 < p /\ DigitsIn(s, i + 1, p)
      BY <2>1 DEF FractionTo
    <3>2. \A n \in ((i + 1) + 1)..(p + 1) : n = p + 1 \/ n \in ((i + 1) + 1)..p
      OBVIOUS
    <3>3. DigitsIn(s, i + 1, p + 1)
      BY <2>2, <3>1, <3>2 DEF DigitsIn, b
    <3>4. FractionTo(s, i, p + 1) /\ i < p + 1
      BY <2>1, <3>1, <3>3 DEF FractionTo
    <3>5. NumberSoFar("L49", s, from, p + 1)
      BY <2>1, <3>4 DEF NumberSoFar
    <3> QED
      BY <1>4, <1>10, <2>2, <3>5
  <2>3. CASE b \in {69, 101}
    <3>1. NumberSoFar("L44", s, from, p + 1)
      BY <1>5, <2>1, <2>3
    <3>2. b \notin Digit
      BY <2>3 DEF Digit
    <3> QED
      BY <1>4, <1>10, <2>3, <3>1, <3>2
  <2> QED
    BY <1>2, <1>4, <1>10, <2>2, <2>3
<1>11. CASE l \in {"L44", "L51", "L52"}
  <2>1. PICK i \in Nat, j \in Nat :
          /\ IntegerTo(s, from, i) /\ i <= j /\ FractionTo(s, i, j) /\ s[j + 1] \in {69, 101}
          /\ l = "L44" => p = j + 1
          /\ l = "L51" => p = j + 2 /\ p = SignEnd(s, j)
          /\ l = "L52" => SignEnd(s, j) < p /\ DigitsIn(s, SignEnd(s, j), p)
    BY <1>11 DEF NumberSoFar
  <2> DEFINE g == SignEnd(s, j)
  <2>2. g \in Nat /\ g = IF s[j + 2] \in {43, 45} THEN j + 2 ELSE j + 1
    BY <1>g
  <2>3. ASSUME g < p + 1, DigitsIn(s, g, p + 1) PROVE NumberSoFar("L52", s, from, p + 1)
    BY <2>1, <2>3 DEF NumberSoFar
  <2> HIDE DEF g
  <2>4. CASE l = "L44" /\ b \in {43, 45}
    <3>1. p + 1 = j + 2 /\ p + 1 = g
      BY <2>1, <2>2, <2>4 DEF b
    <3>2. NumberSoFar("L51", s, from, p + 1)
      BY <2>1, <3>1 DEF NumberSoFar, g
    <3> QED
      BY <1>4, <2>4, <3>2
  <2>5. CASE l = "L44" /\ b \in Digit
    <3>1. b \notin {43, 45}
      BY <2>5 DEF Digit
    <3>2. g = p /\ \A n \in (g + 1)..(p + 1) : n = p + 1
      BY <2>1, <2>2, <2>5, <3>1 DEF b
    <3>3. g < p + 1 /\ DigitsIn(s, g, p + 1)
      BY <2>5, <3>2 DEF DigitsIn, b
    <3> QED
      BY <1>4, <2>3, <2>5, <3>1, <3>3
  <2>6. CASE l = "L51" /\ b \in Digit
    <3>2. g = p /\ \A n \in (g + 1)..(p + 1) : n = p + 1
      BY <2>1, <2>6 DEF g
    <3>3. g < p + 1 /\ DigitsIn(s, g, p + 1)
      BY <2>6, <3>2 DEF DigitsIn, b
    <3> QED
      BY <1>4, <2>3, <2>6, <3>3
  <2>7. CASE l = "L52" /\ b \in Digit
    <3>1. g < p /\ DigitsIn(s, g, p)
      BY <2>1, <2>7 DEF g
    <3>2. \A n \in (g + 1)..(p + 1) : n = p + 1 \/ n \in (g + 1)..p
      BY <2>2
    <3>3. g < p + 1 /\ DigitsIn(s, g, p + 1)
      BY <2>2, <2>7, <3>1, <3>2 DEF DigitsIn, b
    <3> QED
      BY <1>4, <2>3, <2>7, <3>3
  <2> QED
    BY <1>2, <1>4, <1>11, <2>4, <2>5, <2>6, <2>7
<1> QED
  BY <1>6, <1>7, <1>8, <1>9, <1>10, <1>11 DEF InNumber, InInteger, InExponent

\* What scan has read of a string grows.
LEMMA StringGrows ==
    ASSUME NEW s, NEW from \in Nat, NEW p \in Nat, s[p + 1] \in Byte, NEW l \in InString,
           StringSoFar(l, s, from, p)
    PROVE  StringSoFar(To(l, s[p + 1]), s, from, p + 1)
<1> DEFINE b == s[p + 1]  k == To(l, b)
<1>1. s[from + 1] = Quote
  BY DEF StringSoFar
<1>a. PICK m \in Nat : \E B : Cuts(s, from, m, B) /\ Partial(l, s, m, p)
  BY DEF StringSoFar
<1>2. PICK B : Cuts(s, from, m, B) /\ Partial(l, s, m, p)
  BY <1>a
<1>3. Gone(k, b, s, m, p)
  BY <1>2, PartialMoves
<1> SUFFICES StringSoFar(k, s, from, p + 1)
  OBVIOUS
<1>b. b = s[p + 1]
  OBVIOUS
<1>m. from + 1 <= m /\ B \subseteq (from + 1)..m /\ from + 1 \in B /\ m \in B /\ \A x \in B \ {m} : \E e \in B : UnitAt(s, x, e)
  BY <1>2 DEF Cuts
<1> HIDE DEF k, b
<1>4. CASE k \in {"L5", "L32"}
  BY <1>4 DEF StringSoFar, InString, Continuing, HexDigits
<1>5. CASE k = "L33" /\ p = m /\ b = Quote
  <2>1. from + 2 <= p + 1 /\ (p + 1) - 1 = p
    BY <1>5, <1>m
  <2>2. StringTo(s, from, p + 1, B)
    BY <1>1, <1>2, <1>5, <1>b, <2>1 DEF StringTo
  <2> QED
    BY <1>5, <2>2 DEF StringSoFar, InString, Continuing, HexDigits
<1>6. CASE k \in InString /\ Partial(k, s, m, p + 1)
  <2>1. k # "L33"
    BY <1>6 DEF InString, Continuing, HexDigits
  <2> QED
    BY <1>1, <1>2, <1>6, <2>1 DEF StringSoFar
<1>7. CASE k = "L30" /\ UnitAt(s, m, p + 1)
  <2> DEFINE e == p + 1  D == B \cup {e}
  <2>1. e \in Nat /\ m < e
    BY <1>7, UnitLength
  <2>2. UnitAt(s, m, e)
    BY <1>7
  <2>3. Partial("L30", s, e, e)
    BY DEF Partial
  <2> HIDE DEF e
  <2>4. Cuts(s, from, e, D)
    <3>1. D \subseteq (from + 1)..e
      BY <1>m, <2>1
    <3>2. ASSUME NEW x \in D \ {e} PROVE \E f \in D : UnitAt(s, x, f)
      <4>1. x \in B
        OBVIOUS
      <4>2. CASE x = m
        BY <2>2, <4>2
      <4>3. CASE x # m
        BY <1>m, <4>1, <4>3
      <4> QED
        BY <4>2, <4>3
    <3> QED
      BY <1>m, <3>1, <3>2 DEF Cuts
  <2>5. StringSoFar("L30", s, from, e)
    BY <1>1, <2>1, <2>3, <2>4 DEF StringSoFar
  <2> QED
    BY <1>7, <2>5 DEF e
<1> QED
  BY <1>3, <1>4, <1>5, <1>6, <1>7 DEF Gone

\* What scan has read of a word grows.
LEMMA WordGrows ==
    ASSUME NEW s, NEW from \in Nat, NEW p \in Nat, from < p, NEW l \in InLiteral, WordSoFar(l, s, from, p)
    PROVE  WordSoFar(To(l, s[p + 1]), s, from, p + 1)
<1> DEFINE b == s[p + 1]  k == To(l, b)
<1> SUFFICES ASSUME NEW t \in Words, NEW n \in 1..Len(Fixed[t]), k = WordLabels[t][n]
             PROVE  p + 1 = from + n /\ WordTo(s, from, p + 1, Fixed[t])
  BY DEF WordSoFar
<1> DEFINE w == Fixed[t]
<1>0. n \in Nat /\ Len(w) \in Nat /\ n <= Len(w)
  BY WordsAre
<1>1. Letter(t, n, k, w[n])
  BY LettersAre
<1>2. n > 1 /\ b = w[n] /\ \E d : Letter(t, n - 1, l, d)
  BY <1>0, <1>1, LetterCame
<1>3. n - 1 \in 1..Len(w)
  BY <1>0, <1>2
<1>4. Letter(t, n - 1, WordLabels[t][n - 1], w[n - 1])
  BY <1>3, LettersAre
<1>5. l = WordLabels[t][n - 1]
  BY <1>2, <1>4 DEF Letter
<1>6. p = from + (n - 1) /\ WordTo(s, from, p, w)
  BY <1>3, <1>5 DEF WordSoFar
<1> HIDE DEF w, b
<1>7. p + 1 = from + n /\ (p + 1) - from = n /\ p - from = n - 1
  BY <1>0, <1>6
<1>8. ASSUME NEW x \in 1..n PROVE s[from + x] = w[x]
  <2>1. CASE x = n
    BY <1>2, <1>7, <2>1 DEF b
  <2>2. CASE x # n
    <3>1. x \in 1..(n - 1)
      BY <1>0, <2>2
    <3> QED
      BY <1>6, <1>7, <3>1 DEF WordTo
  <2> QED
    BY <2>1, <2>2
<1>9. WordTo(s, from, p + 1, w)
  BY <1>0, <1>7, <1>8 DEF WordTo
<1> QED
  BY <1>7, <1>9 DEF w

\* The labels that are in no token.
Elsewhere == {"L5", "L14", "L32", "scan"}

\* A label of one group says nothing of the others.
LEMMA Apart ==
    ASSUME NEW s, NEW from, NEW p
    PROVE  /\ \A k : k \notin InNumber => NumberSoFar(k, s, from, p)
           /\ \A k : k \notin InString \cup {"L33"} => StringSoFar(k, s, from, p)
           /\ \A k : k \in InNumber \cup InString \cup {"L33"} \cup Elsewhere => WordSoFar(k, s, from, p)
<1>1. ASSUME NEW k, k \notin InNumber PROVE NumberSoFar(k, s, from, p)
  BY <1>1 DEF NumberSoFar, InNumber, InInteger, InExponent
<1>2. ASSUME NEW k, k \notin InString \cup {"L33"} PROVE StringSoFar(k, s, from, p)
  BY <1>2 DEF StringSoFar
<1>3. ASSUME NEW k, k \in InNumber \cup InString \cup {"L33"} \cup Elsewhere PROVE WordSoFar(k, s, from, p)
  <2> SUFFICES ASSUME NEW t \in Words, NEW n \in 1..Len(Fixed[t]), k = WordLabels[t][n] PROVE FALSE
    BY DEF WordSoFar
  <2>1. Letter(t, n, k, Fixed[t][n])
    BY LettersAre
  <2>2. k \in InLiteral \cup {"L2", "L10", "L17", "L19", "L21", "L26", "L28", "L59", "L61", "L64"}
    BY <2>1 DEF Letter, InLiteral
  <2> QED
    BY <1>3, <2>2 DEF InLiteral, InNumber, InInteger, InExponent, InString, Continuing, HexDigits, Elsewhere
<1> QED
  BY <1>1, <1>2, <1>3

\* scan stays in the kind of token it is in.
LEMMA Stays ==
    ASSUME NEW l, NEW b \in Byte
    PROVE  /\ l \in InNumber => To(l, b) \in InNumber \cup {"L5", "L14", "L32"}
           /\ l \in InString => To(l, b) \in InString \cup {"L33", "L5", "L32"}
           /\ l \in InLiteral => To(l, b) \in InLiteral \cup {"L59", "L61", "L64", "L5", "L32"}
<1>1. ASSUME l \in InInteger PROVE To(l, b) \in InNumber \cup {"L5", "L14", "L32"}
  BY <1>1, IntegerGoes DEF InInteger, InNumber, InExponent
<1>2. ASSUME l \in InExponent PROVE To(l, b) \in InNumber \cup {"L5", "L14", "L32"}
  BY <1>2, ExponentGoes DEF InInteger, InNumber, InExponent
<1>3. ASSUME l \in {"L9", "L30"} PROVE To(l, b) \in InString \cup {"L33", "L5", "L32"}
  <2>1. \A o \in {"L5", "L32"} : StringStep(b, o) \in InString \cup {"L33", "L5", "L32"}
    BY DEF StringStep, InString, Continuing
  <2> QED
    BY <1>3, <2>1, StringGoes
<1>4. ASSUME l = "L35" PROVE To(l, b) \in InString \cup {"L33", "L5", "L32"}
  BY <1>4, EscapeGoes DEF InString, HexDigits
<1>5. ASSUME l \in Continuing PROVE To(l, b) \in InString \cup {"L33", "L5", "L32"}
  BY <1>5, ContinuationGoes DEF InString, Continuing
<1>6. ASSUME l \in HexDigits PROVE To(l, b) \in InString \cup {"L33", "L5", "L32"}
  BY <1>6, HexGoes DEF InString, HexDigits
<1>7. ASSUME l \in {"L23", "L45", "L54", "L58"} PROVE To(l, b) \in InLiteral \cup {"L59", "L61", "L64", "L5", "L32"}
  BY <1>7, LiteralGoes DEF InLiteral
<1>8. ASSUME l \in {"L24", "L46", "L55"} PROVE To(l, b) \in InLiteral \cup {"L59", "L61", "L64", "L5", "L32"}
  BY <1>8, LiteralGoes DEF InLiteral
<1>9. ASSUME l \in {"L25", "L47", "L56"} PROVE To(l, b) \in InLiteral \cup {"L59", "L61", "L64", "L5", "L32"}
  BY <1>9, LiteralGoes DEF InLiteral
<1>10. l \in InLiteral => l \in {"L23", "L45", "L54", "L58"} \/ l \in {"L24", "L46", "L55"} \/ l \in {"L25", "L47", "L56"}
  BY DEF InLiteral
<1>11. l \in InString => l \in {"L9", "L30"} \/ l = "L35" \/ l \in Continuing \/ l \in HexDigits
  BY DEF InString
<1>12. l \in InNumber => l \in InInteger \/ l \in InExponent
  BY DEF InNumber
<1> QED
  BY <1>1, <1>2, <1>3, <1>4, <1>5, <1>6, <1>7, <1>8, <1>9, <1>10, <1>11, <1>12

\* The labels in tokens.
InToken == InNumber \cup InString \cup InLiteral

\* They are all that read a byte, but for the one between tokens.
LEMMA MovingIs == Moving = InToken \cup {"L6"}
BY DEF Moving, InToken, InNumber, InString, Between

\* What scan has read of a token grows.
LEMMA SoFarGrows ==
    ASSUME NEW s, NEW from \in Nat, NEW p \in Nat, from < p, s[p + 1] \in Byte, NEW l \in InToken, SoFar(l, s, from, p)
    PROVE  SoFar(To(l, s[p + 1]), s, from, p + 1)
<1> DEFINE k == To(l, s[p + 1])
<1>1. CASE l \in InNumber
  <2>1. NumberSoFar(k, s, from, p + 1)
    BY <1>1, NumberGrows DEF SoFar
  <2>2. k \in InNumber \cup {"L5", "L14", "L32"}
    BY <1>1, Stays
  <2> HIDE DEF k
  <2>3. k \notin InString \cup {"L33"} /\ k \in InNumber \cup InString \cup {"L33"} \cup Elsewhere
    BY <2>2 DEF InNumber, InInteger, InExponent, InString, Continuing, HexDigits, Elsewhere
  <2> QED
    BY <2>1, <2>3, Apart DEF SoFar, k
<1>2. CASE l \in InString
  <2>1. StringSoFar(k, s, from, p + 1)
    BY <1>2, StringGrows DEF SoFar
  <2>2. k \in InString \cup {"L33", "L5", "L32"}
    BY <1>2, Stays
  <2> HIDE DEF k
  <2>3. k \notin InNumber /\ k \in InNumber \cup InString \cup {"L33"} \cup Elsewhere
    BY <2>2 DEF InNumber, InInteger, InExponent, InString, Continuing, HexDigits, Elsewhere
  <2> QED
    BY <2>1, <2>3, Apart DEF SoFar, k
<1>3. CASE l \in InLiteral
  <2>1. WordSoFar(k, s, from, p + 1)
    BY <1>3, WordGrows DEF SoFar
  <2>2. k \in InLiteral \cup {"L59", "L61", "L64", "L5", "L32"}
    BY <1>3, Stays
  <2> HIDE DEF k
  <2>3. k \notin InNumber /\ k \notin InString \cup {"L33"}
    BY <2>2 DEF InNumber, InInteger, InExponent, InString, Continuing, HexDigits, InLiteral
  <2> QED
    BY <2>1, <2>3, Apart DEF SoFar, k
<1> QED
  BY <1>1, <1>2, <1>3 DEF InToken

\* What it has read behind the first byte.
LEMMA SoFarStarts ==
    ASSUME NEW s, NEW from \in Nat, s[from + 1] \in Byte, First(s[from + 1]) # "L6"
    PROVE  SoFar(First(s[from + 1]), s, from, from + 1)
<1> DEFINE b == s[from + 1]  k == First(b)
<1>0. k = FirstStep(b) /\ b \in Byte
  BY FirstSteps
<1>b. b = s[from + 1]
  OBVIOUS
<1> SUFFICES SoFar(k, s, from, from + 1)
  OBVIOUS
<1>w. WordSoFar(k, s, from, from + 1)
  <2> SUFFICES ASSUME NEW t \in Words, NEW n \in 1..Len(Fixed[t]), k = WordLabels[t][n]
               PROVE  from + 1 = from + n /\ WordTo(s, from, from + 1, Fixed[t])
    BY DEF WordSoFar
  <2> DEFINE w == Fixed[t]
  <2>1. n \in Nat /\ Len(w) \in Nat /\ n <= Len(w)
    BY WordsAre
  <2>2. Letter(t, n, k, w[n])
    BY LettersAre
  <2>3. n = 1 /\ b = w[n]
    BY <1>0, <2>1, <2>2, FirstLetter
  <2> HIDE DEF w, k, b
  <2>4. WordTo(s, from, from + 1, w)
    <3>1. (from + 1) - from = 1 /\ from + 1 <= from + Len(w)
      BY <2>1, <2>3
    <3>2. ASSUME NEW x \in 1..1 PROVE s[from + x] = w[x]
      <4>1. x = 1
        OBVIOUS
      <4> QED
        BY <1>b, <2>3, <4>1
    <3> QED
      BY <3>1, <3>2 DEF WordTo
  <2> QED
    BY <2>3, <2>4 DEF w
<1> HIDE DEF k, b
<1>1. CASE b = Quote
  <2>1. k = "L9"
    BY <1>0, <1>1 DEF FirstStep, White, Quote
  <2>2. Cuts(s, from, from + 1, {from + 1}) /\ Partial("L9", s, from + 1, from + 1)
    BY DEF Cuts, Partial
  <2>3. StringSoFar(k, s, from, from + 1)
    <3>1. from + 1 \in Nat
      OBVIOUS
    <3> QED
      BY <1>b, <1>1, <2>1, <2>2, <3>1 DEF StringSoFar
  <2>4. k \notin InNumber
    BY <2>1 DEF InNumber, InInteger, InExponent
  <2> QED
    BY <1>w, <2>3, <2>4, Apart DEF SoFar
<1>2. CASE b = 45 \/ b \in Digit
  <2>1. (b = 45 /\ k = "L12") \/ (b = 48 /\ k = "L13") \/ (b \in 49..57 /\ k = "L15")
    BY <1>0, <1>2 DEF FirstStep, White, Quote, Digit
  <2>2. k \notin InString \cup {"L33"}
    BY <2>1 DEF InString, Continuing, HexDigits
  <2>3. NumberSoFar(k, s, from, from + 1)
    <3>1. CASE b = 45 /\ k = "L12"
      BY <1>b, <3>1 DEF NumberSoFar
    <3>2. CASE b = 48 /\ k = "L13"
      BY <1>b, <3>2 DEF NumberSoFar, After
    <3>3. CASE b \in 49..57 /\ k = "L15"
      <4>1. After(s, from) = from /\ s[from + 1] \in Digit /\ s[from + 1] # 48
        BY <1>b, <3>3 DEF After, Digit
      <4>2. \A n \in (from + 1)..(from + 1) : n = from + 1
        OBVIOUS
      <4>3. IntegerTo(s, from, from + 1)
        BY <4>1, <4>2 DEF IntegerTo, DigitsIn
      <4> QED
        BY <3>3, <4>1, <4>3 DEF NumberSoFar
    <3> QED
      BY <2>1, <3>1, <3>2, <3>3
  <2> QED
    BY <1>w, <2>2, <2>3, Apart DEF SoFar
<1>3. CASE b # Quote /\ b # 45 /\ b \notin Digit
  <2>1. k \notin {"L9", "L12", "L13", "L15"}
    BY <1>0, <1>3 DEF FirstStep, Digit
  <2>2. k \in {"L2", "L6", "L10", "L17", "L19", "L21", "L23", "L24", "L25", "L26", "L28", "L4", "L9", "L12", "L13", "L15"}
    BY <1>0 DEF FirstStep
  <2>3. k \notin InNumber /\ k \notin InString \cup {"L33"}
    BY <2>1, <2>2 DEF InNumber, InInteger, InExponent, InString, Continuing, HexDigits
  <2> QED
    BY <1>w, <2>3, Apart DEF SoFar
<1> QED
  BY <1>1, <1>2, <1>3

\* A token of the grammar, by its bytes.
TokenAt(s, from, to) ==
    \/ \E i \in Nat, j \in Nat : NumberTo(s, from, to, i, j)
    \/ \E B : StringTo(s, from, to, B)
    \/ \E t \in Words : to = from + Len(Fixed[t]) /\ WordTo(s, from, to, Fixed[t])

\* What Is says of each type.
LEMMA IsOf ==
    ASSUME NEW u
    PROVE  /\ Is("value_number", u) <=> IsNumber(u)
           /\ Is("value_string", u) <=> IsString(u)
           /\ \A t \in Words : Is(t, u) <=> u = Fixed[t]
<1>1. (Is("value_number", u) <=> IsNumber(u)) /\ (Is("value_string", u) <=> IsString(u))
  <2> HIDE DEF IsNumber, IsString
  <2> QED
    BY DEF Is
<1>2. ASSUME NEW t \in Words PROVE Is(t, u) <=> u = Fixed[t]
  <2>1. t # "value_number" /\ t # "value_string"
    BY FixedIs DEF WordNames
  <2> QED
    BY <2>1 DEF Is
<1> QED
  BY <1>1, <1>2

\* A token of a text.
LEMMA TokenHere ==
    ASSUME NEW s \in Seq(Byte), NEW from \in Nat, NEW to \in Nat, from < to, to <= Len(s)
    PROVE  IsToken(SubSeq(s, from + 1, to)) <=> TokenAt(s, from, to)
<1> DEFINE u == SubSeq(s, from + 1, to)
<1>1. IsNumber(u) <=> \E i \in Nat, j \in Nat : NumberTo(s, from, to, i, j)
  BY NumberHere
<1>2. IsString(u) <=> \E B : StringTo(s, from, to, B)
  BY StringHere
<1>3. \A t \in Words : u = Fixed[t] <=> to = from + Len(Fixed[t]) /\ WordTo(s, from, to, Fixed[t])
  BY WordHere
<1> HIDE DEF u
<1>4. IsToken(u) <=> IsNumber(u) \/ IsString(u) \/ \E t \in Words : u = Fixed[t]
  <2>1. IsToken(u) <=> \E t \in Words \cup {"value_number", "value_string"} : Is(t, u)
    BY DEF IsToken, Words
  <2> QED
    BY <2>1, IsOf
<1> QED
  BY <1>1, <1>2, <1>3, <1>4 DEF TokenAt, u

\* The labels whose token is complete behind the byte they were reached with.
Complete == {"L2", "L10", "L17", "L19", "L21", "L26", "L28", "L33", "L59", "L61", "L64"}
NumberEnds == {"L13", "L15", "L49", "L52"}

\* No token is complete where scan is not at such a label.
LEMMA NoneHere ==
    ASSUME NEW s \in Seq(Byte), NEW from \in Nat, NEW p \in Nat, from < p, p <= Len(s),
           NEW l, l \notin Complete, l \notin NumberEnds, OnWay(l, s, from, p)
    PROVE  ~TokenAt(s, from, p)
<1>1. ASSUME NEW i \in Nat, NEW j \in Nat, NumberTo(s, from, p, i, j) PROVE FALSE
  <2> DEFINE a == After(s, from)  g == SignEnd(s, j)
  <2>1. l = NumberLabel(s, from, i, j, p)
    <3>1. p \in p..Len(s)
      OBVIOUS
    <3> QED
      BY <1>1, <3>1 DEF OnWay, OnNumber
  <2>a. /\ After(s, from) \in {from, from + 1} /\ After(s, from) < i /\ i <= j /\ j <= p
        /\ SignEnd(s, j) \in {j + 1, j + 2} /\ (j # p => SignEnd(s, j) < p)
    BY <1>1, NumberOrder
  <2>2. a \in Nat /\ a < i /\ i <= j /\ j <= p /\ g \in Nat /\ (j # p => g < p) /\ g > j
    BY <2>a
  <2>3. j # i => i + 1 < j
    BY <1>1 DEF NumberTo, FractionTo
  <2> HIDE DEF a, g
  <2>4. l = IF p <= a THEN "L12" ELSE IF p <= i THEN IF s[a + 1] = 48 THEN "L13" ELSE "L15"
            ELSE IF p <= j THEN IF p = i + 1 THEN "L43" ELSE "L49"
            ELSE IF p = j + 1 THEN "L44" ELSE IF p <= g THEN "L51" ELSE "L52"
    BY <2>1 DEF NumberLabel, a, g
  <2>5. l \in NumberEnds
    <3>1. ~(p <= a) /\ (p <= i => p = i) /\ (p > i /\ p <= j => p = j /\ p # i + 1) /\ (p > j => ~(p = j + 1) /\ ~(p <= g))
      BY <2>2, <2>3
    <3> QED
      BY <2>4, <3>1 DEF NumberEnds
  <2> QED
    BY <2>5
<1>2. ASSUME NEW B, StringTo(s, from, p, B) PROVE FALSE
  <2>1. p \in p..Len(s)
    OBVIOUS
  <2>2. l = "L33"
    BY <1>2, <2>1 DEF OnWay, OnString
  <2> QED
    BY <2>2 DEF Complete
<1>3. ASSUME NEW t \in Words, p = from + Len(Fixed[t]), WordTo(s, from, p, Fixed[t]) PROVE FALSE
  <2> DEFINE n == Len(Fixed[t])
  <2>1. n \in 1..5
    BY WordsAre
  <2> HIDE DEF n
  <2>2. p - from = n /\ p <= p /\ n \in 1..n
    BY <1>3, <2>1 DEF n
  <2>3. l = WordLabels[t][n]
    BY <1>3, <2>2 DEF OnWay, OnWord, n
  <2>4. Letter(t, n, l, Fixed[t][n])
    BY <2>2, <2>3, LettersAre DEF n
  <2>5. n = IF t = "literal_false" THEN 5 ELSE IF t \in {"literal_true", "literal_null"} THEN 4 ELSE 1
    <3>1. t \in WordNames
      BY FixedIs
    <3>2. CASE t = "literal_false"
      BY <3>2, FixedIs DEF n
    <3>3. CASE t = "literal_true"
      BY <3>3, FixedIs DEF n
    <3>4. CASE t = "literal_null"
      BY <3>4, FixedIs DEF n
    <3>5. CASE t = "begin_array"
      <4>1. Fixed[t] = <<91>>
        BY <3>5, FixedIs
      <4>2. Len(<<91>>) = 1
        OBVIOUS
      <4>3. n = 1
        BY <4>1, <4>2 DEF n
      <4> QED
        BY <3>5, <4>3
    <3>6. CASE t = "end_array"
      <4>1. Fixed[t] = <<93>>
        BY <3>6, FixedIs
      <4>2. Len(<<93>>) = 1
        OBVIOUS
      <4>3. n = 1
        BY <4>1, <4>2 DEF n
      <4> QED
        BY <3>6, <4>3
    <3>7. CASE t = "begin_object"
      <4>1. Fixed[t] = <<123>>
        BY <3>7, FixedIs
      <4>2. Len(<<123>>) = 1
        OBVIOUS
      <4>3. n = 1
        BY <4>1, <4>2 DEF n
      <4> QED
        BY <3>7, <4>3
    <3>8. CASE t = "end_object"
      <4>1. Fixed[t] = <<125>>
        BY <3>8, FixedIs
      <4>2. Len(<<125>>) = 1
        OBVIOUS
      <4>3. n = 1
        BY <4>1, <4>2 DEF n
      <4> QED
        BY <3>8, <4>3
    <3>9. CASE t = "name_separator"
      <4>1. Fixed[t] = <<58>>
        BY <3>9, FixedIs
      <4>2. Len(<<58>>) = 1
        OBVIOUS
      <4>3. n = 1
        BY <4>1, <4>2 DEF n
      <4> QED
        BY <3>9, <4>3
    <3>10. CASE t = "value_separator"
      <4>1. Fixed[t] = <<44>>
        BY <3>10, FixedIs
      <4>2. Len(<<44>>) = 1
        OBVIOUS
      <4>3. n = 1
        BY <4>1, <4>2 DEF n
      <4> QED
        BY <3>10, <4>3
    <3>11. CASE t = "end_of_input"
      <4>1. Fixed[t] = <<0>>
        BY <3>11, FixedIs
      <4>2. Len(<<0>>) = 1
        OBVIOUS
      <4>3. n = 1
        BY <4>1, <4>2 DEF n
      <4> QED
        BY <3>11, <4>3
    <3> QED
      BY <3>1, <3>2, <3>3, <3>4, <3>5, <3>6, <3>7, <3>8, <3>9, <3>10, <3>11 DEF WordNames
  <2>6. l \in Complete
    BY <2>4, <2>5 DEF Letter, Complete
  <2> QED
    BY <2>6
<1> QED
  BY <1>1, <1>2, <1>3 DEF TokenAt

\* No token goes on where scan has left off.
LEMMA NoneLater ==
    ASSUME NEW s \in Seq(Byte), NEW from \in Nat, NEW p \in Nat, from < p,
           NEW l, l \notin InToken, OnWay(l, s, from, p), NEW to \in (p + 1)..Len(s)
    PROVE  ~TokenAt(s, from, to)
<1>0. to \in Nat /\ p < to /\ to \in p..Len(s) /\ p # to
  OBVIOUS
<1>1. ASSUME NEW i \in Nat, NEW j \in Nat, NumberTo(s, from, to, i, j) PROVE FALSE
  <2>1. l = NumberLabel(s, from, i, j, p)
    BY <1>0, <1>1 DEF OnWay, OnNumber
  <2>2. l \in InNumber
    BY <2>1 DEF NumberLabel, InNumber, InInteger, InExponent
  <2> QED
    BY <2>2 DEF InToken
<1>2. ASSUME NEW B, StringTo(s, from, to, B) PROVE FALSE
  <2>1. \E m : Partial(l, s, m, p)
    BY <1>0, <1>2 DEF OnWay, OnString
  <2>2. l \in InString
    BY <2>1 DEF Partial, InString, Continuing
  <2> QED
    BY <2>2 DEF InToken
<1>3. ASSUME NEW t \in Words, to = from + Len(Fixed[t]), WordTo(s, from, to, Fixed[t]) PROVE FALSE
  <2> DEFINE w == Fixed[t]  n == p - from
  <2>1. Len(w) \in Nat
    BY WordsAre
  <2> HIDE DEF w
  <2>2. n \in Nat /\ n \in 1..Len(w) /\ n + 1 \in 1..Len(w) /\ p <= to
    BY <1>0, <1>3, <2>1 DEF w
  <2>3. l = WordLabels[t][n]
    BY <1>0, <1>3, <2>2 DEF OnWay, OnWord, w
  <2> HIDE DEF n
  <2>4. Letter(t, n, l, w[n]) /\ Letter(t, n + 1, WordLabels[t][n + 1], w[n + 1])
    BY <2>2, <2>3, LettersAre DEF w
  <2>5. l \in InLiteral
    BY <2>2, <2>4 DEF Letter, InLiteral
  <2> QED
    BY <2>5 DEF InToken
<1> QED
  BY <1>1, <1>2, <1>3 DEF TokenAt

\* Where a number may end it is one.
LEMMA NumberFound ==
    ASSUME NEW s, NEW from \in Nat, NEW p \in Nat, NEW l \in NumberEnds, NumberSoFar(l, s, from, p)
    PROVE  \E i \in Nat, j \in Nat : NumberTo(s, from, p, i, j)
<1>0. FractionTo(s, p, p) /\ ExponentTo(s, p, p)
  BY DEF FractionTo, ExponentTo
<1>1. CASE l = "L13"
  <2>1. p = After(s, from) + 1 /\ s[p] = 48 /\ After(s, from) \in Nat
    BY <1>1 DEF NumberSoFar, After
  <2>2. \A n \in (After(s, from) + 1)..p : n = p
    BY <2>1
  <2>3. IntegerTo(s, from, p)
    BY <2>1, <2>2 DEF IntegerTo, DigitsIn, Digit
  <2> QED
    BY <1>0, <2>3 DEF NumberTo
<1>2. CASE l = "L15"
  BY <1>0, <1>2 DEF NumberSoFar, NumberTo
<1>3. CASE l = "L49"
  BY <1>0, <1>3 DEF NumberSoFar, NumberTo
<1>4. CASE l = "L52"
  <2>1. PICK i \in Nat, j \in Nat :
          /\ IntegerTo(s, from, i) /\ i <= j /\ FractionTo(s, i, j) /\ s[j + 1] \in {69, 101}
          /\ SignEnd(s, j) < p /\ DigitsIn(s, SignEnd(s, j), p)
    BY <1>4 DEF NumberSoFar
  <2>2. ExponentTo(s, j, p)
    BY <2>1 DEF ExponentTo
  <2> QED
    BY <2>1, <2>2 DEF NumberTo
<1> QED
  BY <1>1, <1>2, <1>3, <1>4 DEF NumberEnds

\* The word a complete label has read.
LEMMA WordFound ==
    ASSUME NEW s \in Seq(Byte), NEW from \in Nat, NEW p \in Nat, from < p, p <= Len(s),
           NEW l, NEW t \in Words, l = WordLabels[t][Len(Fixed[t])], WordSoFar(l, s, from, p)
    PROVE  Is(t, SubSeq(s, from + 1, p))
<1> DEFINE n == Len(Fixed[t])
<1>1. n \in 1..5
  BY WordsAre
<1> HIDE DEF n
<1>2. n \in 1..n
  BY <1>1
<1>3. p = from + n /\ WordTo(s, from, p, Fixed[t])
  BY <1>2 DEF WordSoFar, n
<1>4. SubSeq(s, from + 1, p) = Fixed[t]
  BY <1>3, WordHere DEF n
<1> QED
  BY <1>4, IsOf

\* What scan returns there is a token of that type.
LEMMA CompleteIs ==
    ASSUME NEW s \in Seq(Byte), NEW from \in Nat, NEW p \in Nat, from < p, p <= Len(s),
           NEW l \in Complete, SoFar(l, s, from, p)
    PROVE  Is(Ends[l], SubSeq(s, from + 1, p))
<1>1. CASE l = "L33"
  <2>1. \E B : StringTo(s, from, p, B)
    BY <1>1 DEF SoFar, StringSoFar
  <2>2. IsString(SubSeq(s, from + 1, p))
    BY <2>1, StringHere
  <2>3. Ends[l] = "value_string"
    BY <1>1 DEF Ends
  <2> QED
    BY <2>2, <2>3, IsOf
<1>2. CASE l # "L33"
  <2>1. WordSoFar(l, s, from, p)
    BY DEF SoFar
  <2>2. Ends[l] \in Words /\ l = WordLabels[Ends[l]][Len(Fixed[Ends[l]])]
    <3>1. CASE l = "L19"
      <4>1. Ends[l] = "begin_array"
        BY <3>1 DEF Ends
      <4>2. WordLabels["begin_array"] = <<"L19">>
        BY DEF WordLabels
      <4>3. Fixed["begin_array"] = <<91>> /\ "begin_array" \in Words
        BY FixedIs DEF WordNames
      <4>4. Len(<<91>>) = 1
        OBVIOUS
      <4>5. <<"L19">>[1] = "L19"
        OBVIOUS
      <4> QED
        BY <3>1, <4>1, <4>2, <4>3, <4>4, <4>5
    <3>2. CASE l = "L21"
      <4>1. Ends[l] = "end_array"
        BY <3>2 DEF Ends
      <4>2. WordLabels["end_array"] = <<"L21">>
        BY DEF WordLabels
      <4>3. Fixed["end_array"] = <<93>> /\ "end_array" \in Words
        BY FixedIs DEF WordNames
      <4>4. Len(<<93>>) = 1
        OBVIOUS
      <4>5. <<"L21">>[1] = "L21"
        OBVIOUS
      <4> QED
        BY <3>2, <4>1, <4>2, <4>3, <4>4, <4>5
    <3>3. CASE l = "L26"
      <4>1. Ends[l] = "begin_object"
        BY <3>3 DEF Ends
      <4>2. WordLabels["begin_object"] = <<"L26">>
        BY DEF WordLabels
      <4>3. Fixed["begin_object"] = <<123>> /\ "begin_object" \in Words
        BY FixedIs DEF WordNames
      <4>4. Len(<<123>>) = 1
        OBVIOUS
      <4>5. <<"L26">>[1] = "L26"
        OBVIOUS
      <4> QED
        BY <3>3, <4>1, <4>2, <4>3, <4>4, <4>5
    <3>4. CASE l = "L28"
      <4>1. Ends[l] = "end_object"
        BY <3>4 DEF Ends
      <4>2. WordLabels["end_object"] = <<"L28">>
        BY DEF WordLabels
      <4>3. Fixed["end_object"] = <<125>> /\ "end_object" \in Words
        BY FixedIs DEF WordNames
      <4>4. Len(<<125>>) = 1
        OBVIOUS
      <4>5. <<"L28">>[1] = "L28"
        OBVIOUS
      <4> QED
        BY <3>4, <4>1, <4>2, <4>3, <4>4, <4>5
    <3>5. CASE l = "L17"
      <4>1. Ends[l] = "name_separator"
        BY <3>5 DEF Ends
      <4>2. WordLabels["name_separator"] = <<"L17">>
        BY DEF WordLabels
      <4>3. Fixed["name_separator"] = <<58>> /\ "name_separator" \in Words
        BY FixedIs DEF WordNames
      <4>4. Len(<<58>>) = 1
        OBVIOUS
      <4>5. <<"L17">>[1] = "L17"
        OBVIOUS
      <4> QED
        BY <3>5, <4>1, <4>2, <4>3, <4>4, <4>5
    <3>6. CASE l = "L10"
      <4>1. Ends[l] = "value_separator"
        BY <3>6 DEF Ends
      <4>2. WordLabels["value_separator"] = <<"L10">>
        BY DEF WordLabels
      <4>3. Fixed["value_separator"] = <<44>> /\ "value_separator" \in Words
        BY FixedIs DEF WordNames
      <4>4. Len(<<44>>) = 1
        OBVIOUS
      <4>5. <<"L10">>[1] = "L10"
        OBVIOUS
      <4> QED
        BY <3>6, <4>1, <4>2, <4>3, <4>4, <4>5
    <3>7. CASE l = "L2"
      <4>1. Ends[l] = "end_of_input"
        BY <3>7 DEF Ends
      <4>2. WordLabels["end_of_input"] = <<"L2">>
        BY DEF WordLabels
      <4>3. Fixed["end_of_input"] = <<0>> /\ "end_of_input" \in Words
        BY FixedIs DEF WordNames
      <4>4. Len(<<0>>) = 1
        OBVIOUS
      <4>5. <<"L2">>[1] = "L2"
        OBVIOUS
      <4> QED
        BY <3>7, <4>1, <4>2, <4>3, <4>4, <4>5
    <3>8. CASE l = "L61"
      <4>1. Ends[l] = "literal_true"
        BY <3>8 DEF Ends
      <4>2. WordLabels["literal_true"] = <<"L25", "L47", "L56", "L61">>
        BY DEF WordLabels
      <4>3. Fixed["literal_true"] = <<116, 114, 117, 101>> /\ "literal_true" \in Words
        BY FixedIs DEF WordNames
      <4>4. Len(<<116, 114, 117, 101>>) = 4
        OBVIOUS
      <4>5. <<"L25", "L47", "L56", "L61">>[4] = "L61"
        OBVIOUS
      <4> QED
        BY <3>8, <4>1, <4>2, <4>3, <4>4, <4>5
    <3>9. CASE l = "L64"
      <4>1. Ends[l] = "literal_false"
        BY <3>9 DEF Ends
      <4>2. WordLabels["literal_false"] = <<"L23", "L45", "L54", "L58", "L64">>
        BY DEF WordLabels
      <4>3. Fixed["literal_false"] = <<102, 97, 108, 115, 101>> /\ "literal_false" \in Words
        BY FixedIs DEF WordNames
      <4>4. Len(<<102, 97, 108, 115, 101>>) = 5
        OBVIOUS
      <4>5. <<"L23", "L45", "L54", "L58", "L64">>[5] = "L64"
        OBVIOUS
      <4> QED
        BY <3>9, <4>1, <4>2, <4>3, <4>4, <4>5
    <3>10. CASE l = "L59"
      <4>1. Ends[l] = "literal_null"
        BY <3>10 DEF Ends
      <4>2. WordLabels["literal_null"] = <<"L24", "L46", "L55", "L59">>
        BY DEF WordLabels
      <4>3. Fixed["literal_null"] = <<110, 117, 108, 108>> /\ "literal_null" \in Words
        BY FixedIs DEF WordNames
      <4>4. Len(<<110, 117, 108, 108>>) = 4
        OBVIOUS
      <4>5. <<"L24", "L46", "L55", "L59">>[4] = "L59"
        OBVIOUS
      <4> QED
        BY <3>10, <4>1, <4>2, <4>3, <4>4, <4>5
    <3> QED
      BY <1>2, <3>1, <3>2, <3>3, <3>4, <3>5, <3>6, <3>7, <3>8, <3>9, <3>10 DEF Complete
  <2> QED
    BY <2>1, <2>2, WordFound
<1> QED
  BY <1>1, <1>2

\* The labels that set the marker before anything could be accepted, and "-".
Early == {"L9", "L12", "L23", "L24", "L25"}

\* Which labels a label in a token leads to, and that a NUL ends every token.
Heads(l, b, k) ==
    /\ k \in (InToken \ Early) \cup (Complete \ {"L2"}) \cup {"L5", "L14", "L32"}
    /\ k = "L5" => l \in Early
    /\ k = "L14" => l \in NumberEnds
    /\ l \in NumberEnds => k \in InNumber \cup {"L14"}
    /\ k \in InToken \cup Complete => b # 0

\* A label in a token leads so.
LEMMA HeadsAre == ASSUME NEW l \in InToken, NEW b \in Byte PROVE Heads(l, b, To(l, b))
<1> USE DEF InToken, InNumber, InString, InInteger, InExponent, Continuing, HexDigits, InLiteral,
            Complete, NumberEnds, Early, Heads
<1>1. ASSUME l \in InInteger PROVE Heads(l, b, To(l, b))
  BY <1>1, IntegerGoes DEF Digit
<1>2. ASSUME l \in InExponent PROVE Heads(l, b, To(l, b))
  BY <1>2, ExponentGoes DEF Digit
<1>3. ASSUME l \in {"L9", "L30"} PROVE Heads(l, b, To(l, b))
  <2>1. \A o : StringStep(b, o) \in {"L30", "L33", "L35", "L36", "L37", "L38", "L39", "L40", "L41", "L42", o}
    BY DEF StringStep
  <2>2. \A o : b = 0 => StringStep(b, o) = o
    BY DEF StringStep, Plain, Quote, Backslash
  <2>3. CASE l = "L9"
    <3>1. To(l, b) = StringStep(b, "L5")
      BY <2>3, StringGoes
    <3>2. To(l, b) \in {"L30", "L33", "L35", "L36", "L37", "L38", "L39", "L40", "L41", "L42", "L5"} /\ (b = 0 => To(l, b) = "L5")
      BY <2>1, <2>2, <3>1
    <3> QED
      BY <2>3, <3>2
  <2>4. CASE l = "L30"
    <3>1. To(l, b) = StringStep(b, "L32")
      BY <2>4, StringGoes
    <3>2. To(l, b) \in {"L30", "L33", "L35", "L36", "L37", "L38", "L39", "L40", "L41", "L42", "L32"} /\ (b = 0 => To(l, b) = "L32")
      BY <2>1, <2>2, <3>1
    <3> QED
      BY <2>4, <3>2
  <2> QED
    BY <1>3, <2>3, <2>4
<1>4. ASSUME l = "L35" PROVE Heads(l, b, To(l, b))
  BY <1>4, EscapeGoes DEF Simple, Quote, Backslash
<1>5. ASSUME l \in Continuing PROVE Heads(l, b, To(l, b))
  BY <1>5, ContinuationGoes DEF Tail8
<1>6. ASSUME l \in HexDigits PROVE Heads(l, b, To(l, b))
  BY <1>6, HexGoes DEF HexDigit, Digit
<1>7. ASSUME l \in {"L23", "L45", "L54", "L58"} PROVE Heads(l, b, To(l, b))
  BY <1>7, LiteralGoes
<1>8. ASSUME l \in {"L24", "L46", "L55"} PROVE Heads(l, b, To(l, b))
  BY <1>8, LiteralGoes
<1>9. ASSUME l \in {"L25", "L47", "L56"} PROVE Heads(l, b, To(l, b))
  BY <1>9, LiteralGoes
<1> QED
  BY <1>1, <1>2, <1>3, <1>4, <1>5, <1>6, <1>7, <1>8, <1>9

\* The first byte of a token leads to these labels, and a NUL to the end.
LEMMA FirstHeads ==
    ASSUME NEW b \in Byte
    PROVE  /\ First(b) \in Early \cup {"L13", "L15", "L6", "L4"} \cup (Complete \ {"L33", "L59", "L61", "L64"})
           /\ First(b) = "L6" => b \in White
           /\ First(b) \in Moving \cup (Complete \ {"L2"}) => b # 0
<1>1. First(b) = FirstStep(b)
  BY FirstSteps
<1>2. FirstStep(b) \in Early \cup {"L13", "L15", "L6", "L4"} \cup (Complete \ {"L33", "L59", "L61", "L64"})
  BY DEF FirstStep, Early, Complete
<1>3. FirstStep(b) = "L6" => b \in White
  BY DEF FirstStep
<1>4. b = 0 => FirstStep(b) = "L2"
  BY DEF FirstStep
<1>5. "L2" \notin Moving
  BY DEF Moving, Between, Continuing, HexDigits, InInteger, InExponent, InLiteral
<1> QED
  BY <1>1, <1>2, <1>3, <1>4, <1>5

\* The groups have no label in common.
LEMMA GroupsApart ==
    /\ InToken \cap Complete = {} /\ NumberEnds \subseteq InNumber /\ Early \subseteq InToken \ NumberEnds
    /\ {"L6", "L5", "L4", "L14", "L32", "scan", "done"} \cap (InToken \cup Complete \cup NumberEnds) = {}
BY DEF InToken, InNumber, InString, InInteger, InExponent, Continuing, HexDigits, InLiteral,
     Complete, NumberEnds, Early

\* No token of s behind "from" ends within these bounds.
NoneIn(s, from, lo, hi) == \A to \in (lo + 1)..hi : ~TokenAt(s, from, to)

\* What a label says of the bytes from the beginning of the token to the cursor
\* "at", its byte included, and of all the tokens that begin there: kept is where
\* the last one ended that scan may go back to.
AtLabel(l, s, from, at, kept) ==
    /\ l \in InToken => OnWay(l, s, from, at + 1)
    /\ l \in InToken \cup Complete => SoFar(l, s, from, at + 1)
    /\ l = "L6" => \A i \in (from + 1)..(at + 1) : s[i] \in White
    /\ l \in Early => at = from
    /\ l \in InToken \ NumberEnds => NoneIn(s, from, kept, at)
    /\ l = "L32" => NoneIn(s, from, kept, Len(s))
    /\ l \in {"L5", "L4"} => NoneIn(s, from, from, Len(s))
    /\ l = "L14" => NoneIn(s, from, at, Len(s)) /\ \E i \in Nat, j \in Nat : NumberTo(s, from, at, i, j)
    /\ l \in Complete => NoneIn(s, from, at + 1, Len(s))

\* No token ends at the next byte or behind it.
LEMMA NoneFrom ==
    ASSUME NEW s \in Seq(Byte), NEW from \in Nat, NEW p \in Nat, from < p, p <= Len(s),
           NEW l, l \notin InToken, l \notin Complete, OnWay(l, s, from, p)
    PROVE  \A to \in p..Len(s) : ~TokenAt(s, from, to)
<1> SUFFICES ASSUME NEW to \in p..Len(s) PROVE ~TokenAt(s, from, to)
  OBVIOUS
<1>1. l \notin NumberEnds
  BY GroupsApart DEF InToken
<1>2. CASE to = p
  BY <1>1, <1>2, NoneHere
<1>3. CASE to # p
  <2>1. to \in (p + 1)..Len(s)
    BY <1>3
  <2> QED
    BY <2>1, NoneLater
<1> QED
  BY <1>2, <1>3

\* At the first byte of a token.
LEMMA AtFirst ==
    ASSUME NEW s \in Seq(Byte), NEW from \in Nat, from < Len(s)
    PROVE  AtLabel(First(s[from + 1]), s, from, from, from)
<1> DEFINE b == s[from + 1]  k == First(b)
<1>0. b \in Byte /\ Len(s) \in Nat /\ from + 1 \in Nat /\ from + 1 <= Len(s) /\ from < from + 1
  <2>1. from + 1 \in 1..Len(s)
    OBVIOUS
  <2> QED
    BY <2>1
<1>1. OnWay(k, s, from, from + 1)
  BY OnWayStarts
<1>2. k # "L6" => SoFar(k, s, from, from + 1)
  BY <1>0, SoFarStarts
<1>3. /\ k \in Early \cup {"L13", "L15", "L6", "L4"} \cup (Complete \ {"L33", "L59", "L61", "L64"})
      /\ k = "L6" => b \in White
  BY <1>0, FirstHeads
<1>a. \A i \in (from + 1)..(from + 1) : i = from + 1
  BY <1>0
<1>b. k = "L6" => \A i \in (from + 1)..(from + 1) : s[i] \in White
  BY <1>3, <1>a
<1> HIDE DEF k, b
<1>4. k \in Complete => NoneIn(s, from, from + 1, Len(s))
  <2> SUFFICES ASSUME k \in Complete, NEW to \in ((from + 1) + 1)..Len(s) PROVE ~TokenAt(s, from, to)
    BY DEF NoneIn
  <2>1. k \notin InToken
    BY GroupsApart
  <2> QED
    BY <1>0, <1>1, <2>1, NoneLater
<1>5. k = "L4" => NoneIn(s, from, from, Len(s))
  <2> SUFFICES ASSUME k = "L4" PROVE \A to \in (from + 1)..Len(s) : ~TokenAt(s, from, to)
    BY DEF NoneIn
  <2>1. k \notin InToken /\ k \notin Complete
    BY GroupsApart
  <2> QED
    BY <1>0, <1>1, <2>1, NoneFrom
<1>6. NoneIn(s, from, from, from)
  BY DEF NoneIn
<1>7. k \notin {"L32", "L5", "L14"}
  BY <1>3, GroupsApart
<1>8. k \in InToken \cup Complete => k # "L6"
  BY GroupsApart
<1> HIDE DEF NoneIn
<1> QED
  BY <1>1, <1>2, <1>4, <1>5, <1>6, <1>7, <1>8, <1>b DEF AtLabel, k, b

\* A number ends where scan sets the marker behind one.
LEMMA NumberEnding ==
    ASSUME NEW s \in Seq(Byte), NEW from \in Nat, NEW at \in Nat, from <= at, NEW l \in NumberEnds, NEW kept,
           AtLabel(l, s, from, at, kept)
    PROVE  \E i \in Nat, j \in Nat : NumberTo(s, from, at + 1, i, j)
<1>1. NumberSoFar(l, s, from, at + 1)
  BY GroupsApart DEF AtLabel, SoFar, InToken
<1> QED
  BY <1>1, NumberFound

\* One byte more of a token.
LEMMA AtNext ==
    ASSUME NEW s \in Seq(Byte), NEW from \in Nat, NEW at \in Nat, from <= at, at + 1 < Len(s),
           NEW l \in InToken, NEW kept \in Nat, AtLabel(l, s, from, at, kept), NEW next \in Nat,
           IF l \in {"L13", "L15", "L49"} THEN next = at + 1
           ELSE IF l \in {"L9", "L23", "L24", "L25"} THEN next = from ELSE next = kept
    PROVE  AtLabel(To(l, s[at + 2]), s, from, at + 1, next)
<1> DEFINE b == s[at + 2]  k == To(l, b)  c == at + 1
<1>0. /\ b \in Byte /\ Len(s) \in Nat /\ c \in Nat /\ c + 1 <= Len(s) /\ c + 1 = at + 2 /\ from < c /\ c <= Len(s) /\ c < Len(s)
      /\ c + 1 \in Nat /\ from < c + 1
  <2>1. at + 2 \in 1..Len(s)
    OBVIOUS
  <2> QED
    BY <2>1
<1>1. OnWay(l, s, from, c) /\ SoFar(l, s, from, c)
  BY DEF AtLabel
<1>2. Heads(l, b, k)
  BY <1>0, HeadsAre
<1>3. s[c + 1] = b
  BY <1>0
<1>4. OnWay(k, s, from, c + 1)
  BY <1>0, <1>1, <1>3, OnWayMoves
<1>5. SoFar(k, s, from, c + 1)
  BY <1>0, <1>1, <1>3, SoFarGrows
<1> HIDE DEF b, k
<1>6. /\ k \in (InToken \ Early) \cup (Complete \ {"L2"}) \cup {"L5", "L14", "L32"}
      /\ k = "L5" => l \in Early /\ at = from
      /\ k = "L14" => l \in NumberEnds
      /\ l \in NumberEnds => k \in InNumber \cup {"L14"}
  BY <1>2 DEF Heads, AtLabel
<1>7. k \notin {"L6", "L4"} /\ k \notin Early /\ (k = "L32" => l \notin NumberEnds /\ k \notin InToken /\ k \notin Complete)
      /\ (k = "L14" => k \notin InToken /\ k \notin Complete) /\ (k = "L5" => k \notin InToken /\ k \notin Complete)
  <2>1. k \notin {"L6", "L4"}
    BY <1>6, GroupsApart
  <2>2. k \notin Early
    BY <1>6, GroupsApart
  <2>3. k = "L32" => k \notin InToken /\ k \notin Complete /\ k \notin InNumber
    BY GroupsApart DEF InToken
  <2> QED
    BY <1>6, <2>1, <2>2, <2>3, GroupsApart
<1>8. ASSUME l \notin NumberEnds PROVE NoneIn(s, from, next, c)
  <2>1. NoneIn(s, from, kept, at)
    BY <1>8 DEF AtLabel
  <2>2. ~TokenAt(s, from, c)
    <3>1. l \notin Complete
      BY GroupsApart
    <3> QED
      BY <1>0, <1>1, <1>8, <3>1, NoneHere
  <2>3. CASE l \in {"L9", "L23", "L24", "L25"}
    <3>1. at = from
      BY <2>3 DEF AtLabel, Early
    <3>2. next = from
      BY <2>3
    <3>3. \A to \in (next + 1)..c : to = c
      BY <1>0, <3>1, <3>2
    <3> QED
      BY <2>2, <3>3 DEF NoneIn
  <2>4. CASE l \notin {"L9", "L23", "L24", "L25"}
    <3>1. next = kept
      BY <1>8, <2>4 DEF NumberEnds
    <3>2. \A to \in (next + 1)..c : to = c \/ to \in (kept + 1)..at
      BY <1>0, <3>1
    <3> QED
      BY <2>1, <2>2, <3>2 DEF NoneIn
  <2> QED
    BY <2>3, <2>4
<1>9. ASSUME k \notin InToken, k \notin Complete PROVE NoneIn(s, from, c, Len(s))
  <2>1. \A to \in (c + 1)..Len(s) : ~TokenAt(s, from, to)
    BY <1>0, <1>4, <1>9, NoneFrom
  <2> QED
    BY <2>1 DEF NoneIn
<1>10. k \in InToken \ NumberEnds => NoneIn(s, from, next, c)
  <2> SUFFICES ASSUME k \in InToken \ NumberEnds PROVE NoneIn(s, from, next, c)
    OBVIOUS
  <2>1. CASE l \in {"L13", "L15", "L49"}
    <3>1. next = c
      BY <2>1
    <3>2. (next + 1)..c = {}
      BY <1>0, <3>1
    <3> QED
      BY <3>2 DEF NoneIn
  <2>2. CASE l = "L52"
    <3>1. k \in {"L52", "L14"}
      BY <2>2, ExponentGoes DEF k
    <3> QED
      BY <3>1, GroupsApart DEF NumberEnds
  <2>3. CASE l \notin NumberEnds
    BY <1>8, <2>3
  <2> QED
    BY <2>1, <2>2, <2>3 DEF NumberEnds
<1>11. k = "L32" => NoneIn(s, from, next, Len(s))
  <2> SUFFICES ASSUME k = "L32" PROVE NoneIn(s, from, next, Len(s))
    OBVIOUS
  <2>1. NoneIn(s, from, next, c) /\ NoneIn(s, from, c, Len(s))
    BY <1>7, <1>8, <1>9
  <2>2. \A to \in (next + 1)..Len(s) : to \in (next + 1)..c \/ to \in (c + 1)..Len(s)
    BY <1>0
  <2> QED
    BY <2>1, <2>2 DEF NoneIn
<1>12. k = "L5" => NoneIn(s, from, from, Len(s))
  <2> SUFFICES ASSUME k = "L5" PROVE NoneIn(s, from, from, Len(s))
    OBVIOUS
  <2>1. at = from /\ l \notin NumberEnds /\ l \notin Complete
    BY <1>6, GroupsApart
  <2>2. NoneIn(s, from, c, Len(s))
    BY <1>7, <1>9
  <2>3. ~TokenAt(s, from, c)
    BY <1>0, <1>1, <2>1, NoneHere
  <2>4. \A to \in (from + 1)..Len(s) : to = c \/ to \in (c + 1)..Len(s)
    BY <1>0, <2>1
  <2> QED
    BY <2>2, <2>3, <2>4 DEF NoneIn
<1>13. k = "L14" => NoneIn(s, from, c, Len(s)) /\ \E i \in Nat, j \in Nat : NumberTo(s, from, c, i, j)
  BY <1>6, <1>7, <1>9, NumberEnding
<1>14. k \in Complete => NoneIn(s, from, c + 1, Len(s))
  <2> SUFFICES ASSUME k \in Complete, NEW to \in ((c + 1) + 1)..Len(s) PROVE ~TokenAt(s, from, to)
    BY DEF NoneIn
  <2>1. k \notin InToken
    BY GroupsApart
  <2> QED
    BY <1>0, <1>4, <2>1, NoneLater
<1> HIDE DEF c
<1>15. AtLabel(k, s, from, c, next)
  BY <1>4, <1>5, <1>7, <1>10, <1>11, <1>12, <1>13, <1>14 DEF AtLabel
<1> QED
  BY <1>15 DEF k, b, c

-----------------------------------------------------------------------------
(* The buffer and the text as it should be read.                           *)

\* The byte order mark at the beginning of a text.
Marked(x) == Len(x) >= 3 /\ x[1] = 239 /\ x[2] = 187 /\ x[3] = 191

\* What the constructor for streams makes of the first line, byte by byte.
LEMMA BlankedIs ==
    ASSUME NEW x \in Seq(Byte)
    PROVE  /\ Blanked(x) \in Seq(Byte) /\ Len(Blanked(x)) = Len(x)
           /\ \A i \in 1..Len(x) : Blanked(x)[i] = IF Marked(x) /\ i <= 3 THEN 32 ELSE x[i]
<1>1. CASE Len(x) >= 3
  <2> DEFINE h == SubSeq(x, 1, 3)  b == <<32, 32, 32>>  r == SubSeq(x, 4, Len(x))  n == Len(x)
  <2>0. n \in Nat /\ n >= 3 /\ 32 \in Byte
    BY <1>1 DEF Byte
  <2>1. h = <<x[1], x[2], x[3]>>
    <3>1. Len(h) = 3 /\ h[1] = x[1] /\ h[2] = x[2] /\ h[3] = x[3] /\ h \in Seq(Byte)
      BY <1>1
    <3> HIDE DEF h
    <3> QED
      BY <3>1
  <2>2. h = <<239, 187, 191>> <=> Marked(x)
    BY <1>1, <2>1 DEF Marked
  <2>3. CASE ~Marked(x)
    <3>1. Blanked(x) = x
      BY <2>2, <2>3 DEF Blanked
    <3> QED
      BY <2>3, <3>1
  <2>4. CASE Marked(x)
    <3>1. Blanked(x) = b \o r
      BY <1>1, <2>2, <2>4 DEF Blanked
    <3>2. b \in Seq(Byte) /\ Len(b) = 3 /\ b[1] = 32 /\ b[2] = 32 /\ b[3] = 32
      BY <2>0
    <3>3. \A i \in 4..n : x[i] \in Byte
      BY <2>0
    <3>4. r \in Seq(Byte) /\ Len(r) = (IF 4 <= n THEN n - 4 + 1 ELSE 0)
          /\ \A i \in 1..(n - 4 + 1) : r[i] = x[4 + i - 1]
      BY <2>0, <3>3, SubSeqProperties
    <3> HIDE DEF b, r, n
    <3>5. Len(r) = n - 3
      BY <2>0, <3>4
    <3>a. /\ b \o r \in Seq(Byte) /\ Len(b \o r) = Len(b) + Len(r)
          /\ \A i \in 1..Len(b) + Len(r) : (b \o r)[i] = IF i <= Len(b) THEN b[i] ELSE r[i - Len(b)]
      BY <3>2, <3>4, ConcatProperties
    <3>6. /\ b \o r \in Seq(Byte) /\ Len(b \o r) = 3 + (n - 3)
          /\ \A i \in 1..3 + (n - 3) : (b \o r)[i] = IF i <= 3 THEN b[i] ELSE r[i - 3]
      BY <3>2, <3>5, <3>a
    <3>7. 3 + (n - 3) = n
      BY <2>0
    <3>8. ASSUME NEW i \in 1..n PROVE (b \o r)[i] = IF i <= 3 THEN 32 ELSE x[i]
      <4>1. CASE i <= 3
        <5>1. i \in {1, 2, 3}
          BY <2>0, <4>1
        <5> QED
          BY <3>2, <3>6, <3>7, <4>1, <5>1
      <4>2. CASE ~(i <= 3)
        <5>1. i - 3 \in 1..(n - 4 + 1) /\ 4 + (i - 3) - 1 = i
          BY <2>0, <4>2
        <5>2. r[i - 3] = x[i]
          BY <3>4, <5>1
        <5> QED
          BY <3>6, <3>7, <4>2, <5>2
      <4> QED
        BY <4>1, <4>2
    <3> QED
      BY <2>4, <3>1, <3>6, <3>7, <3>8 DEF n
  <2> QED
    BY <2>3, <2>4
<1>2. CASE ~(Len(x) >= 3)
  <2>1. Blanked(x) = x /\ ~Marked(x)
    BY <1>2 DEF Blanked, Marked
  <2> QED
    BY <2>1
<1> QED
  BY <1>1, <1>2

\* The text with a newline behind its last line.
Whole == Append(text, Newline)

\* It is the text up to there.
LEMMA WholeIs ==
    ASSUME text \in Seq(Byte)
    PROVE  /\ Whole \in Seq(Byte) /\ Len(Whole) = Len(text) + 1
           /\ (\A i \in 1..Len(text) : Whole[i] = text[i]) /\ Whole[Len(text) + 1] = Newline
<1> DEFINE n == Newline
<1>1. n \in Byte
  BY DEF Newline, Byte
<1> HIDE DEF n
<1>2. /\ Append(text, n) \in Seq(Byte) /\ Len(Append(text, n)) = Len(text) + 1
      /\ (\A i \in 1..Len(text) : Append(text, n)[i] = text[i]) /\ Append(text, n)[Len(text) + 1] = n
  BY <1>1, AppendProperties
<1> QED
  BY <1>2 DEF Whole, n

\* A line of a stream, byte by byte: it ends at the first newline of the whole.
LEMMA LineIs ==
    ASSUME text \in Seq(Byte), NEW from \in 0..Len(text)
    PROVE  LET e == LineEnd(from) IN
           /\ e \in (from + 1)..(Len(text) + 1)
           /\ Line(from) \in Seq(Byte) /\ Len(Line(from)) = e - from - 1
           /\ \A i \in 1..(e - from - 1) : Line(from)[i] = Whole[from + i]
           /\ Whole[e] = Newline /\ \A i \in (from + 1)..(e - 1) : Whole[i] # Newline
<1> DEFINE e == LineEnd(from)  n == Len(text)  T == {i \in (from + 1)..n : text[i] = Newline}
<1>0. n \in Nat /\ from \in 0..n /\ from \in Nat
  OBVIOUS
<1>1. e \in (from + 1)..(n + 1) /\ Line(from) \in Seq(Byte)
  BY LineIn
<1>2. Whole[e] = Newline /\ \A i \in (from + 1)..(e - 1) : i \in 1..n /\ text[i] # Newline
  <2>1. CASE T = {}
    <3>1. e = n + 1
      BY <2>1 DEF LineEnd
    <3>2. \A i \in (from + 1)..n : i \in 1..n /\ text[i] # Newline
      BY <1>0, <2>1
    <3> HIDE DEF e, T
    <3>3. e - 1 = n
      BY <1>0, <3>1
    <3> QED
      BY <3>1, <3>2, <3>3, WholeIs
  <2>2. CASE T # {}
    <3>1. T \subseteq Nat
      BY <1>0
    <3>2. e = Min(T)
      BY <2>2 DEF LineEnd
    <3> HIDE DEF T
    <3>3. Min(T) \in T /\ \A m \in T : Min(T) <= m
      BY <2>2, <3>1, MinIs
    <3>4. e \in T /\ \A m \in T : e <= m
      BY <3>2, <3>3
    <3> HIDE DEF e
    <3>5. e \in 1..n /\ text[e] = Newline
      BY <1>0, <3>4 DEF T
    <3>6. ASSUME NEW i \in (from + 1)..(e - 1) PROVE i \in 1..n /\ text[i] # Newline
      <4>1. i \in (from + 1)..n /\ ~(e <= i) /\ i \in 1..n
        BY <1>0, <3>5
      <4> QED
        BY <3>4, <4>1 DEF T
    <3> QED
      BY <3>5, <3>6, WholeIs
  <2> QED
    BY <2>1, <2>2
<1> HIDE DEF e, T
<1>3. Line(from) = SubSeq(text, from + 1, e - 1)
  BY DEF Line, e
<1>4. /\ from + 1 \in Int /\ e - 1 \in Int /\ \A i \in (from + 1)..(e - 1) : text[i] \in Byte
  <2>1. \A i \in (from + 1)..(e - 1) : text[i] \in Byte
    BY <1>2
  <2> QED
    BY <1>0, <1>1, <2>1
<1> DEFINE q == SubSeq(text, from + 1, e - 1)
<1>5. /\ Len(q) = (IF from + 1 <= e - 1 THEN (e - 1) - (from + 1) + 1 ELSE 0)
      /\ \A i \in 1..((e - 1) - (from + 1) + 1) : q[i] = text[(from + 1) + i - 1]
  BY <1>4, SubSeqProperties
<1> HIDE DEF q
<1>6. (e - 1) - (from + 1) + 1 = e - from - 1 /\ (~(from + 1 <= e - 1) => e - from - 1 = 0)
  BY <1>0, <1>1
<1>7. Len(q) = e - from - 1
  BY <1>5, <1>6
<1>8. ASSUME NEW i \in 1..(e - from - 1) PROVE q[i] = Whole[from + i]
  <2>1. (from + 1) + i - 1 = from + i /\ from + i \in (from + 1)..(e - 1)
    BY <1>0, <1>1
  <2>2. text[from + i] = Whole[from + i]
    BY <1>2, <2>1, WholeIs
  <2> QED
    BY <1>5, <1>6, <2>1, <2>2
<1>9. ASSUME NEW i \in (from + 1)..(e - 1) PROVE Whole[i] # Newline
  BY <1>2, WholeIs
<1> QED
  BY <1>1, <1>2, <1>3, <1>7, <1>8, <1>9 DEF q, e, n

\* The text as it should be read, byte by byte.
LEMMA SourceIs ==
    ASSUME text \in Seq(Byte)
    PROVE  /\ Source \in Seq(Byte) /\ Source[Len(Source)] = 0 /\ Len(Source) \in Nat /\ Len(text) \in Nat
           /\ mode = "buffer" => Len(Source) = Len(text) + 1 /\ \A i \in 1..Len(text) : Source[i] = text[i]
           /\ mode # "buffer" => Len(Source) = Len(text) + 2 /\ \A i \in 1..(Len(text) + 1) : Source[i] = Blanked(Whole)[i]
<1> DEFINE z == <<0>>  x == IF mode = "buffer" THEN text ELSE Blanked(Whole)
<1>1. z \in Seq(Byte) /\ Len(z) = 1 /\ z[1] = 0
  BY DEF Byte
<1>2. x \in Seq(Byte) /\ Len(x) = (IF mode = "buffer" THEN Len(text) ELSE Len(text) + 1) /\ Len(text) \in Nat
  BY WholeIs, BlankedIs
<1>3. Source = x \o z
  BY DEF Source, Whole
<1> HIDE DEF x, z
<1>4. x \o z \in Seq(Byte) /\ Len(x \o z) = Len(x) + 1 /\ (x \o z)[Len(x) + 1] = z[1]
  BY <1>1, <1>2, OneMore
<1>5. Longer(x, x \o z)
  BY <1>1, <1>2, LongerBy
<1>6. \A i \in 1..Len(x) : Source[i] = x[i]
  BY <1>3, <1>5 DEF Longer
<1>7. Source \in Seq(Byte) /\ Len(Source) = Len(x) + 1 /\ Source[Len(x) + 1] = 0
  BY <1>1, <1>3, <1>4
<1>8. CASE mode = "buffer"
  <2>1. x = text
    BY <1>8 DEF x
  <2> QED
    BY <1>2, <1>6, <1>7, <1>8, <2>1
<1>9. CASE mode # "buffer"
  <2>1. x = Blanked(Whole)
    BY <1>9 DEF x
  <2>2. Len(Source) = Len(text) + 2
    BY <1>2, <1>7, <1>9
  <2> QED
    BY <1>2, <1>6, <1>7, <1>9, <2>1, <2>2
<1> QED
  BY <1>8, <1>9

\* A buffer holds what should be read, and behind it what ends a token.
SourceIn(d) == \A i \in 1..Len(d) : i <= Len(Source) => d[i] = Source[i]

\* So it does after more of that was put into it.
LEMMA AgreeMore ==
    ASSUME NEW d \in Seq(Byte), NEW t \in Seq(Byte), SourceIn(d),
           \A i \in 1..Len(t) : Len(d) + i <= Len(Source) => t[i] = Source[Len(d) + i]
    PROVE  SourceIn(d \o t)
<1> DEFINE n == Len(d)  m == Len(t)  L == Len(Source)  S == Source
<1>1. /\ Len(d \o t) = n + m /\ n \in Nat /\ m \in Nat
      /\ \A i \in 1..n + m : (d \o t)[i] = IF i <= n THEN d[i] ELSE t[i - n]
  BY ConcatProperties
<1>2. \A i \in 1..n : i <= L => d[i] = S[i]
  BY DEF SourceIn
<1>3. \A i \in 1..m : n + i <= L => t[i] = S[n + i]
  OBVIOUS
<1> HIDE DEF n, m, L, S
<1>4. ASSUME NEW i \in 1..n + m, i <= L PROVE (d \o t)[i] = S[i]
  <2>1. CASE i <= n
    <3>1. i \in 1..n
      BY <1>1, <2>1
    <3> QED
      BY <1>1, <1>2, <1>4, <2>1, <3>1
  <2>2. CASE ~(i <= n)
    <3> DEFINE k == i - n
    <3>1. k \in 1..m /\ n + k = i
      BY <1>1, <2>2
    <3>2. (d \o t)[i] = t[k]
      BY <1>1, <2>2
    <3> HIDE DEF k
    <3> QED
      BY <1>3, <1>4, <3>1, <3>2
  <2> QED
    BY <2>1, <2>2
<1> QED
  BY <1>1, <1>4 DEF SourceIn, L, S

\* The buffer, how much of the text is in it, and what of the text is still to come.
SourceInv ==
    /\ mode \in {"buffer", "stream"}
    /\ SourceIn(data)
    /\ mode = "buffer" => Len(data) >= Len(text)
    /\ mode = "stream" =>
          /\ IF eof THEN Len(data) >= Len(text) + 1 ELSE Len(data) = taken
          /\ \A i \in (Len(data) + 1)..(Len(text) + 1) : Source[i] = Whole[i]

\* It is so when a lexer was made of a text or of a stream: a byte order mark is
\* within the first line.
LEMMA SourceStarts == Init => SourceInv
<1> SUFFICES ASSUME Init PROVE SourceInv
  OBVIOUS
<1>1. text \in Seq(Byte) /\ mode \in {"buffer", "stream"} /\ data \in Seq(Byte)
  <2>1. PICK in \in Inputs : mode = in.mode /\ text = in.text
    BY DEF Init
  <2>2. in \in [mode : {"buffer", "stream"}, text : Seq(0..255)]
    BY LexerAssumption DEF TextsAndLimits
  <2> QED
    BY <2>1, <2>2, LexStarts DEF Byte, LexInv, BufferOK
<1>2. CASE mode = "buffer"
  <2>1. data = text
    BY <1>2 DEF Init
  <2>2. SourceIn(data) /\ Len(data) >= Len(text)
    BY <1>1, <1>2, <2>1, SourceIs DEF SourceIn
  <2> QED
    BY <1>1, <1>2, <2>2 DEF SourceInv
<1>3. CASE mode = "stream"
  <2> DEFINE e == LineEnd(0)  n == Len(text)  l == Line(0)  nl == Newline  f == Append(l, nl)  m == Min({e, n})
  <2>1. data = Blanked(f) /\ taken = m /\ eof = (e > n)
    BY <1>3 DEF Init
  <2>0. n \in Nat /\ 0 \in 0..n
    BY <1>1
  <2>2. /\ e \in (0 + 1)..(n + 1) /\ l \in Seq(Byte) /\ Len(l) = e - 0 - 1
        /\ \A i \in 1..(e - 0 - 1) : l[i] = Whole[0 + i]
        /\ Whole[e] = nl /\ \A i \in (0 + 1)..(e - 1) : Whole[i] # nl
    BY <1>1, <2>0, LineIs
  <2>3. nl \in Byte /\ nl = 10
    BY DEF Newline, Byte
  <2>m. m = IF e > n THEN n ELSE e
    <3> DEFINE T == {e, n}
    <3>1. e \in Nat
      BY <2>0, <2>2
    <3>2. T \subseteq Nat /\ T # {}
      BY <2>0, <3>1
    <3>a. m = Min(T)
      OBVIOUS
    <3> HIDE DEF T, m
    <3>3. Min(T) \in T /\ \A x \in T : Min(T) <= x
      BY <3>2, MinIs
    <3> HIDE DEF e, n
    <3> QED
      BY <2>0, <3>1, <3>3, <3>a DEF T
  <2> HIDE DEF e, n, l, nl, f, m
  <2>4. f \in Seq(Byte) /\ Len(f) = Len(l) + 1 /\ (\A i \in 1..Len(l) : f[i] = l[i]) /\ f[Len(l) + 1] = nl
    BY <2>2, <2>3, AppendProperties DEF f
  <2>5. Len(f) = e /\ e \in 1..(n + 1) /\ \A i \in 1..e : f[i] = Whole[i]
    <3>1. Len(l) + 1 = e /\ e \in 1..(n + 1)
      BY <2>0, <2>2
    <3>2. ASSUME NEW i \in 1..e PROVE f[i] = Whole[i]
      <4>1. CASE i = e
        BY <2>2, <2>4, <3>1, <4>1
      <4>2. CASE i # e
        <5>1. i \in 1..Len(l) /\ i \in 1..(e - 0 - 1) /\ 0 + i = i
          BY <2>2, <3>1, <4>2
        <5> QED
          BY <2>2, <2>4, <5>1
      <4> QED
        BY <4>1, <4>2
    <3> QED
      BY <2>4, <3>1, <3>2
  <2>6. Whole \in Seq(Byte) /\ Len(Whole) = n + 1
    BY <1>1, WholeIs DEF n
  <2>7. Marked(f) <=> Marked(Whole)
    <3>1. ASSUME Marked(f) PROVE Marked(Whole)
      <4>1. e >= 3 /\ 1 \in 1..e /\ 2 \in 1..e /\ 3 \in 1..e /\ n + 1 >= 3
        BY <2>0, <2>5, <3>1 DEF Marked
      <4> QED
        BY <2>5, <2>6, <3>1, <4>1 DEF Marked
    <3>2. ASSUME Marked(Whole) PROVE Marked(f)
      <4>1. Whole[1] = 239 /\ Whole[2] = 187 /\ Whole[3] = 191
        BY <3>2 DEF Marked
      <4>2. e # 1 /\ e # 2 /\ e # 3
        BY <2>2, <2>3, <4>1
      <4>3. e >= 3 /\ 1 \in 1..e /\ 2 \in 1..e /\ 3 \in 1..e
        BY <2>5, <2>0, <4>2
      <4> QED
        BY <2>5, <4>1, <4>3 DEF Marked
    <3> QED
      BY <3>1, <3>2
  <2>8. Marked(Whole) => e > 3
    <3> SUFFICES ASSUME Marked(Whole) PROVE e > 3
      OBVIOUS
    <3>1. Whole[1] = 239 /\ Whole[2] = 187 /\ Whole[3] = 191
      BY DEF Marked
    <3>2. e # 1 /\ e # 2 /\ e # 3
      BY <2>2, <2>3, <3>1
    <3> QED
      BY <2>5, <2>0, <3>2
  <2>9. Len(data) = e /\ \A i \in 1..e : data[i] = IF Marked(Whole) /\ i <= 3 THEN 32 ELSE Whole[i]
    BY <2>1, <2>4, <2>5, <2>7, BlankedIs
  <2>10. Len(Source) = n + 2 /\ \A i \in 1..(n + 1) : Source[i] = IF Marked(Whole) /\ i <= 3 THEN 32 ELSE Whole[i]
    <3>1. Len(Source) = n + 2 /\ \A i \in 1..(n + 1) : Source[i] = Blanked(Whole)[i]
      BY <1>1, <1>3, SourceIs DEF n
    <3>2. \A i \in 1..(n + 1) : Blanked(Whole)[i] = IF Marked(Whole) /\ i <= 3 THEN 32 ELSE Whole[i]
      BY <2>6, BlankedIs
    <3> QED
      BY <3>1, <3>2
  <2>11. SourceIn(data)
    <3>1. \A i \in 1..e : i \in 1..(n + 1)
      BY <2>0, <2>5
    <3> QED
      BY <2>9, <2>10, <3>1 DEF SourceIn
  <2>12. IF eof THEN Len(data) >= n + 1 ELSE Len(data) = taken
    <3>1. CASE e > n
      <4>1. eof
        BY <2>1, <3>1
      <4>2. Len(data) >= n + 1
        BY <2>0, <2>5, <2>9, <3>1
      <4> QED
        BY <4>1, <4>2
    <3>2. CASE ~(e > n)
      <4>1. ~eof
        BY <2>1, <3>2
      <4>2. Len(data) = taken
        BY <2>1, <2>9, <2>m, <3>2
      <4> QED
        BY <4>1, <4>2
    <3> QED
      BY <3>1, <3>2
  <2>13. \A i \in (Len(data) + 1)..(n + 1) : Source[i] = Whole[i]
    <3> SUFFICES ASSUME NEW i \in (e + 1)..(n + 1) PROVE Source[i] = Whole[i]
      BY <2>9
    <3>1. i \in 1..(n + 1) /\ i > e
      BY <2>0, <2>5
    <3>2. ~(Marked(Whole) /\ i <= 3)
      BY <2>5, <2>8, <3>1
    <3> QED
      BY <2>10, <3>1, <3>2
  <2> QED
    BY <1>3, <2>11, <2>12, <2>13 DEF SourceInv, n
<1> QED
  BY <1>1, <1>2, <1>3

\* fill_line_buffer puts the text into the buffer, line by line.
LEMMA SourceStays ==
    ASSUME BufferOK, SourceInv, NEW at \in Nat, NEW k \in Nat, Refill(at, k), UNCHANGED <<mode, text>>
    PROVE  SourceInv' /\ Source' = Source
<1> DEFINE n == Len(text)  L == Len(Source)  m == Len(data)
<1>0. n \in Nat /\ m \in Nat /\ data \in Seq(Byte) /\ text \in Seq(Byte) /\ taken \in 0..n
  BY DEF BufferOK
<1>s. Source' = Source /\ Whole' = Whole /\ mode' = mode /\ text' = text /\ \A d : SourceIn(d)' <=> SourceIn(d)
  BY DEF Source, Whole, SourceIn
<1>a. /\ L \in Nat /\ Source[L] = 0
      /\ mode = "buffer" => L = n + 1
      /\ mode # "buffer" => L = n + 2
  BY <1>0, SourceIs
<1>b. /\ mode \in {"buffer", "stream"}
      /\ SourceIn(data)
      /\ mode = "buffer" => m >= n
      /\ mode = "stream" =>
            /\ IF eof THEN m >= n + 1 ELSE m = taken
            /\ \A i \in (m + 1)..(n + 1) : Source[i] = Whole[i]
  BY DEF SourceInv
<1>1. CASE UNCHANGED <<data, taken, eof>>
  BY <1>1, <1>s DEF SourceInv, SourceIn
<1>2. CASE FillLineBuffer(k) /\ (mode = "buffer" \/ eof)
  <2> DEFINE z == <<0>>  e == [i \in 1..(k - 1) |-> 1]  y == data \o z  d == data \o z \o e
  <2>1. data' = d /\ taken' = taken /\ eof' = eof
    BY <1>2 DEF FillLineBuffer
  <2>2. e \in Seq(Byte) /\ z \in Seq(Byte) /\ Len(z) = 1 /\ z[1] = 0
    <3>1. e \in Seq(Byte)
      <4>1. CASE k = 0
        <5>1. 1..(k - 1) = {}
          BY <4>1
        <5>2. e = <<>>
          BY <5>1
        <5> QED
          BY <5>2
      <4>2. CASE k # 0
        <5>1. k - 1 \in Nat
          BY <4>2
        <5> QED
          BY <5>1 DEF Byte
      <4> QED
        BY <4>1, <4>2
    <3> QED
      BY <3>1 DEF Byte
  <2> HIDE DEF z, e
  <2>3. y \in Seq(Byte) /\ Len(y) = m + 1
    BY <1>0, <2>2, OneMore
  <2>4. d = y \o e
    OBVIOUS
  <2>l. L <= m + 1
    BY <1>0, <1>a, <1>b, <1>2
  <2>5. SourceIn(y)
    <3>1. \A i \in 1..Len(z) : m + i <= L => z[i] = Source[m + i]
      <4> SUFFICES ASSUME NEW i \in 1..Len(z), m + i <= L PROVE z[i] = Source[m + i]
        OBVIOUS
      <4>1. i = 1
        BY <2>2
      <4> HIDE DEF m, L
      <4>2. m + i = L
        BY <1>0, <1>a, <2>l, <4>1
      <4> QED
        BY <1>a, <2>2, <4>1, <4>2
    <3> QED
      BY <1>0, <1>b, <2>2, <3>1, AgreeMore
  <2> HIDE DEF y, d
  <2>6. SourceIn(y \o e) /\ Len(y \o e) >= m + 1 /\ Len(y \o e) \in Nat
    <3>1. \A i \in 1..Len(e) : Len(y) + i <= L => e[i] = Source[Len(y) + i]
      <4> SUFFICES ASSUME NEW i \in 1..Len(e) PROVE ~(Len(y) + i <= L)
        OBVIOUS
      <4> HIDE DEF m, L
      <4>1. i \in Int /\ i >= 1
        BY <2>2
      <4> QED
        BY <1>0, <1>a, <2>3, <2>l, <4>1
    <3>2. SourceIn(y \o e)
      BY <2>2, <2>3, <2>5, <3>1, AgreeMore
    <3>a. Len(e) \in Nat
      BY <2>2
    <3>b. Len(y \o e) = Len(y) + Len(e)
      <4> HIDE DEF m
      <4> QED
        BY <2>2, <2>3, ConcatProperties
    <3>3. Len(y \o e) = Len(y) + Len(e) /\ Len(e) \in Nat
      BY <3>a, <3>b
    <3> HIDE DEF m
    <3> QED
      BY <1>0, <2>3, <3>2, <3>3
  <2> HIDE DEF m
  <2>7. SourceIn(data') /\ Len(data') >= m + 1 /\ Len(data') \in Nat
    BY <2>1, <2>4, <2>6
  <2>8. (mode = "buffer" => Len(data') >= n) /\ (mode = "stream" => eof /\ Len(data') >= n + 1)
    BY <1>0, <1>2, <1>b, <2>7
  <2>9. mode = "stream" => \A i \in (Len(data') + 1)..(n + 1) : Source[i] = Whole[i]
    BY <1>0, <1>b, <2>7
  <2> QED
    BY <1>b, <1>s, <2>1, <2>7, <2>8, <2>9 DEF SourceInv, SourceIn
<1>3. CASE FillLineBuffer(k) /\ ~(mode = "buffer" \/ eof)
  <2> DEFINE z == <<Newline>>  e == LineEnd(taken)  l == Line(taken)  y == data \o l  d == data \o l \o z  p == Min({e, n})
  <2>1. data' = d /\ taken' = p /\ eof' = (e > n)
    BY <1>3 DEF FillLineBuffer
  <2>2. z \in Seq(Byte) /\ Len(z) = 1 /\ z[1] = Newline
    BY DEF Byte, Newline
  <2>3. /\ e \in (taken + 1)..(n + 1) /\ l \in Seq(Byte) /\ Len(l) = e - taken - 1
        /\ \A i \in 1..(e - taken - 1) : l[i] = Whole[taken + i]
        /\ Whole[e] = Newline
    BY <1>0, LineIs
  <2>m. p = IF e > n THEN n ELSE e
    <3> DEFINE T == {e, n}
    <3>1. e \in Nat
      BY <1>0, <2>3
    <3>2. T \subseteq Nat /\ T # {}
      BY <1>0, <3>1
    <3>a. p = Min(T)
      OBVIOUS
    <3> HIDE DEF T, p
    <3>3. Min(T) \in T /\ \A x \in T : Min(T) <= x
      BY <3>2, MinIs
    <3> HIDE DEF e, n
    <3> QED
      BY <1>0, <3>1, <3>3, <3>a DEF T
  <2>4. m = taken /\ L = n + 2 /\ \A i \in (m + 1)..(n + 1) : Source[i] = Whole[i]
    BY <1>3, <1>a, <1>b
  <2>5. d = y \o z
    OBVIOUS
  <2> HIDE DEF z, l
  <2>6. y \in Seq(Byte) /\ Len(y) = m + Len(l)
    BY <1>0, <2>3, ConcatProperties
  <2> HIDE DEF y, d, e, m, p, n, L
  <2>7. Len(y) + 1 = e /\ Len(y) \in Nat
    BY <1>0, <2>3, <2>4, <2>6
  <2>8. SourceIn(y)
    <3>1. ASSUME NEW i \in 1..Len(l) PROVE l[i] = Source[m + i]
      <4>1. i \in 1..(e - taken - 1) /\ m + i \in (m + 1)..(n + 1)
        BY <1>0, <2>3, <2>4
      <4> QED
        BY <2>3, <2>4, <4>1
    <3> QED
      BY <1>0, <1>b, <2>3, <3>1, AgreeMore DEF y, m
  <2>9. SourceIn(y \o z) /\ Len(y \o z) = e
    <3>1. ASSUME NEW i \in 1..Len(z) PROVE z[i] = Source[Len(y) + i]
      <4>1. i = 1
        BY <2>2
      <4>2. Len(y) + i = e /\ e \in (m + 1)..(n + 1)
        BY <1>0, <2>3, <2>4, <2>7, <4>1
      <4> QED
        BY <2>2, <2>3, <2>4, <4>1, <4>2
    <3>2. Len(y \o z) = e
      BY <2>2, <2>6, <2>7, OneMore
    <3> QED
      BY <2>2, <2>6, <2>8, <3>1, <3>2, AgreeMore
  <2>10. SourceIn(data') /\ Len(data') = e /\ e \in Nat /\ e > m
    <3>1. e \in Nat /\ e > m
      BY <1>0, <2>3, <2>4
    <3>2. data' = y \o z
      BY <2>1, <2>5
    <3> QED
      BY <2>9, <3>1, <3>2
  <2>11. IF eof' THEN Len(data') >= n + 1 ELSE Len(data') = taken'
    <3>1. CASE e > n
      <4>1. eof'
        BY <2>1, <3>1
      <4>2. Len(data') >= n + 1
        BY <1>0, <2>3, <2>10, <3>1
      <4> QED
        BY <4>1, <4>2
    <3>2. CASE ~(e > n)
      <4>1. ~eof'
        BY <2>1, <3>2
      <4>2. Len(data') = taken'
        BY <2>1, <2>10, <2>m, <3>2
      <4> QED
        BY <4>1, <4>2
    <3> QED
      BY <3>1, <3>2
  <2>12. \A i \in (Len(data') + 1)..(n + 1) : Source[i] = Whole[i]
    BY <1>0, <2>4, <2>10
  <2> QED
    BY <1>3, <1>b, <1>s, <2>10, <2>11, <2>12 DEF SourceInv, SourceIn, n
<1> QED
  BY <1>1, <1>2, <1>3 DEF Refill

-----------------------------------------------------------------------------
(* The longest match.                                                      *)

\* A token that is the longest one where it begins, and an error where none begins.
TokenFine(t, s) ==
    IF t.type = "parse_error"
    THEN \A to \in (t.from + 1)..Len(s) : ~IsToken(SubSeq(s, t.from + 1, to))
    ELSE /\ Is(t.type, SubSeq(s, t.from + 1, t.to))
         /\ \A to \in (t.to + 1)..Len(s) : ~IsToken(SubSeq(s, t.from + 1, to))

AllWhite(s, lo, hi) == \A i \in (lo + 1)..hi : s[i] \in White

\* Tokens with nothing but whitespace before each, and where the last one ends.
FoundFine(ts, s) ==
    \A k \in DOMAIN ts : AllWhite(s, IF k = 1 THEN 0 ELSE ts[k - 1].to, ts[k].from) /\ TokenFine(ts[k], s)
LastEnd(ts) == IF ts = <<>> THEN 0 ELSE ts[Len(ts)].to

\* One more of them.
LEMMA FoundMore ==
    ASSUME NEW ts \in Seq(Returned), NEW t \in Returned, NEW s, FoundFine(ts, s),
           AllWhite(s, LastEnd(ts), t.from), TokenFine(t, s)
    PROVE  FoundFine(Append(ts, t), s) /\ LastEnd(Append(ts, t)) = t.to
<1> DEFINE n == Len(ts)  us == Append(ts, t)  R == Returned
<1>0. ts \in Seq(R) /\ t \in R
  OBVIOUS
<1> HIDE DEF R
<1>1. /\ us \in Seq(R) /\ Len(us) = n + 1 /\ n \in Nat /\ DOMAIN us = 1..(n + 1) /\ DOMAIN ts = 1..n
      /\ (\A i \in 1..n : us[i] = ts[i]) /\ us[n + 1] = t
  BY <1>0, AppendProperties
<1>2. ts = <<>> <=> n = 0
  BY <1>0
<1>n. us # <<>>
  <2>1. Len(us) # 0
    BY <1>1
  <2> HIDE DEF us
  <2> QED
    BY <2>1
<1> HIDE DEF us, n
<1>3. ASSUME NEW k \in 1..(n + 1)
      PROVE  AllWhite(s, IF k = 1 THEN 0 ELSE us[k - 1].to, us[k].from) /\ TokenFine(us[k], s)
  <2>1. CASE k = n + 1
    <3>1. us[k] = t
      BY <1>1, <2>1
    <3>2. (IF k = 1 THEN 0 ELSE us[k - 1].to) = LastEnd(ts)
      <4>1. CASE n = 0
        BY <1>2, <2>1, <4>1 DEF LastEnd
      <4>2. CASE n # 0
        <5>1. k # 1 /\ k - 1 = n /\ n \in 1..n
          BY <1>1, <2>1, <4>2
        <5>2. LastEnd(ts) = ts[n].to
          BY <1>2, <4>2 DEF LastEnd, n
        <5> QED
          BY <1>1, <5>1, <5>2
      <4> QED
        BY <4>1, <4>2
    <3> QED
      BY <3>1, <3>2
  <2>2. CASE k # n + 1
    <3>1. k \in 1..n /\ (k # 1 => k - 1 \in 1..n)
      BY <1>1, <2>2
    <3>2. AllWhite(s, IF k = 1 THEN 0 ELSE ts[k - 1].to, ts[k].from) /\ TokenFine(ts[k], s)
      BY <1>1, <3>1 DEF FoundFine
    <3>3. us[k] = ts[k] /\ (IF k = 1 THEN 0 ELSE us[k - 1].to) = (IF k = 1 THEN 0 ELSE ts[k - 1].to)
      BY <1>1, <3>1
    <3> QED
      BY <3>2, <3>3
  <2> QED
    BY <2>1, <2>2
<1>4. FoundFine(us, s)
  BY <1>1, <1>3 DEF FoundFine
<1>5. LastEnd(us) = t.to
  BY <1>1, <1>n DEF LastEnd
<1> QED
  BY <1>4, <1>5 DEF us

\* The labels that end scan, and the types they return.
LEMMA EndingIs ==
    /\ Ending = Complete \cup {"L5", "L4", "L14"}
    /\ Ends["L5"] = "parse_error" /\ Ends["L4"] = "parse_error" /\ Ends["L14"] = "value_number"
    /\ \A l \in Complete : Ends[l] # "parse_error" /\ (l = "L2" <=> Ends[l] = "end_of_input")
BY DEF Ending, Complete, Ends

\* What scan returns is such a token.
LEMMA ReturnFine ==
    ASSUME NEW s \in Seq(Byte), NEW from \in Nat, NEW at \in Nat, at < Len(s), NEW kept,
           NEW l \in Ending, AtLabel(l, s, from, at, kept), l \in Complete => from <= at,
           NEW to, to = IF l \in {"L5", "L14"} THEN at ELSE at + 1
    PROVE  TokenFine([type |-> Ends[l], from |-> from, to |-> to], s)
<1> DEFINE t == [type |-> Ends[l], from |-> from, to |-> to]
<1>0. Len(s) \in Nat /\ t.type = Ends[l] /\ t.from = from /\ t.to = to
  OBVIOUS
<1> HIDE DEF t
<1>1. ASSUME NEW lo \in Nat, from <= lo, NoneIn(s, from, lo, Len(s))
      PROVE  \A e \in (lo + 1)..Len(s) : ~IsToken(SubSeq(s, from + 1, e))
  <2> SUFFICES ASSUME NEW e \in (lo + 1)..Len(s) PROVE ~IsToken(SubSeq(s, from + 1, e))
    OBVIOUS
  <2>1. e \in Nat /\ from < e /\ e <= Len(s)
    BY <1>0, <1>1
  <2>2. ~TokenAt(s, from, e)
    BY <1>1 DEF NoneIn
  <2> QED
    BY <2>1, <2>2, TokenHere
<1>2. CASE l \in {"L5", "L4"}
  <2>1. NoneIn(s, from, from, Len(s))
    BY <1>2 DEF AtLabel
  <2>2. t.type = "parse_error"
    BY <1>0, <1>2, EndingIs
  <2> QED
    BY <1>0, <1>1, <2>1, <2>2 DEF TokenFine, t
<1>3. CASE l = "L14"
  <2>1. NoneIn(s, from, at, Len(s)) /\ \E i \in Nat, j \in Nat : NumberTo(s, from, at, i, j)
    BY <1>3 DEF AtLabel
  <2>2. PICK i \in Nat, j \in Nat : NumberTo(s, from, at, i, j)
    BY <2>1
  <2>3. /\ After(s, from) \in {from, from + 1} /\ After(s, from) < i /\ i <= j /\ j <= at
    BY <2>2, NumberOrder
  <2>4. from < at
    BY <2>3
  <2>5. IsNumber(SubSeq(s, from + 1, at))
    BY <2>1, <2>4, NumberHere
  <2>6. Is("value_number", SubSeq(s, from + 1, at))
    BY <2>5, IsOf
  <2>7. t.type = "value_number" /\ t.to = at
    BY <1>0, <1>3, EndingIs
  <2>8. \A e \in (at + 1)..Len(s) : ~IsToken(SubSeq(s, from + 1, e))
    BY <1>1, <2>1, <2>4
  <2> QED
    BY <1>0, <2>6, <2>7, <2>8 DEF TokenFine, t
<1>4. CASE l \in Complete
  <2>0. t.to = at + 1 /\ at + 1 \in Nat /\ from < at + 1 /\ at + 1 <= Len(s) /\ from <= at + 1
    <3>1. l \notin {"L5", "L14"}
      BY <1>4, GroupsApart
    <3> QED
      BY <1>0, <1>4, <3>1
  <2>1. SoFar(l, s, from, at + 1) /\ NoneIn(s, from, at + 1, Len(s))
    BY <1>4 DEF AtLabel
  <2>2. Is(Ends[l], SubSeq(s, from + 1, at + 1))
    BY <1>4, <2>0, <2>1, CompleteIs
  <2>3. \A e \in ((at + 1) + 1)..Len(s) : ~IsToken(SubSeq(s, from + 1, e))
    BY <1>1, <2>0, <2>1
  <2>4. t.type # "parse_error"
    BY <1>0, <1>4, EndingIs
  <2> QED
    BY <1>0, <2>0, <2>2, <2>3, <2>4 DEF TokenFine, t
<1> QED
  BY <1>2, <1>3, <1>4, EndingIs

\* Where scan goes back to.
Kept == IF yyaccept = 1 THEN marker ELSE start

\* Some number ends there.
NumberEndsAt(s, from, to) == \E i \in Nat, j \in Nat : NumberTo(s, from, to, i, j)

\* What was found is the longest at every place, what is on the way says which tokens
\* may still come, and scan stays within the text.
MatchInv ==
    /\ NumInv /\ SourceInv /\ marker < Len(Source) /\ FoundFine(tokens, Source)
    /\ label # "done" =>
          /\ cursor < Len(Source)
          /\ AllWhite(Source, LastEnd(tokens), IF label = "scan" THEN cursor ELSE start)
    /\ label \in Moving \cup (Complete \ {"L2"}) => Source[cursor + 1] # 0
    /\ label \in Complete => start <= cursor
    /\ label \notin {"scan", "done"} =>
          AtLabel(label, Source, start, cursor, Kept) /\ (yyaccept = 1 => NumberEndsAt(Source, start, marker))

\* It is so at the beginning.
LEMMA MatchStarts == Init => MatchInv
<1> SUFFICES ASSUME Init PROVE MatchInv
  OBVIOUS
<1>1. NumInv /\ SourceInv
  BY NumStarts, SourceStarts
<1>2. label = "scan" /\ cursor = 0 /\ marker = 0 /\ tokens = <<>>
  BY DEF Init
<1>3. Len(Source) \in Nat /\ Len(Source) > 0
  <2>1. text \in Seq(Byte)
    BY <1>1 DEF NumInv, LexInv, BufferOK
  <2> QED
    BY <2>1, SourceIs
<1>4. AllWhite(Source, LastEnd(tokens), 0)
  BY <1>2 DEF AllWhite, LastEnd
<1>5. FoundFine(tokens, Source)
  BY <1>2 DEF FoundFine
<1>6. "scan" \notin Moving /\ "scan" \notin Complete
  BY NoMove, GroupsApart
<1> QED
  BY <1>1, <1>2, <1>3, <1>4, <1>5, <1>6 DEF MatchInv

\* scan begins a token.
LEMMA MatchScan == ASSUME MatchInv, Scan PROVE MatchInv'
<1> DEFINE S == Source  b == data'[cursor + 1]
<1>0. NumInv /\ SourceInv /\ LexInv /\ BufferOK /\ label = "scan"
  BY DEF MatchInv, NumInv, LexInv, Scan
<1>1. LexInv' /\ NumInv' /\ BufferOK'
  BY <1>0, ScanStep, NumScan DEF LexInv
<1>2. /\ start' = cursor /\ cursor' = cursor /\ yyaccept' = 0 /\ tokens' = tokens /\ marker' = marker
      /\ mode' = mode /\ text' = text /\ Refill(cursor, 5)
      /\ label' = IF cursor < Len(data') THEN First(b) ELSE "outside"
  BY DEF Scan, Read, First, Needs
<1>3. cursor \in Nat /\ Len(data') \in Nat /\ label' \in Labels
  BY <1>0, <1>1 DEF LexInv, BufferOK
<1>4. cursor < Len(data') /\ label' = First(b)
  BY <1>2, <1>3 DEF Labels, Moving, Between, Continuing, HexDigits, InInteger, InExponent,
       InLiteral, Ending
<1>5. SourceInv' /\ Source' = S
  BY <1>0, <1>2, <1>3, SourceStays
<1>6. cursor < Len(S) /\ AllWhite(S, LastEnd(tokens), cursor) /\ FoundFine(tokens, S) /\ marker < Len(S)
  BY <1>0 DEF MatchInv
<1>7. S \in Seq(Byte) /\ Len(S) \in Nat
  BY <1>0, SourceIs DEF BufferOK
<1> HIDE DEF S
<1>8. b = S[cursor + 1]
  <2>1. cursor + 1 \in 1..Len(data') /\ cursor + 1 <= Len(Source')
    BY <1>3, <1>4, <1>5, <1>6, <1>7
  <2>2. data'[cursor + 1] = Source'[cursor + 1]
    BY <1>5, <2>1 DEF SourceInv, SourceIn
  <2> QED
    BY <1>5, <2>2
<1> HIDE DEF b
<1>9. AtLabel(label', S, cursor, cursor, cursor)
  BY <1>3, <1>4, <1>6, <1>7, <1>8, AtFirst
<1>10. b \in Byte
  <2>1. cursor + 1 \in 1..Len(S)
    BY <1>3, <1>6, <1>7
  <2> QED
    BY <1>7, <1>8, <2>1
<1>11. label' \in Moving \cup (Complete \ {"L2"}) => S[cursor + 1] # 0
  BY <1>4, <1>8, <1>10, FirstHeads
<1>12. Kept' = cursor
  BY <1>2 DEF Kept
<1>13. label' # "scan"
  BY <1>4, <1>10, FirstHeads, GroupsApart DEF Early
<1>a. Source' = S
  BY <1>5
<1>14. FoundFine(tokens, S)'  /\ AllWhite(S, LastEnd(tokens), cursor)'
  BY <1>2, <1>6, <1>a DEF S
<1> QED
  BY <1>1, <1>2, <1>3, <1>5, <1>6, <1>9, <1>11, <1>12, <1>13, <1>14, <1>a DEF MatchInv, S

\* The labels that set the marker.
LEMMA MarksAre ==
    /\ DOMAIN Marks = {"L9", "L23", "L24", "L25", "L13", "L15", "L49"}
    /\ Marks["L9"] = 0 /\ Marks["L23"] = 0 /\ Marks["L24"] = 0 /\ Marks["L25"] = 0
    /\ Marks["L13"] = 1 /\ Marks["L15"] = 1 /\ Marks["L49"] = 1
BY DEF Marks

\* scan goes on by one byte.
LEMMA MatchMove == ASSUME MatchInv, Move PROVE MatchInv'
<1> DEFINE S == Source  c == cursor + 1  b == data'[c + 1]
<1>0. NumInv /\ SourceInv /\ LexInv /\ BufferOK
  BY DEF MatchInv, NumInv, LexInv
<1>1. LexInv' /\ NumInv' /\ BufferOK'
  BY <1>0, MoveStep, NumMove DEF LexInv
<1>2. /\ label \in Moving /\ label \notin {"scan", "done"}
      /\ start' = start /\ cursor' = c /\ tokens' = tokens /\ mode' = mode /\ text' = text
      /\ Refill(c, Needs(label))
      /\ label' = IF c < Len(data') THEN To(label, b) ELSE "outside"
      /\ IF label \in DOMAIN Marks THEN marker' = c /\ yyaccept' = Marks[label]
         ELSE marker' = marker /\ yyaccept' = yyaccept
  <2>1. label \in Moving /\ cursor' = c
    BY EdgesAre DEF Move
  <2> QED
    BY <2>1, NoMove DEF Move, Read, To
<1>3. cursor \in Nat /\ c \in Nat /\ Len(data') \in Nat /\ label' \in Labels /\ Needs(label) \in Nat /\ start \in Nat
      /\ start <= cursor /\ marker \in Nat /\ c + 1 = cursor + 2 /\ yyaccept \in {0, 1}
  BY <1>0, <1>1, <1>2 DEF LexInv, BufferOK, Needs, NumInv
<1>4. c < Len(data') /\ label' = To(label, b)
  <2>1. c \in 0..Len(data')
    BY <1>1, <1>2 DEF LexInv
  <2> QED
    BY <1>2, <1>3, <2>1 DEF Labels, Moving, Between, Continuing, HexDigits, InInteger, InExponent,
       InLiteral, Ending
<1>5. SourceInv' /\ Source' = S
  BY <1>0, <1>2, <1>3, SourceStays
<1>6. /\ cursor < Len(S) /\ AllWhite(S, LastEnd(tokens), start) /\ FoundFine(tokens, S) /\ marker < Len(S)
      /\ S[cursor + 1] # 0 /\ AtLabel(label, S, start, cursor, Kept)
      /\ (yyaccept = 1 => NumberEndsAt(S, start, marker))
  BY <1>2 DEF MatchInv
<1>7. S \in Seq(Byte) /\ Len(S) \in Nat /\ S[Len(S)] = 0
  BY <1>0, SourceIs DEF BufferOK
<1> HIDE DEF S
<1>8. c < Len(S)
  <2>1. c # Len(S)
    BY <1>6, <1>7
  <2> QED
    BY <1>3, <1>6, <1>7, <2>1
<1>9. b = S[c + 1] /\ b = S[cursor + 2] /\ b \in Byte
  <2>1. c + 1 \in 1..Len(data') /\ c + 1 <= Len(Source') /\ c + 1 \in 1..Len(S)
    BY <1>3, <1>4, <1>5, <1>7, <1>8
  <2>2. data'[c + 1] = Source'[c + 1]
    BY <1>5, <2>1 DEF SourceInv, SourceIn
  <2> QED
    BY <1>3, <1>5, <1>7, <2>1, <2>2
<1> HIDE DEF b
<1>10. marker' < Len(S)
  BY <1>2, <1>6, <1>8
<1>11. CASE label = "L6"
  <2>1. label' = IF b \in White THEN "L6" ELSE "scan"
    BY <1>4, <1>11, WhiteGoes
  <2>2. marker' = marker /\ yyaccept' = yyaccept
    BY <1>2, <1>11, MarksAre
  <2>3. \A i \in (start + 1)..c : S[i] \in White
    BY <1>6, <1>11 DEF AtLabel
  <2>4. CASE b \in White
    <3>0. label' = "L6"
      BY <2>1, <2>4
    <3>1. \A i \in (start + 1)..(c + 1) : i \in (start + 1)..c \/ i = c + 1
      BY <1>3
    <3>2. \A i \in (start + 1)..(c + 1) : S[i] \in White
      BY <1>9, <2>3, <2>4, <3>1
    <3>3. AtLabel("L6", S, start, c, Kept')
      BY <3>2, GroupsApart DEF AtLabel, Early
    <3>4. S[c + 1] # 0
      BY <1>9, <2>4 DEF White
    <3>5. "L6" \notin Complete /\ "L6" \notin {"scan", "done"}
      BY GroupsApart
    <3>6. yyaccept' = 1 => NumberEndsAt(S, start, marker')
      BY <1>6, <2>2
    <3> HIDE DEF c
    <3> QED
      BY <1>1, <1>2, <1>5, <1>6, <1>8, <1>10, <3>0, <3>3, <3>4, <3>5, <3>6 DEF MatchInv
  <2>5. CASE b \notin White
    <3>0. label' = "scan"
      BY <2>1, <2>5
    <3>1. AllWhite(S, LastEnd(tokens), c)
      <4> DEFINE e == LastEnd(tokens)
      <4>0. \A i \in (e + 1)..start : S[i] \in White
        BY <1>6 DEF AllWhite
      <4> HIDE DEF e
      <4>1. ASSUME NEW i \in (e + 1)..c PROVE S[i] \in White
        <5>1. i \in Int /\ e + 1 <= i /\ i <= c
          BY <1>3, <4>1
        <5>2. i \in (e + 1)..start \/ i \in (start + 1)..c
          BY <1>3, <4>1, <5>1
        <5> QED
          BY <2>3, <4>0, <5>2
      <4> QED
        BY <4>1 DEF AllWhite, e
    <3>2. "scan" \notin Complete /\ "scan" \notin Moving
      BY GroupsApart, NoMove
    <3> HIDE DEF c
    <3> QED
      BY <1>1, <1>2, <1>5, <1>6, <1>8, <1>10, <3>0, <3>1, <3>2 DEF MatchInv
  <2> QED
    BY <2>4, <2>5
<1>12. CASE label # "L6"
  <2>1. label \in InToken
    BY <1>2, <1>12, MovingIs
  <2>2. Heads(label, b, label')
    BY <1>4, <1>9, <2>1, HeadsAre
  <2>3. /\ label' \in (InToken \ Early) \cup (Complete \ {"L2"}) \cup {"L5", "L14", "L32"}
        /\ label' \in InToken \cup Complete => b # 0
    BY <2>2 DEF Heads
  <2>4. label' \notin {"L6", "scan", "done"}
    BY <2>3, GroupsApart
  <2>5. label' \in Moving \cup (Complete \ {"L2"}) => S[c + 1] # 0
    BY <1>9, <2>3, <2>4, MovingIs
  <2>6. /\ label \in {"L13", "L15", "L49"} => Kept' = c /\ yyaccept' = 1 /\ marker' = c
        /\ label \in {"L9", "L23", "L24", "L25"} => Kept' = start /\ yyaccept' = 0
        /\ label \notin {"L13", "L15", "L49", "L9", "L23", "L24", "L25"} =>
              Kept' = Kept /\ yyaccept' = yyaccept /\ marker' = marker
    <3> HIDE DEF c
    <3>1. CASE label \in {"L13", "L15", "L49"}
      <4>1. marker' = c /\ yyaccept' = 1
        BY <1>2, <3>1, MarksAre
      <4> QED
        BY <3>1, <4>1 DEF Kept
    <3>2. CASE label \in {"L9", "L23", "L24", "L25"}
      <4>1. yyaccept' = 0 /\ start' = start
        BY <1>2, <3>2, MarksAre
      <4> QED
        BY <3>2, <4>1 DEF Kept
    <3>3. CASE label \notin {"L13", "L15", "L49", "L9", "L23", "L24", "L25"}
      <4>1. yyaccept' = yyaccept /\ marker' = marker /\ start' = start
        BY <1>2, <3>3, MarksAre
      <4> QED
        BY <3>3, <4>1 DEF Kept
    <3> QED
      BY <3>1, <3>2, <3>3
  <2>7. Kept \in Nat /\ Kept' \in Nat
    BY <1>3, <2>6 DEF Kept
  <2>8. AtLabel(label', S, start, c, Kept')
    <3> DEFINE kept == Kept  next == Kept'
    <3> HIDE DEF kept, next
    <3>1. IF label \in {"L13", "L15", "L49"} THEN next = cursor + 1
          ELSE IF label \in {"L9", "L23", "L24", "L25"} THEN next = start ELSE next = kept
      BY <2>6 DEF kept, next
    <3>2. kept \in Nat /\ next \in Nat /\ AtLabel(label, S, start, cursor, kept)
      BY <1>6, <2>7 DEF kept, next
    <3>3. cursor + 1 < Len(S)
      BY <1>8
    <3>4. AtLabel(To(label, S[cursor + 2]), S, start, cursor + 1, next)
      BY <1>3, <1>7, <2>1, <3>1, <3>2, <3>3, AtNext
    <3> QED
      BY <1>4, <1>9, <3>4 DEF next
  <2>9. yyaccept' = 1 => NumberEndsAt(S, start, marker')
    <3>1. CASE label \in {"L13", "L15", "L49"}
      <4>1. label \in NumberEnds
        BY <3>1 DEF NumberEnds
      <4>2. NumberEndsAt(S, start, c)
        BY <1>3, <1>6, <1>7, <4>1, NumberEnding DEF NumberEndsAt
      <4> QED
        BY <2>6, <3>1, <4>2
    <3>2. CASE label \in {"L9", "L23", "L24", "L25"}
      BY <2>6, <3>2
    <3>3. CASE label \notin {"L13", "L15", "L49", "L9", "L23", "L24", "L25"}
      BY <1>6, <2>6, <3>3
    <3> QED
      BY <3>1, <3>2, <3>3
  <2>10. start <= c
    BY <1>3
  <2> HIDE DEF c
  <2> QED
    BY <1>1, <1>2, <1>5, <1>6, <1>8, <1>10, <2>4, <2>5, <2>8, <2>9, <2>10 DEF MatchInv
<1> QED
  BY <1>11, <1>12

\* L32: the token ends at the marker, or there is none.
LEMMA MatchBack == ASSUME MatchInv, Back PROVE MatchInv'
<1> DEFINE S == Source
<1>0. NumInv /\ SourceInv
  BY DEF MatchInv
<1>1. NumInv'
  BY <1>0, NumSteps DEF Next
<1>2. /\ label = "L32" /\ cursor' = marker /\ label' = IF yyaccept = 0 THEN "L5" ELSE "L14"
      /\ UNCHANGED <<mode, text, data, taken, eof, start, marker, yyaccept, tokens>>
  BY DEF Back
<1>3. SourceInv' /\ Source' = S
  BY <1>0, <1>2 DEF SourceInv, SourceIn, Source, Whole
<1>4. /\ AllWhite(S, LastEnd(tokens), start) /\ FoundFine(tokens, S) /\ marker < Len(S)
      /\ AtLabel("L32", S, start, cursor, Kept)
      /\ (yyaccept = 1 => NumberEndsAt(S, start, marker))
  BY <1>2 DEF MatchInv
<1>5. NoneIn(S, start, Kept, Len(S))
  BY <1>4 DEF AtLabel
<1> HIDE DEF S
<1>6. AtLabel(label', S, start, marker, Kept')
  <2>1. CASE yyaccept = 0
    <3>1. label' = "L5" /\ Kept = start
      BY <1>2, <2>1 DEF Kept
    <3>2. "L5" \notin InToken /\ "L5" \notin Complete /\ "L5" \notin Early
      BY GroupsApart DEF Early
    <3> QED
      BY <1>5, <3>1, <3>2 DEF AtLabel
  <2>2. CASE yyaccept # 0
    <3>1. yyaccept = 1
      BY <1>0, <2>2 DEF NumInv
    <3>2. label' = "L14" /\ Kept = marker
      BY <1>2, <3>1 DEF Kept
    <3>3. "L14" \notin InToken /\ "L14" \notin Complete /\ "L14" \notin Early
      BY GroupsApart DEF Early
    <3> QED
      BY <1>4, <1>5, <3>1, <3>2, <3>3 DEF AtLabel, NumberEndsAt
  <2> QED
    BY <2>1, <2>2
<1>7. label' \in {"L5", "L14"}
  BY <1>2
<1>8. label' \notin Moving /\ label' \notin Complete /\ label' \notin {"scan", "done"}
  BY <1>7, GroupsApart, NoMove
<1> QED
  BY <1>1, <1>2, <1>3, <1>4, <1>6, <1>8 DEF MatchInv

\* scan returns a token, the longest one.
LEMMA MatchReturn == ASSUME MatchInv, Return PROVE MatchInv'
<1> DEFINE S == Source  t == [type |-> Ends[label], from |-> start, to |-> cursor']
<1>0. NumInv /\ SourceInv /\ BufferOK
  BY DEF MatchInv, NumInv, LexInv
<1>1. NumInv'
  BY <1>0, NumReturn
<1>2. /\ label \in Ending /\ label \notin {"scan", "done"}
      /\ cursor' = IF label \in {"L5", "L14"} THEN cursor ELSE cursor + 1
      /\ tokens' = Append(tokens, t)
      /\ label' = IF Ends[label] \in {"end_of_input", "parse_error"} THEN "done" ELSE "scan"
      /\ UNCHANGED <<mode, text, data, taken, eof, start, marker, yyaccept>>
  BY EndsAre DEF Return, Ending
<1>3. SourceInv' /\ Source' = S
  BY <1>0, <1>2 DEF SourceInv, SourceIn, Source, Whole
<1>4. /\ AllWhite(S, LastEnd(tokens), start) /\ FoundFine(tokens, S) /\ marker < Len(S) /\ cursor < Len(S)
      /\ AtLabel(label, S, start, cursor, Kept)
      /\ label \in Complete \ {"L2"} => S[cursor + 1] # 0
      /\ label \in Complete => start <= cursor
  BY <1>2 DEF MatchInv
<1>5. S \in Seq(Byte) /\ Len(S) \in Nat /\ S[Len(S)] = 0
  BY <1>0, SourceIs DEF BufferOK
<1>6. cursor \in Nat /\ cursor' \in Nat /\ start \in Nat /\ tokens \in Seq(Returned)
  BY <1>0, <1>2 DEF LexInv, BufferOK, NumInv
<1> HIDE DEF S
<1>7. TokenFine(t, S)
  BY <1>2, <1>4, <1>5, <1>6, ReturnFine
<1>8. t \in Returned /\ t.from = start /\ t.to = cursor'
  <2>1. Ends[label] \in {Ends[l] : l \in Ending}
    BY <1>2
  <2> QED
    BY <1>6, <2>1 DEF Returned
<1> HIDE DEF t
<1>9. FoundFine(tokens', S) /\ LastEnd(tokens') = cursor'
  BY <1>2, <1>4, <1>6, <1>7, <1>8, FoundMore
<1>10. AllWhite(S, cursor', cursor')
  <2>1. \A n \in Nat : AllWhite(S, n, n)
    BY DEF AllWhite
  <2> QED
    BY <1>6, <2>1
<1>11. label' # "done" => cursor' < Len(S) /\ label' = "scan"
  <2> SUFFICES ASSUME label' # "done" PROVE cursor' < Len(S) /\ label' = "scan"
    OBVIOUS
  <2>1. label' = "scan" /\ Ends[label] \notin {"end_of_input", "parse_error"}
    BY <1>2
  <2>2. label = "L14" \/ label \in Complete \ {"L2"}
    BY <1>2, <2>1, EndingIs
  <2>3. CASE label = "L14"
    BY <1>2, <1>4, <2>1, <2>3
  <2>4. CASE label \in Complete \ {"L2"}
    <3>1. label \notin {"L5", "L14"}
      BY <2>4, GroupsApart
    <3>2. S[cursor + 1] # 0
      BY <1>4, <2>4
    <3>3. cursor + 1 # Len(S)
      BY <1>5, <3>2
    <3> QED
      BY <1>2, <1>4, <1>5, <1>6, <2>1, <3>1, <3>3
  <2> QED
    BY <2>2, <2>3, <2>4
<1>12. label' \in {"scan", "done"}
  BY <1>2
<1>13. label' \notin Moving /\ label' \notin Complete
  BY <1>12, GroupsApart, NoMove
<1>14. label' # "done" => cursor' < Len(S) /\ AllWhite(S, LastEnd(tokens'), cursor') /\ label' = "scan"
  BY <1>9, <1>10, <1>11
<1> QED
  BY <1>1, <1>2, <1>3, <1>4, <1>9, <1>12, <1>13, <1>14 DEF MatchInv

\* Every step of scan keeps that.
LEMMA MatchSteps == MatchInv /\ [Next]_(vars) => MatchInv'
<1> SUFFICES ASSUME MatchInv, [Next]_(vars) PROVE MatchInv'
  OBVIOUS
<1>1. CASE UNCHANGED vars
  <2>1. NumInv'
    BY <1>1, NumSteps DEF MatchInv
  <2>2. UNCHANGED <<mode, text, data, taken, eof, start, cursor, marker, yyaccept, label, tokens>>
    BY <1>1 DEF vars
  <2>3. SourceInv' /\ Source' = Source /\ Kept' = Kept
    BY <2>2 DEF MatchInv, SourceInv, SourceIn, Source, Whole, Kept
  <2> QED
    BY <2>1, <2>2, <2>3 DEF MatchInv
<1> QED
  BY <1>1, MatchScan, MatchMove, MatchBack, MatchReturn DEF Next

\* scan finds, at every place of every text, in memory or in a stream, the longest
\* token of the grammar that begins there, leaves out nothing but whitespace, and
\* gives up only where no token begins.
THEOREM LongestTokens == Spec => []LongestMatch
<1>1. MatchInv => LongestMatch
  <2> SUFFICES ASSUME MatchInv PROVE LongestMatch
    OBVIOUS
  <2>1. FoundFine(tokens, Source)
    BY DEF MatchInv
  <2> QED
    BY <2>1 DEF LongestMatch, FoundFine, AllWhite, TokenFine, Slice
<1> QED
  BY <1>1, MatchStarts, MatchSteps, PTL DEF Spec

-----------------------------------------------------------------------------
(* The strings.                                                            *)

\* Two sequences one after the other.
LEMMA Joined ==
    ASSUME NEW S, NEW c \in Seq(S), NEW t \in Seq(S)
    PROVE  /\ c \o t \in Seq(S) /\ Len(c \o t) = Len(c) + Len(t) /\ Len(c) \in Nat /\ Len(t) \in Nat
           /\ \A i \in 1..Len(c) : (c \o t)[i] = c[i]
           /\ \A i \in 1..Len(t) : (c \o t)[Len(c) + i] = t[i]
<1> DEFINE a == Len(c)  b == Len(t)  z == c \o t
<1>1. z \in Seq(S) /\ Len(z) = a + b /\ \A i \in 1..a + b : z[i] = IF i <= a THEN c[i] ELSE t[i - a]
  BY ConcatProperties
<1>2. a \in Nat /\ b \in Nat
  OBVIOUS
<1> HIDE DEF a, b, z
<1>3. ASSUME NEW i \in 1..a PROVE z[i] = c[i]
  <2>1. i \in 1..a + b /\ i <= a
    BY <1>2
  <2> QED
    BY <1>1, <2>1
<1>4. ASSUME NEW i \in 1..b PROVE z[a + i] = t[i]
  <2> DEFINE k == a + i
  <2>1. k \in 1..a + b /\ ~(k <= a) /\ k - a = i
    BY <1>2
  <2> HIDE DEF k
  <2>2. z[k] = t[k - a]
    BY <1>1, <2>1
  <2> QED
    BY <2>1, <2>2 DEF k
<1> QED
  BY <1>1, <1>2, <1>3, <1>4 DEF a, b, z

\* t is what z has behind its first p elements, up to k before its end.
Behind(z, p, t, k) == Len(z) = p + Len(t) + k /\ \A j \in 1..Len(t) : z[p + j] = t[j]

\* What is there of two parts: the first, and behind it the second.
LEMMA BehindMore ==
    ASSUME NEW S, NEW z \in Seq(S), NEW c \in Seq(S), NEW t \in Seq(S), NEW p \in Nat, NEW k \in Nat,
           Behind(z, p, c \o t, k)
    PROVE  /\ Behind(z, p + Len(c), t, k) /\ \A j \in 1..Len(c) : z[p + j] = c[j]
           /\ Len(z) = p + Len(c) + Len(t) + k /\ Len(c) \in Nat /\ Len(t) \in Nat
<1> DEFINE a == Len(c)  b == Len(t)  y == c \o t
<1>1. /\ Len(y) = a + b /\ a \in Nat /\ b \in Nat
      /\ (\A i \in 1..a : y[i] = c[i]) /\ \A i \in 1..b : y[a + i] = t[i]
  BY Joined
<1>2. Len(z) = p + Len(y) + k /\ \A j \in 1..Len(y) : z[p + j] = y[j]
  BY DEF Behind
<1> HIDE DEF a, b, y
<1>3. Len(z) = (p + a) + b + k /\ Len(z) = p + a + b + k
  BY <1>1, <1>2
<1>4. ASSUME NEW j \in 1..a PROVE z[p + j] = c[j]
  <2>1. j \in 1..Len(y)
    BY <1>1
  <2> QED
    BY <1>1, <1>2, <2>1
<1>5. ASSUME NEW j \in 1..b PROVE z[(p + a) + j] = t[j]
  <2> DEFINE i == a + j
  <2>1. i \in 1..Len(y) /\ p + i = (p + a) + j
    BY <1>1
  <2>2. y[i] = t[j]
    BY <1>1
  <2> HIDE DEF i
  <2>3. z[p + i] = y[i]
    BY <1>2, <2>1
  <2> QED
    BY <2>1, <2>2, <2>3
<1> QED
  BY <1>1, <1>3, <1>4, <1>5 DEF Behind, a, b

\* All of a sequence is behind its first no elements.
LEMMA BehindNone == ASSUME NEW S, NEW z \in Seq(S) PROVE Behind(z, 0, z, 0)
<1>1. Len(z) \in Nat /\ \A j \in 1..Len(z) : 0 + j = j
  OBVIOUS
<1>2. Len(z) = 0 + Len(z) + 0
  BY <1>1
<1> QED
  BY <1>1, <1>2 DEF Behind

\* A unit, or a character, is no part of another one that begins where it does.
LEMMA UnitsDiffer ==
    ASSUME NEW s, NEW m \in Nat, NEW d, NEW e
    PROVE  /\ CharAt(s, m, d) /\ CharAt(s, m, e) => d = e
           /\ UnitAt(s, m, d) /\ UnitAt(s, m, e) => d = e
<1>1. CharAt(s, m, d) /\ CharAt(s, m, e) => d = e
  BY SMT DEF CharAt, Lead3, Lead4, Tail8
<1>2. Backslash = 92 /\ 92 \in 0..127
  BY DEF Backslash
<1>3. UnitAt(s, m, d) /\ UnitAt(s, m, e) => d = e
  <2>1. 117 \notin Simple
    BY DEF Simple, Quote, Backslash
  <2> QED
    BY <1>1, <1>2, <2>1 DEF UnitAt
<1> QED
  BY <1>1, <1>3

\* Units, or characters, of the grammar.
Kinds == {AllOfUnit, AllOfCharacter}

\* In every text that ends with t, it splits into L.
Splits(One, t, L) ==
    \A z \in Seq(Byte) : \A p \in Nat : Behind(z, p, t, 0) =>
        \A f : AllUnits(f, z, One, 1) => f[p + 1] = [ok |-> TRUE, list |-> L]

\* No bytes split into no units.
LEMMA SplitsNone == ASSUME NEW One PROVE Splits(One, <<>>, <<>>)
<1> SUFFICES ASSUME NEW z \in Seq(Byte), NEW p \in Nat, Behind(z, p, <<>>, 0), NEW f, AllUnits(f, z, One, 1)
             PROVE  f[p + 1] = [ok |-> TRUE, list |-> <<>>]
  BY DEF Splits
<1>1. Len(z) = p
  <2>1. Len(z) = p + Len(<<>>) + 0 /\ Len(<<>>) = 0
    BY DEF Behind
  <2> QED
    BY <2>1
<1>2. p + 1 \in 1..(Len(z) + 1) /\ p + 1 = Len(z) + 1
  BY <1>1
<1> QED
  BY <1>2 DEF AllUnits, UnitsFrom

\* One of them has one to six bytes, and no other begins with it.
LEMMA OneLength ==
    ASSUME NEW One \in Kinds, NEW c \in One
    PROVE  c \in Seq(Byte) /\ Len(c) \in 1..6
<1>1. c \in Seq(Byte) /\ Len(c) \in Nat
  BY DEF Kinds, AllOfUnit, AllOfCharacter
<1>2. IsCharacter(c) => Len(c) \in 1..6
  <2>1. IsCharacter(c) => Len(c) \in 1..4
    BY DEF IsCharacter
  <2> QED
    BY <2>1
<1>3. IsUnit(c) => Len(c) \in 1..6
  <2>1. IsPlain(c) => Len(c) \in 1..6
    BY <1>2 DEF IsPlain
  <2>2. IsShort(c) => Len(c) = 2
    BY DEF IsShort
  <2>3. IsLong(c) => Len(c) = 6
    BY DEF IsLong
  <2> QED
    BY <2>1, <2>2, <2>3 DEF IsUnit
<1> QED
  BY <1>1, <1>2, <1>3 DEF Kinds, AllOfUnit, AllOfCharacter

\* Where one of them begins, only one ends.
LEMMA OneThere ==
    ASSUME NEW One \in Kinds, NEW s \in Seq(Byte), NEW m \in Nat, NEW d \in Nat, NEW e \in Nat, m < d, d <= Len(s),
           m < e, e <= Len(s), SubSeq(s, m + 1, d) \in One, SubSeq(s, m + 1, e) \in One
    PROVE  d = e
<1>1. CASE One = AllOfUnit
  <2>1. IsUnit(SubSeq(s, m + 1, d)) /\ IsUnit(SubSeq(s, m + 1, e))
    BY <1>1 DEF AllOfUnit
  <2>2. UnitAt(s, m, d) /\ UnitAt(s, m, e)
    BY <2>1, UnitHere
  <2> QED
    BY <2>2, UnitsDiffer
<1>2. CASE One = AllOfCharacter
  <2>1. IsCharacter(SubSeq(s, m + 1, d)) /\ IsCharacter(SubSeq(s, m + 1, e))
    BY <1>2 DEF AllOfCharacter
  <2>2. CharAt(s, m, d) /\ CharAt(s, m, e)
    BY <2>1, CharHere
  <2> QED
    BY <2>2, UnitsDiffer
<1> QED
  BY <1>1, <1>2 DEF Kinds

\* One unit more in front.
LEMMA SplitsMore ==
    ASSUME NEW One \in Kinds, NEW c \in One, NEW t \in Seq(Byte), NEW L, Splits(One, t, L)
    PROVE  Splits(One, c \o t, <<c>> \o L)
<1> SUFFICES ASSUME NEW z \in Seq(Byte), NEW p \in Nat, Behind(z, p, c \o t, 0), NEW f, AllUnits(f, z, One, 1)
             PROVE  f[p + 1] = [ok |-> TRUE, list |-> <<c>> \o L]
  BY DEF Splits
<1>1. c \in Seq(Byte) /\ Len(c) \in 1..6
  BY OneLength
<1>a. PICK a \in 1..6 : a = Len(c)
  BY <1>1
<1>b. PICK k \in Nat : k = Len(t)
  OBVIOUS
<1> DEFINE e == p + a  i == p + 1  n == p + a + k
<1>2. /\ Behind(z, e, t, 0) /\ (\A j \in 1..a : z[p + j] = c[j])
      /\ Len(z) = n
  <2>1. /\ Behind(z, p + Len(c), t, 0) /\ (\A j \in 1..Len(c) : z[p + j] = c[j])
        /\ Len(z) = p + Len(c) + Len(t) + 0
    BY <1>1, BehindMore
  <2>2. p + a + k + 0 = n
    OBVIOUS
  <2> QED
    BY <1>a, <1>b, <2>1, <2>2
<1>3. e \in Nat /\ p < e /\ e <= n /\ e - p = a /\ p <= e /\ n \in Nat
  OBVIOUS
<1>4. i \in 1..n /\ i \in 1..(n + 1) /\ i # n + 1 /\ e \in i..n /\ e <= i + 5
  BY <1>3
<1> HIDE DEF n
<1> HIDE DEF e
<1>5. SubSeq(z, p + 1, e) = c
  <2> DEFINE v == SubSeq(z, p + 1, e)
  <2>1. v \in Seq(Byte) /\ Len(v) = e - p /\ \A m \in 1..(e - p) : v[m] = z[p + m]
    BY <1>2, <1>3, SliceIs
  <2> HIDE DEF v
  <2>2. Len(v) = Len(c) /\ \A m \in 1..Len(v) : v[m] = c[m]
    BY <1>a, <1>2, <1>3, <2>1
  <2>3. v = c
    BY <1>1, <2>1, <2>2, SeqEqual
  <2> QED
    BY <2>3 DEF v
<1>6. f[e + 1] = [ok |-> TRUE, list |-> L]
  BY <1>2, <1>3 DEF Splits
<1> DEFINE E == UnitEnds(f, z, One, i)
<1>7. E \subseteq i..Len(z) /\ e \in E
  <2>1. SubSeq(z, i, e) \in One
    BY <1>5
  <2>a. f[e + 1].ok
    BY <1>6
  <2> QED
    BY <1>2, <1>4, <2>1, <2>a, UnitEndsIn
<1>8. ASSUME NEW j \in E PROVE j = e
  <2>1. SubSeq(z, p + 1, j) \in One
    BY <1>8 DEF UnitEnds
  <2>2. j \in Nat /\ p < j /\ j <= Len(z)
    BY <1>2, <1>3, <1>7
  <2>3. SubSeq(z, p + 1, e) \in One
    BY <1>5
  <2> QED
    BY <1>2, <1>3, <2>1, <2>2, <2>3, OneThere
<1>9. Min(E) = e /\ E # {}
  <2>1. E \subseteq Nat /\ E # {}
    BY <1>2, <1>3, <1>4, <1>7
  <2> HIDE DEF E
  <2>2. Min(E) \in E
    BY <2>1, MinIs
  <2> QED
    BY <1>8, <2>1, <2>2
<1>10. f[i] = UnitsFrom(f, z, One, i)
  BY <1>2, <1>4 DEF AllUnits
<1> HIDE DEF i
<1>11. UnitsFrom(f, z, One, i) = [ok |-> TRUE, list |-> <<SubSeq(z, i, e)>> \o f[e + 1].list]
  BY <1>2, <1>4, <1>9 DEF UnitsFrom
<1>12. SubSeq(z, i, e) = c
  BY <1>5 DEF i
<1>13. f[e + 1].list = L
  BY <1>6
<1>14. f[i] = [ok |-> TRUE, list |-> <<c>> \o L]
  BY <1>10, <1>11, <1>12, <1>13
<1> QED
  BY <1>14 DEF i

\* What Units gives of characters: those from the first position on.
LEMMA CharactersAre ==
    ASSUME NEW u \in Seq(Byte)
    PROVE  \E f : AllUnits(f, u, AllOfCharacter, 1) /\ Units(u, IsCharacter) = f[1]
<1> DEFINE P(f) == f = [i \in 1..(Len(u) + 1) |->
            IF i = Len(u) + 1 THEN [ok |-> TRUE, list |-> <<>>]
            ELSE LET ends == {j \in i..Min({i + 5, Len(u)}) : IsCharacter(SubSeq(u, i, j)) /\ f[j + 1].ok}
                 IN IF ends = {} THEN [ok |-> FALSE, list |-> <<>>]
                    ELSE LET j == Min(ends) IN
                         [ok |-> TRUE, list |-> <<SubSeq(u, i, j)>> \o f[j + 1].list]]
           f == CHOOSE f : P(f)
<1>1. Units(u, IsCharacter) = f[1]
  BY DEF Units
<1>2. ASSUME NEW g, AllUnits(g, u, AllOfCharacter, 1) PROVE P(g)
  <2>1. ASSUME NEW i \in 1..Len(u) PROVE UnitEnds(g, u, AllOfCharacter, i) = {j \in i..Min({i + 5, Len(u)}) : IsCharacter(SubSeq(u, i, j)) /\ g[j + 1].ok}
    <3> DEFINE m == Min({i + 5, Len(u)})
    <3>1. m <= Len(u) /\ m \in Nat /\ Len(u) \in Nat
      <4> DEFINE T == {i + 5, Len(u)}
      <4>1. T \subseteq Nat /\ T # {} /\ Len(u) \in T
        OBVIOUS
      <4> HIDE DEF T
      <4> QED
        BY <4>1, MinIs DEF T
    <3> HIDE DEF m
    <3>2. ASSUME NEW j \in i..m PROVE SubSeq(u, i, j) \in AllOfCharacter <=> IsCharacter(SubSeq(u, i, j))
      <4>1. j \in i..Len(u)
        BY <3>1
      <4> QED
        BY <4>1, PartIn DEF AllOfCharacter
    <3> QED
      BY <3>2 DEF UnitEnds, m
  <2>2. \A i \in 1..(Len(u) + 1) : i = Len(u) + 1 \/ i \in 1..Len(u)
    OBVIOUS
  <2> QED
    BY <1>2, <2>1, <2>2 DEF AllUnits, UnitsFrom
<1>3. P(f)
  <2>1. \E g : P(g)
    <3> HIDE DEF P
    <3> QED
      BY <1>2, UnitsExist
  <2> QED
    BY <2>1
<1>4. ASSUME NEW g, P(g) PROVE AllUnits(g, u, AllOfCharacter, 1)
  <2>1. ASSUME NEW i \in 1..Len(u) PROVE UnitEnds(g, u, AllOfCharacter, i) = {j \in i..Min({i + 5, Len(u)}) : IsCharacter(SubSeq(u, i, j)) /\ g[j + 1].ok}
    <3> DEFINE m == Min({i + 5, Len(u)})
    <3>1. m <= Len(u) /\ m \in Nat /\ Len(u) \in Nat
      <4> DEFINE T == {i + 5, Len(u)}
      <4>1. T \subseteq Nat /\ T # {} /\ Len(u) \in T
        OBVIOUS
      <4> HIDE DEF T
      <4> QED
        BY <4>1, MinIs DEF T
    <3> HIDE DEF m, P
    <3>2. ASSUME NEW j \in i..m PROVE SubSeq(u, i, j) \in AllOfCharacter <=> IsCharacter(SubSeq(u, i, j))
      <4>1. j \in i..Len(u)
        BY <3>1
      <4> QED
        BY <4>1, PartIn DEF AllOfCharacter
    <3> QED
      BY <3>2 DEF UnitEnds, m
  <2>2. \A i \in 1..(Len(u) + 1) : i = Len(u) + 1 \/ i \in 1..Len(u)
    OBVIOUS
  <2> QED
    BY <1>4, <2>1, <2>2 DEF AllUnits, UnitsFrom
<1> HIDE DEF P, f
<1> QED
  BY <1>1, <1>3, <1>4

\* What splits into a list is what Units gives.
LEMMA SplitsSays ==
    ASSUME NEW t \in Seq(Byte), NEW L
    PROVE  /\ Splits(AllOfUnit, t, L) => Units(t, IsUnit) = [ok |-> TRUE, list |-> L]
           /\ Splits(AllOfCharacter, t, L) => Units(t, IsCharacter) = [ok |-> TRUE, list |-> L]
<1>1. Behind(t, 0, t, 0) /\ 0 \in Nat /\ 0 + 1 = 1
  BY BehindNone
<1>2. ASSUME Splits(AllOfUnit, t, L) PROVE Units(t, IsUnit) = [ok |-> TRUE, list |-> L]
  <2>1. PICK f : AllUnits(f, t, AllOfUnit, 1) /\ Units(t, IsUnit) = f[1]
    BY UnitsAre
  <2>2. f[0 + 1] = [ok |-> TRUE, list |-> L]
    BY <1>1, <1>2, <2>1 DEF Splits
  <2> QED
    BY <1>1, <2>1, <2>2
<1>3. ASSUME Splits(AllOfCharacter, t, L) PROVE Units(t, IsCharacter) = [ok |-> TRUE, list |-> L]
  <2>1. PICK f : AllUnits(f, t, AllOfCharacter, 1) /\ Units(t, IsCharacter) = f[1]
    BY CharactersAre
  <2>2. f[0 + 1] = [ok |-> TRUE, list |-> L]
    BY <1>1, <1>3, <2>1 DEF Splits
  <2> QED
    BY <1>1, <2>1, <2>2
<1> QED
  BY <1>2, <1>3

\* get_string from a position of its token on.
HexAt(s, i) == HexValue(SubSeq(s, i, i + 3))
RestFrom(g, s, i) ==
    IF i >= Len(s) THEN Bytes(<<>>)
    ELSE IF s[i] # Backslash THEN Then(Bytes(<<s[i]>>), g[i + 1])
    ELSE IF s[i + 1] # 117 THEN Then(Bytes(<<Unescaped[s[i + 1]]>>), g[i + 2])
    ELSE IF HexAt(s, i + 2) \in HighSurrogate
         THEN IF s[i + 6] # Backslash \/ s[i + 7] # 117 THEN Thrown
              ELSE Then(ToUnicode(HexAt(s, i + 2), HexAt(s, i + 8)), g[i + 12])
    ELSE IF HexAt(s, i + 2) \in LowSurrogate THEN Thrown
    ELSE Then(ToUnicode(HexAt(s, i + 2), 0), g[i + 6])
AllRest(g, s, k) == g = [i \in k..(Len(s) + 12) |-> RestFrom(g, s, i)]

\* It depends on the later positions only.
LEMMA RestLater ==
    ASSUME NEW f, NEW g, NEW s, Len(s) \in Nat, NEW i \in Nat, i <= Len(s) + 12,
           \A j \in (i + 1)..(Len(s) + 12) : f[j] = g[j]
    PROVE  RestFrom(f, s, i) = RestFrom(g, s, i)
<1>1. CASE i >= Len(s)
  BY <1>1 DEF RestFrom
<1>2. CASE ~(i >= Len(s))
  <2>1. /\ i + 1 \in (i + 1)..(Len(s) + 12) /\ i + 2 \in (i + 1)..(Len(s) + 12)
        /\ i + 6 \in (i + 1)..(Len(s) + 12) /\ i + 12 \in (i + 1)..(Len(s) + 12)
    BY <1>2
  <2>2. f[i + 1] = g[i + 1] /\ f[i + 2] = g[i + 2] /\ f[i + 6] = g[i + 6] /\ f[i + 12] = g[i + 12]
    BY <2>1
  <2> QED
    BY <2>2 DEF RestFrom
<1> QED
  BY <1>1, <1>2

\* There are such results for every token.
LEMMA RestExist == ASSUME NEW s, Len(s) \in Nat PROVE \E g : AllRest(g, s, 2)
<1> DEFINE n == Len(s) + 12  N == {k \in Nat : k <= n - 2 => \E f : AllRest(f, s, n - k)}
<1>0. n \in Nat /\ n - 2 \in Nat /\ n - (n - 2) = 2 /\ n >= Len(s)
  OBVIOUS
<1>1. 0 \in N
  <2> DEFINE f == [i \in n..n |-> Bytes(<<>>)]
  <2>1. \A i \in n..n : RestFrom(f, s, i) = Bytes(<<>>)
    <3>1. \A i \in n..n : i >= Len(s)
      BY <1>0
    <3> QED
      BY <3>1 DEF RestFrom
  <2>2. f = [i \in n..n |-> RestFrom(f, s, i)]
    BY <2>1
  <2>3. n - 0 = n
    BY <1>0
  <2> QED
    BY <2>2, <2>3 DEF AllRest
<1>2. ASSUME NEW k \in Nat, k \in N PROVE k + 1 \in N
  <2> SUFFICES ASSUME k + 1 <= n - 2 PROVE \E f : AllRest(f, s, n - (k + 1))
    OBVIOUS
  <2> DEFINE b == n - k  a == n - (k + 1)
  <2>1. a \in Nat /\ b \in Nat /\ b = a + 1 /\ a <= n /\ k <= n - 2
    BY <1>0
  <2>2. PICK f : AllRest(f, s, b)
    BY <1>2, <2>1
  <2> DEFINE g == [i \in a..n |-> IF i = a THEN RestFrom(f, s, a) ELSE f[i]]
  <2> HIDE DEF a, b
  <2>3. \A i \in b..n : g[i] = f[i] /\ i # a /\ i \in a..n
    BY <1>0, <2>1
  <2>4. g[a] = RestFrom(f, s, a)
    BY <1>0, <2>1
  <2>5. ASSUME NEW i \in a..n PROVE g[i] = RestFrom(g, s, i)
    <3> HIDE DEF g
    <3>1. i \in Nat /\ i <= n /\ \A j \in (i + 1)..n : j \in b..n
      BY <1>0, <2>1
    <3>2. RestFrom(f, s, i) = RestFrom(g, s, i)
      BY <2>3, <3>1, RestLater
    <3>3. CASE i = a
      BY <2>4, <3>2, <3>3
    <3>4. CASE i # a
      <4>1. i \in b..n
        BY <1>0, <2>1, <3>4
      <4>2. f[i] = RestFrom(f, s, i)
        BY <2>2, <4>1 DEF AllRest
      <4> QED
        BY <2>3, <3>2, <4>1, <4>2
    <3> QED
      BY <3>3, <3>4
  <2>6. g = [i \in a..n |-> g[i]]
    OBVIOUS
  <2> HIDE DEF g
  <2>7. AllRest(g, s, a)
    BY <2>5, <2>6 DEF AllRest
  <2> QED
    BY <2>7 DEF a
<1>3. n - 2 \in N
  <2>1. Nat \subseteq N
    <3> HIDE DEF N
    <3> QED
      BY <1>1, <1>2, CountingUp
  <2> QED
    BY <1>0, <2>1
<1>4. n - 2 <= n - 2
  BY <1>0
<1> QED
  BY <1>0, <1>3, <1>4

\* What get_string gives: the result from the byte behind the first quote on.
LEMMA GetStringIs == ASSUME NEW s, Len(s) \in Nat
                     PROVE  \E g : AllRest(g, s, 2) /\ GetString(s) = g[2]
<1> DEFINE g == CHOOSE g : AllRest(g, s, 2)
<1>1. AllRest(g, s, 2)
  BY RestExist
<1>2. GetString(s) = g[2]
  BY DEF GetString, AllRest, RestFrom, HexAt
<1> HIDE DEF g
<1> QED
  BY <1>1, <1>2

\* In every token that ends with t and a quote, get_string makes r of t.
Reads(t, r) ==
    \A s \in Seq(Byte) : \A p \in Nat : p >= 1 /\ Behind(s, p, t, 1) /\ s[Len(s)] = Quote =>
        \A g : AllRest(g, s, 2) => g[p + 1] = r

\* No bytes make an empty text.
LEMMA ReadsNone == Reads(<<>>, Bytes(<<>>))
<1> SUFFICES ASSUME NEW s \in Seq(Byte), NEW p \in Nat, p >= 1, Behind(s, p, <<>>, 1), NEW g, AllRest(g, s, 2)
             PROVE  g[p + 1] = Bytes(<<>>)
  BY DEF Reads
<1>1. Len(s) = p + 1
  <2>1. Len(s) = p + Len(<<>>) + 1 /\ Len(<<>>) = 0
    BY DEF Behind
  <2> QED
    BY <2>1
<1>2. p + 1 \in 2..(Len(s) + 12) /\ p + 1 >= Len(s)
  BY <1>1
<1> QED
  BY <1>2 DEF AllRest, RestFrom

\* Where get_string is at the first byte of some part of a token.
AtPart(g, s, p, c, t) ==
    /\ g[p + 1] = RestFrom(g, s, p + 1) /\ ~(p + 1 >= Len(s))
    /\ \A j \in 1..Len(c) : s[p + j] = c[j]
    /\ Behind(s, p + Len(c), t, 1) /\ p + Len(c) \in Nat /\ p + Len(c) >= 1
    /\ Len(s) = p + Len(c) + Len(t) + 1 /\ Len(c) \in Nat /\ Len(t) \in Nat

\* So it is with a token that goes on with these bytes there.
LEMMA ReadsAt ==
    ASSUME NEW s \in Seq(Byte), NEW p \in Nat, p >= 1, NEW c \in Seq(Byte), NEW t \in Seq(Byte), Len(c) >= 1,
           Behind(s, p, c \o t, 1), NEW g, AllRest(g, s, 2)
    PROVE  AtPart(g, s, p, c, t)
<1>1. /\ Behind(s, p + Len(c), t, 1) /\ (\A j \in 1..Len(c) : s[p + j] = c[j])
      /\ Len(s) = p + Len(c) + Len(t) + 1 /\ Len(c) \in Nat /\ Len(t) \in Nat
  BY BehindMore
<1>2. p + 1 \in 2..(Len(s) + 12) /\ ~(p + 1 >= Len(s)) /\ p + Len(c) \in Nat /\ p + Len(c) >= 1
  BY <1>1
<1>3. g[p + 1] = RestFrom(g, s, p + 1)
  BY <1>2 DEF AllRest
<1> QED
  BY <1>1, <1>2, <1>3 DEF AtPart

\* A byte that is no backslash stands for itself.
LEMMA ReadsByte ==
    ASSUME NEW t \in Seq(Byte), NEW r, Reads(t, r), NEW b \in Byte, b # Backslash
    PROVE  Reads(<<b>> \o t, Then(Bytes(<<b>>), r))
<1> SUFFICES ASSUME NEW s \in Seq(Byte), NEW p \in Nat, p >= 1, Behind(s, p, <<b>> \o t, 1), s[Len(s)] = Quote,
                    NEW g, AllRest(g, s, 2)
             PROVE  g[p + 1] = Then(Bytes(<<b>>), r)
  BY DEF Reads
<1> DEFINE c == <<b>>
<1>1. c \in Seq(Byte) /\ Len(c) = 1 /\ c[1] = b /\ 1 \in 1..1
  OBVIOUS
<1> HIDE DEF c
<1>2. /\ g[p + 1] = RestFrom(g, s, p + 1) /\ ~(p + 1 >= Len(s)) /\ (\A j \in 1..Len(c) : s[p + j] = c[j])
      /\ Behind(s, p + Len(c), t, 1) /\ p + Len(c) \in Nat /\ p + Len(c) >= 1
  <2>1. Len(c) >= 1 /\ Behind(s, p, c \o t, 1)
    BY <1>1 DEF c
  <2>2. AtPart(g, s, p, c, t)
    BY <1>1, <2>1, ReadsAt
  <2> QED
    BY <2>2 DEF AtPart
<1>3. s[p + 1] = b
  BY <1>1, <1>2
<1>4. g[(p + 1) + 1] = r
  BY <1>1, <1>2 DEF Reads
<1> QED
  BY <1>2, <1>3, <1>4 DEF RestFrom

\* A short escape stands for the byte it is an escape of.
LEMMA ReadsShort ==
    ASSUME NEW t \in Seq(Byte), NEW r, Reads(t, r), NEW c \in Seq(Byte), Len(c) = 2, c[1] = Backslash, c[2] \in Simple
    PROVE  Reads(c \o t, Then(Bytes(<<Unescaped[c[2]]>>), r))
<1> SUFFICES ASSUME NEW s \in Seq(Byte), NEW p \in Nat, p >= 1, Behind(s, p, c \o t, 1), s[Len(s)] = Quote,
                    NEW g, AllRest(g, s, 2)
             PROVE  g[p + 1] = Then(Bytes(<<Unescaped[c[2]]>>), r)
  BY DEF Reads
<1>2. /\ g[p + 1] = RestFrom(g, s, p + 1) /\ ~(p + 1 >= Len(s)) /\ (\A j \in 1..Len(c) : s[p + j] = c[j])
      /\ Behind(s, p + Len(c), t, 1) /\ p + Len(c) \in Nat /\ p + Len(c) >= 1
  <2>1. Len(c) >= 1
    OBVIOUS
  <2>2. AtPart(g, s, p, c, t)
    BY <2>1, ReadsAt
  <2> QED
    BY <2>2 DEF AtPart
<1>3. s[p + 1] = Backslash /\ s[(p + 1) + 1] = c[2] /\ c[2] # 117
  <2>1. 1 \in 1..Len(c) /\ 2 \in 1..Len(c) /\ (p + 1) + 1 = p + 2
    OBVIOUS
  <2>2. 117 \notin Simple
    BY DEF Simple, Quote, Backslash
  <2> QED
    BY <1>2, <2>1, <2>2
<1>4. g[(p + 1) + 2] = r
  <2>1. g[(p + 2) + 1] = r
    BY <1>2 DEF Reads
  <2>2. (p + 2) + 1 = (p + 1) + 2
    OBVIOUS
  <2> QED
    BY <2>1, <2>2
<1> QED
  BY <1>2, <1>3, <1>4 DEF RestFrom

\* What the four digits of a long escape are.
Hex4(c) == HexValue(SubSeq(c, 3, 6))

\* They are the same in the token.
LEMMA HexThere ==
    ASSUME NEW s \in Seq(Byte), NEW c \in Seq(Byte), Len(c) = 6, NEW q \in Nat, q + 6 <= Len(s),
           \A j \in 1..6 : s[q + j] = c[j]
    PROVE  HexAt(s, q + 3) = Hex4(c)
<1> DEFINE v == SubSeq(s, (q + 2) + 1, q + 6)  w == SubSeq(c, 2 + 1, 6)
<1>1. Len(s) \in Nat /\ q + 2 \in Nat /\ q + 6 \in Nat /\ q + 2 <= q + 6 /\ (q + 6) - (q + 2) = 4
  OBVIOUS
<1>2. v \in Seq(Byte) /\ Len(v) = 4 /\ \A n \in 1..4 : v[n] = s[(q + 2) + n]
  BY <1>1, SliceIs
<1>3. w \in Seq(Byte) /\ Len(w) = 4 /\ \A n \in 1..4 : w[n] = c[2 + n]
  <2>1. 2 \in Nat /\ 6 \in Nat /\ 2 <= 6 /\ 6 <= Len(c) /\ 6 - 2 = 4
    OBVIOUS
  <2> QED
    BY <2>1, SliceIs
<1>4. v = SubSeq(s, q + 3, (q + 3) + 3) /\ w = SubSeq(c, 3, 6)
  <2>1. (q + 2) + 1 = q + 3 /\ (q + 3) + 3 = q + 6 /\ 2 + 1 = 3
    OBVIOUS
  <2> QED
    BY <2>1
<1> HIDE DEF v, w
<1>5. ASSUME NEW n \in 1..4 PROVE v[n] = w[n]
  <2>1. 2 + n \in 1..6 /\ (q + 2) + n = q + (2 + n)
    OBVIOUS
  <2> QED
    BY <1>2, <1>3, <2>1
<1>6. v = w
  BY <1>2, <1>3, <1>5, SeqEqual
<1> QED
  BY <1>4, <1>6 DEF HexAt, Hex4

\* A long escape is read by its four digits.
LongAt(g, s, q, c) ==
    /\ g[q] = RestFrom(g, s, q) /\ ~(q >= Len(s)) /\ s[q] = Backslash /\ s[q + 1] = 117 /\ HexAt(s, q + 2) = Hex4(c)
LongBefore(g, s, p, c, t) ==
    /\ LongAt(g, s, p + 1, c) /\ Behind(s, p + 6, t, 1) /\ p + 6 >= 1 /\ p + 6 \in Nat
    /\ Len(s) = p + 6 + Len(t) + 1 /\ Len(t) \in Nat

\* What is in the token behind it is still there.
LEMMA LongHere ==
    ASSUME NEW s \in Seq(Byte), NEW p \in Nat, p >= 1, NEW c \in Seq(Byte), NEW t \in Seq(Byte), IsLong(c),
           Behind(s, p, c \o t, 1), NEW g, AllRest(g, s, 2)
    PROVE  LongBefore(g, s, p, c, t)
<1>0. Len(c) = 6 /\ c[1] = Backslash /\ c[2] = 117
  BY DEF IsLong
<1>2. /\ g[p + 1] = RestFrom(g, s, p + 1) /\ ~(p + 1 >= Len(s)) /\ (\A j \in 1..Len(c) : s[p + j] = c[j])
      /\ Behind(s, p + Len(c), t, 1) /\ p + Len(c) \in Nat /\ p + Len(c) >= 1
      /\ Len(s) = p + Len(c) + Len(t) + 1 /\ Len(t) \in Nat
  <2>1. Len(c) >= 1
    BY <1>0
  <2>2. AtPart(g, s, p, c, t)
    BY <2>1, ReadsAt
  <2> QED
    BY <2>2 DEF AtPart
<1>3. s[p + 1] = Backslash /\ s[(p + 1) + 1] = 117
  <2>1. 1 \in 1..Len(c) /\ 2 \in 1..Len(c) /\ (p + 1) + 1 = p + 2
    BY <1>0
  <2> QED
    BY <1>0, <1>2, <2>1
<1>4. HexAt(s, (p + 1) + 2) = Hex4(c)
  <2>1. p + 6 <= Len(s) /\ (p + 1) + 2 = p + 3
    BY <1>0, <1>2
  <2>a. \A j \in 1..6 : s[p + j] = c[j]
    BY <1>0, <1>2
  <2>b. Len(c) = 6 /\ p + 6 <= Len(s)
    BY <1>0, <2>1
  <2>2. HexAt(s, p + 3) = Hex4(c)
    BY <2>a, <2>b, HexThere
  <2> QED
    BY <2>1, <2>2
<1> QED
  BY <1>0, <1>2, <1>3, <1>4 DEF LongAt, LongBefore

\* One that is no surrogate is a character.
LEMMA ReadsLong ==
    ASSUME NEW t \in Seq(Byte), NEW r, Reads(t, r), NEW c \in Seq(Byte), IsLong(c),
           Hex4(c) \notin HighSurrogate, Hex4(c) \notin LowSurrogate
    PROVE  Reads(c \o t, Then(ToUnicode(Hex4(c), 0), r))
<1> SUFFICES ASSUME NEW s \in Seq(Byte), NEW p \in Nat, p >= 1, Behind(s, p, c \o t, 1), s[Len(s)] = Quote,
                    NEW g, AllRest(g, s, 2)
             PROVE  g[p + 1] = Then(ToUnicode(Hex4(c), 0), r)
  BY DEF Reads
<1> DEFINE q == p + 1
<1>0. LongBefore(g, s, p, c, t)
  BY LongHere
<1>1. LongAt(g, s, q, c) /\ Behind(s, p + 6, t, 1) /\ p + 6 >= 1 /\ p + 6 \in Nat
  BY <1>0 DEF LongBefore
<1>2. g[q + 6] = r
  <2>1. g[(p + 6) + 1] = r
    BY <1>1 DEF Reads
  <2>2. (p + 6) + 1 = q + 6
    OBVIOUS
  <2> QED
    BY <2>1, <2>2
<1> HIDE DEF q
<1>3. g[q] = Then(ToUnicode(Hex4(c), 0), r)
  BY <1>1, <1>2 DEF LongAt, RestFrom
<1> QED
  BY <1>3 DEF q

\* No surrogate is of both kinds.
LEMMA Surrogates ==
    /\ \A v \in LowSurrogate : v \in Nat /\ v \notin HighSurrogate
    /\ \A v \in HighSurrogate : v \in Nat /\ v \notin LowSurrogate
<1>1. ASSUME NEW v \in LowSurrogate PROVE v \in Nat /\ v \notin HighSurrogate
  BY DEF LowSurrogate, HighSurrogate
<1>2. ASSUME NEW v \in HighSurrogate PROVE v \in Nat /\ v \notin LowSurrogate
  BY DEF LowSurrogate, HighSurrogate
<1> QED
  BY <1>1, <1>2

\* A low surrogate that comes first is refused.
LEMMA ReadsLow ==
    ASSUME NEW t \in Seq(Byte), NEW c \in Seq(Byte), IsLong(c), Hex4(c) \in LowSurrogate
    PROVE  Reads(c \o t, Thrown)
<1> SUFFICES ASSUME NEW s \in Seq(Byte), NEW p \in Nat, p >= 1, Behind(s, p, c \o t, 1), s[Len(s)] = Quote,
                    NEW g, AllRest(g, s, 2)
             PROVE  g[p + 1] = Thrown
  BY DEF Reads
<1> DEFINE q == p + 1
<1>0. LongBefore(g, s, p, c, t)
  BY LongHere
<1>1. LongAt(g, s, q, c)
  BY <1>0 DEF LongBefore
<1>2. Hex4(c) \notin HighSurrogate
  BY Surrogates
<1> HIDE DEF q
<1>3. g[q] = Thrown
  BY <1>1, <1>2 DEF LongAt, RestFrom
<1> QED
  BY <1>3 DEF q

\* A high one and a low one are one character.
LEMMA ReadsPair ==
    ASSUME NEW t \in Seq(Byte), NEW r, Reads(t, r), NEW c \in Seq(Byte), IsLong(c), NEW d \in Seq(Byte), IsLong(d),
           Hex4(c) \in HighSurrogate
    PROVE  Reads(c \o (d \o t), Then(ToUnicode(Hex4(c), Hex4(d)), r))
<1> SUFFICES ASSUME NEW s \in Seq(Byte), NEW p \in Nat, p >= 1, Behind(s, p, c \o (d \o t), 1), s[Len(s)] = Quote,
                    NEW g, AllRest(g, s, 2)
             PROVE  g[p + 1] = Then(ToUnicode(Hex4(c), Hex4(d)), r)
  BY DEF Reads
<1> DEFINE q == p + 1
<1>0. d \o t \in Seq(Byte)
  BY Joined
<1>1. LongAt(g, s, q, c) /\ Behind(s, p + 6, d \o t, 1) /\ p + 6 >= 1 /\ p + 6 \in Nat
  <2>1. LongBefore(g, s, p, c, d \o t)
    BY <1>0, LongHere
  <2> QED
    BY <2>1 DEF LongBefore
<1>2. LongAt(g, s, (p + 6) + 1, d) /\ Behind(s, (p + 6) + 6, t, 1) /\ (p + 6) + 6 >= 1 /\ (p + 6) + 6 \in Nat
  <2>1. LongBefore(g, s, p + 6, d, t)
    BY <1>1, LongHere
  <2> QED
    BY <2>1 DEF LongBefore
<1>3. g[q + 12] = r
  <2>1. g[((p + 6) + 6) + 1] = r
    BY <1>2 DEF Reads
  <2>2. ((p + 6) + 6) + 1 = q + 12
    OBVIOUS
  <2> QED
    BY <2>1, <2>2
<1>4. LongAt(g, s, q + 6, d)
  <2>1. (p + 6) + 1 = q + 6
    OBVIOUS
  <2> QED
    BY <1>2, <2>1
<1>5. (q + 6) + 1 = q + 7 /\ (q + 6) + 2 = q + 8
  OBVIOUS
<1> HIDE DEF q
<1>6. s[q + 6] = Backslash /\ s[q + 7] = 117 /\ HexAt(s, q + 8) = Hex4(d)
  BY <1>4, <1>5 DEF LongAt
<1>7. g[q] = Then(ToUnicode(Hex4(c), Hex4(d)), r)
  BY <1>1, <1>3, <1>6 DEF LongAt, RestFrom
<1> QED
  BY <1>7 DEF q

\* A high one before another unit, or at the end, is refused.
LEMMA ReadsAlone ==
    ASSUME NEW c \in Seq(Byte), IsLong(c), Hex4(c) \in HighSurrogate
    PROVE  /\ Reads(c \o <<>>, Thrown)
           /\ \A d \in AllOfUnit : \A t \in Seq(Byte) : ~IsLong(d) => Reads(c \o (d \o t), Thrown)
<1>1. Reads(c \o <<>>, Thrown)
  <2> SUFFICES ASSUME NEW s \in Seq(Byte), NEW p \in Nat, p >= 1, Behind(s, p, c \o <<>>, 1), s[Len(s)] = Quote,
                      NEW g, AllRest(g, s, 2)
               PROVE  g[p + 1] = Thrown
    BY DEF Reads
  <2> DEFINE q == p + 1  e == <<>>
  <2>1. e \in Seq(Byte) /\ Len(e) = 0
    OBVIOUS
  <2>2. Behind(s, p, c \o e, 1)
    OBVIOUS
  <2> HIDE DEF e
  <2>a. LongBefore(g, s, p, c, e)
    BY <2>1, <2>2, LongHere
  <2>3. LongAt(g, s, q, c) /\ Len(s) = p + 6 + Len(e) + 1
    BY <2>a DEF LongBefore
  <2>4. q + 6 = Len(s)
    BY <2>1, <2>3
  <2> HIDE DEF q
  <2>5. s[q + 6] # Backslash
    BY <2>4 DEF Quote, Backslash
  <2>6. g[q] = Thrown
    BY <2>3, <2>5 DEF LongAt, RestFrom
  <2> QED
    BY <2>6 DEF q
<1>2. ASSUME NEW d \in AllOfUnit, NEW t \in Seq(Byte), ~IsLong(d) PROVE Reads(c \o (d \o t), Thrown)
  <2> SUFFICES ASSUME NEW s \in Seq(Byte), NEW p \in Nat, p >= 1, Behind(s, p, c \o (d \o t), 1), s[Len(s)] = Quote,
                      NEW g, AllRest(g, s, 2)
               PROVE  g[p + 1] = Thrown
    BY DEF Reads
  <2> DEFINE q == p + 1
  <2>0. d \in Seq(Byte) /\ Len(d) \in 1..6 /\ d \o t \in Seq(Byte)
    <3>1. d \in Seq(Byte) /\ Len(d) \in 1..6
      BY OneLength DEF Kinds
    <3> QED
      BY <3>1, Joined
  <2>a. LongBefore(g, s, p, c, d \o t)
    BY <2>0, LongHere
  <2>1. LongAt(g, s, q, c) /\ Behind(s, p + 6, d \o t, 1) /\ p + 6 \in Nat
    BY <2>a DEF LongBefore
  <2>2. \A j \in 1..Len(d) : s[(p + 6) + j] = d[j]
    <3>1. 1 \in Nat
      OBVIOUS
    <3> QED
      BY <2>0, <2>1, <3>1, BehindMore
  <2>3. d[1] # Backslash \/ (Len(d) = 2 /\ d[2] # 117)
    <3>1. 117 \notin Simple
      BY DEF Simple, Quote, Backslash
    <3>2. IsPlain(d) => d[1] # Backslash
      BY DEF IsPlain
    <3>3. IsShort(d) => Len(d) = 2 /\ d[2] \in Simple
      BY ShortEscapes DEF IsShort
    <3> QED
      BY <1>2, <3>1, <3>2, <3>3 DEF AllOfUnit, IsUnit
  <2>4. (p + 6) + 1 = q + 6 /\ (p + 6) + 2 = q + 7
    OBVIOUS
  <2> HIDE DEF q
  <2>5. s[q + 6] # Backslash \/ s[q + 7] # 117
    <3>1. 1 \in 1..Len(d) /\ (Len(d) = 2 => 2 \in 1..Len(d))
      <4>1. \A n \in 1..6 : 1 \in 1..n /\ (n = 2 => 2 \in 1..n)
        OBVIOUS
      <4> QED
        BY <2>0, <4>1
    <3>2. s[(p + 6) + 1] = d[1] /\ (Len(d) = 2 => s[(p + 6) + 2] = d[2])
      BY <2>2, <3>1
    <3> QED
      BY <2>3, <2>4, <3>2
  <2>6. g[q] = Thrown
    BY <2>1, <2>5 DEF LongAt, RestFrom
  <2> QED
    BY <2>6 DEF q
<1> QED
  BY <1>1, <1>2

\* The code points from a position on, in which two surrogates are one.
NoPairs == [ok |-> FALSE, list |-> <<>>]
PairsOf(list) == [ok |-> TRUE, list |-> list]
InFront(p, rest) == IF rest.ok THEN [ok |-> TRUE, list |-> <<p>> \o rest.list] ELSE NoPairs
Both(x, y) == 65536 + (x % 1024) * 1024 + (y % 1024)
PairsFrom(h, pts, i) ==
    IF i > Len(pts) THEN [ok |-> TRUE, list |-> <<>>]
    ELSE IF pts[i] \in LowSurrogate THEN NoPairs
    ELSE IF pts[i] \notin HighSurrogate THEN InFront(pts[i], h[i + 1])
    ELSE IF i = Len(pts) \/ pts[i + 1] \notin LowSurrogate THEN NoPairs
    ELSE InFront(Both(pts[i], pts[i + 1]), h[i + 2])
AllPairs(h, pts, k) == h = [i \in k..(Len(pts) + 1) |-> PairsFrom(h, pts, i)]

\* They depend on the later positions only.
LEMMA PairsLater ==
    ASSUME NEW f, NEW g, NEW s, Len(s) \in Nat, NEW i \in Nat, i <= Len(s) + 1,
           \A j \in (i + 1)..(Len(s) + 1) : f[j] = g[j]
    PROVE  PairsFrom(f, s, i) = PairsFrom(g, s, i)
<1>1. CASE i > Len(s)
  BY <1>1 DEF PairsFrom
<1>2. CASE i = Len(s)
  <2>1. f[i + 1] = g[i + 1]
    BY <1>2
  <2> QED
    BY <1>2, <2>1 DEF PairsFrom
<1>3. CASE i < Len(s)
  <2>1. i + 1 \in (i + 1)..(Len(s) + 1) /\ i + 2 \in (i + 1)..(Len(s) + 1)
    BY <1>3
  <2>2. f[i + 1] = g[i + 1] /\ f[i + 2] = g[i + 2]
    BY <2>1
  <2> QED
    BY <2>2 DEF PairsFrom
<1> QED
  BY <1>1, <1>2, <1>3

\* There are such points for every sequence.
LEMMA PairsExist == ASSUME NEW s, Len(s) \in Nat PROVE \E g : AllPairs(g, s, 1)
<1> DEFINE n == Len(s) + 1  N == {k \in Nat : k <= n - 1 => \E f : AllPairs(f, s, n - k)}
<1>0. n \in Nat /\ n - 1 \in Nat /\ n - (n - 1) = 1 /\ n > Len(s)
  OBVIOUS
<1>1. 0 \in N
  <2> DEFINE f == [i \in n..n |-> [ok |-> TRUE, list |-> <<>>]]
  <2>1. \A i \in n..n : PairsFrom(f, s, i) = [ok |-> TRUE, list |-> <<>>]
    <3>1. \A i \in n..n : i > Len(s)
      BY <1>0
    <3> QED
      BY <3>1 DEF PairsFrom
  <2>2. f = [i \in n..n |-> PairsFrom(f, s, i)]
    BY <2>1
  <2>3. n - 0 = n
    BY <1>0
  <2> QED
    BY <2>2, <2>3 DEF AllPairs
<1>2. ASSUME NEW k \in Nat, k \in N PROVE k + 1 \in N
  <2> SUFFICES ASSUME k + 1 <= n - 1 PROVE \E f : AllPairs(f, s, n - (k + 1))
    OBVIOUS
  <2> DEFINE b == n - k  a == n - (k + 1)
  <2>1. a \in Nat /\ b \in Nat /\ b = a + 1 /\ a <= n /\ k <= n - 1
    BY <1>0
  <2>2. PICK f : AllPairs(f, s, b)
    BY <1>2, <2>1
  <2> DEFINE g == [i \in a..n |-> IF i = a THEN PairsFrom(f, s, a) ELSE f[i]]
  <2> HIDE DEF a, b
  <2>3. \A i \in b..n : g[i] = f[i] /\ i # a /\ i \in a..n
    BY <1>0, <2>1
  <2>4. g[a] = PairsFrom(f, s, a)
    BY <1>0, <2>1
  <2>5. ASSUME NEW i \in a..n PROVE g[i] = PairsFrom(g, s, i)
    <3> HIDE DEF g
    <3>1. i \in Nat /\ i <= n /\ \A j \in (i + 1)..n : j \in b..n
      BY <1>0, <2>1
    <3>2. PairsFrom(f, s, i) = PairsFrom(g, s, i)
      BY <2>3, <3>1, PairsLater
    <3>3. CASE i = a
      BY <2>4, <3>2, <3>3
    <3>4. CASE i # a
      <4>1. i \in b..n
        BY <1>0, <2>1, <3>4
      <4>2. f[i] = PairsFrom(f, s, i)
        BY <2>2, <4>1 DEF AllPairs
      <4> QED
        BY <2>3, <3>2, <4>1, <4>2
    <3> QED
      BY <3>3, <3>4
  <2>6. g = [i \in a..n |-> g[i]]
    OBVIOUS
  <2> HIDE DEF g
  <2>7. AllPairs(g, s, a)
    BY <2>5, <2>6 DEF AllPairs
  <2> QED
    BY <2>7 DEF a
<1>3. n - 1 \in N
  <2>1. Nat \subseteq N
    <3> HIDE DEF N
    <3> QED
      BY <1>1, <1>2, CountingUp
  <2> QED
    BY <1>0, <2>1
<1>4. n - 1 <= n - 1
  BY <1>0
<1> QED
  BY <1>0, <1>3, <1>4

\* What Pairs gives: the points from the first position on.
LEMMA PairsAre == ASSUME NEW s, Len(s) \in Nat
                  PROVE  \E g : AllPairs(g, s, 1) /\ Pairs(s) = g[1]
<1> DEFINE g == CHOOSE g : AllPairs(g, s, 1)
<1>1. AllPairs(g, s, 1)
  BY PairsExist
<1>2. Pairs(s) = g[1]
  BY DEF Pairs, AllPairs, PairsFrom, InFront, NoPairs, Both
<1> HIDE DEF g
<1> QED
  BY <1>1, <1>2

\* In every sequence that ends with pts, Pairs makes P of pts.
Joins(pts, P) ==
    \A z \in Seq(Nat) : \A p \in Nat : Behind(z, p, pts, 0) => \A h : AllPairs(h, z, 1) => h[p + 1] = P

\* No points are none.
LEMMA JoinsNone == Joins(<<>>, PairsOf(<<>>))
<1> SUFFICES ASSUME NEW z \in Seq(Nat), NEW p \in Nat, Behind(z, p, <<>>, 0), NEW h, AllPairs(h, z, 1)
             PROVE  h[p + 1] = PairsOf(<<>>)
  BY DEF Joins
<1>1. Len(z) = p
  <2>1. Len(z) = p + Len(<<>>) + 0 /\ Len(<<>>) = 0
    BY DEF Behind
  <2> QED
    BY <2>1
<1>2. p + 1 \in 1..(Len(z) + 1) /\ p + 1 > Len(z)
  BY <1>1
<1> QED
  BY <1>2 DEF AllPairs, PairsFrom, PairsOf

\* Where Pairs is at some point.
AtPoint(h, z, p, x, pts) ==
    /\ h[p + 1] = PairsFrom(h, z, p + 1) /\ z[p + 1] = x /\ ~(p + 1 > Len(z))
    /\ Behind(z, p + 1, pts, 0) /\ p + 1 \in Nat /\ Len(z) = p + 1 + Len(pts) /\ Len(pts) \in Nat

\* Pairs looks at it, and at what is behind it.
LEMMA JoinsAt ==
    ASSUME NEW z \in Seq(Nat), NEW p \in Nat, NEW x \in Nat, NEW pts \in Seq(Nat), Behind(z, p, <<x>> \o pts, 0),
           NEW h, AllPairs(h, z, 1)
    PROVE  AtPoint(h, z, p, x, pts)
<1> DEFINE c == <<x>>
<1>1. c \in Seq(Nat) /\ Len(c) = 1 /\ c[1] = x
  OBVIOUS
<1>2. Behind(z, p, c \o pts, 0) /\ 0 \in Nat
  OBVIOUS
<1> HIDE DEF c
<1>3. /\ Behind(z, p + Len(c), pts, 0) /\ (\A j \in 1..Len(c) : z[p + j] = c[j])
      /\ Len(z) = p + Len(c) + Len(pts) + 0 /\ Len(pts) \in Nat
  <2> DEFINE S == Nat
  <2>1. z \in Seq(S) /\ c \in Seq(S) /\ pts \in Seq(S) /\ p \in Nat /\ 0 \in Nat /\ Behind(z, p, c \o pts, 0)
    BY <1>1, <1>2
  <2> HIDE DEF S
  <2> QED
    BY <2>1, BehindMore
<1>4. z[p + 1] = x
  <2>1. 1 \in 1..Len(c)
    BY <1>1
  <2> QED
    BY <1>1, <1>3, <2>1
<1>5. Len(z) = p + 1 + Len(pts) /\ p + 1 \in 1..(Len(z) + 1) /\ ~(p + 1 > Len(z)) /\ p + 1 \in Nat
  BY <1>1, <1>3
<1>6. h[p + 1] = PairsFrom(h, z, p + 1)
  BY <1>5 DEF AllPairs
<1>7. Behind(z, p + 1, pts, 0)
  BY <1>1, <1>3
<1> QED
  BY <1>3, <1>4, <1>5, <1>6, <1>7 DEF AtPoint

\* One that is no surrogate stays.
LEMMA JoinsOne ==
    ASSUME NEW pts \in Seq(Nat), NEW P, Joins(pts, P), NEW x \in Nat, x \notin HighSurrogate, x \notin LowSurrogate
    PROVE  Joins(<<x>> \o pts, InFront(x, P))
<1> SUFFICES ASSUME NEW z \in Seq(Nat), NEW p \in Nat, Behind(z, p, <<x>> \o pts, 0), NEW h, AllPairs(h, z, 1)
             PROVE  h[p + 1] = InFront(x, P)
  BY DEF Joins
<1>0. AtPoint(h, z, p, x, pts)
  BY JoinsAt
<1>1. /\ h[p + 1] = PairsFrom(h, z, p + 1) /\ z[p + 1] = x /\ ~(p + 1 > Len(z))
      /\ Behind(z, p + 1, pts, 0) /\ p + 1 \in Nat
  BY <1>0 DEF AtPoint
<1>2. h[(p + 1) + 1] = P
  BY <1>1 DEF Joins
<1> QED
  BY <1>1, <1>2 DEF PairsFrom

\* A low surrogate that comes first has no partner.
LEMMA JoinsLow ==
    ASSUME NEW pts \in Seq(Nat), NEW x \in LowSurrogate
    PROVE  Joins(<<x>> \o pts, NoPairs)
<1> SUFFICES ASSUME NEW z \in Seq(Nat), NEW p \in Nat, Behind(z, p, <<x>> \o pts, 0), NEW h, AllPairs(h, z, 1)
             PROVE  h[p + 1] = NoPairs
  BY DEF Joins
<1>0. x \in Nat
  BY DEF LowSurrogate
<1>a. AtPoint(h, z, p, x, pts)
  BY <1>0, JoinsAt
<1>1. h[p + 1] = PairsFrom(h, z, p + 1) /\ z[p + 1] = x /\ ~(p + 1 > Len(z))
  BY <1>a DEF AtPoint
<1> QED
  BY <1>1 DEF PairsFrom

\* A high and a low one are one point, and a high one that no low one follows has
\* no partner.
LEMMA JoinsTwo ==
    ASSUME NEW pts \in Seq(Nat), NEW P, NEW x \in HighSurrogate, NEW y \in Nat
    PROVE  /\ y \in LowSurrogate /\ Joins(pts, P) => Joins(<<x>> \o (<<y>> \o pts), InFront(Both(x, y), P))
           /\ y \notin LowSurrogate => Joins(<<x>> \o (<<y>> \o pts), NoPairs)
<1>0. x \in Nat /\ x \notin LowSurrogate /\ <<y>> \o pts \in Seq(Nat)
  <2>1. x \in Nat /\ x \notin LowSurrogate
    BY DEF LowSurrogate, HighSurrogate
  <2>2. <<y>> \in Seq(Nat)
    OBVIOUS
  <2> QED
    BY <2>1, <2>2, Joined
<1>1. ASSUME NEW z \in Seq(Nat), NEW p \in Nat, Behind(z, p, <<x>> \o (<<y>> \o pts), 0), NEW h, AllPairs(h, z, 1)
      PROVE  /\ h[p + 1] = IF y \notin LowSurrogate THEN NoPairs ELSE InFront(Both(x, y), h[(p + 1) + 2])
             /\ Behind(z, (p + 1) + 1, pts, 0) /\ (p + 1) + 1 \in Nat /\ ((p + 1) + 1) + 1 = (p + 1) + 2
  <2>1. /\ h[p + 1] = PairsFrom(h, z, p + 1) /\ z[p + 1] = x /\ ~(p + 1 > Len(z))
        /\ Behind(z, p + 1, <<y>> \o pts, 0) /\ p + 1 \in Nat
    <3>1. AtPoint(h, z, p, x, <<y>> \o pts)
      BY <1>0, <1>1, JoinsAt
    <3> QED
      BY <3>1 DEF AtPoint
  <2>2. /\ z[(p + 1) + 1] = y /\ Behind(z, (p + 1) + 1, pts, 0) /\ (p + 1) + 1 \in Nat
        /\ Len(z) = (p + 1) + 1 + Len(pts) /\ Len(pts) \in Nat
    <3>1. AtPoint(h, z, p + 1, y, pts)
      BY <1>1, <2>1, JoinsAt
    <3> QED
      BY <3>1 DEF AtPoint
  <2>3. p + 1 # Len(z) /\ ((p + 1) + 1) + 1 = (p + 1) + 2
    BY <2>2
  <2>4. h[p + 1] = IF y \notin LowSurrogate THEN NoPairs ELSE InFront(Both(x, y), h[(p + 1) + 2])
    BY <1>0, <2>1, <2>2, <2>3 DEF PairsFrom
  <2> QED
    BY <2>2, <2>3, <2>4
<1>2. ASSUME y \notin LowSurrogate PROVE Joins(<<x>> \o (<<y>> \o pts), NoPairs)
  BY <1>1, <1>2 DEF Joins
<1>3. ASSUME y \in LowSurrogate, Joins(pts, P) PROVE Joins(<<x>> \o (<<y>> \o pts), InFront(Both(x, y), P))
  <2> SUFFICES ASSUME NEW z \in Seq(Nat), NEW p \in Nat, Behind(z, p, <<x>> \o (<<y>> \o pts), 0), NEW h, AllPairs(h, z, 1)
               PROVE  h[p + 1] = InFront(Both(x, y), P)
    BY DEF Joins
  <2>1. /\ h[p + 1] = InFront(Both(x, y), h[(p + 1) + 2])
        /\ Behind(z, (p + 1) + 1, pts, 0) /\ (p + 1) + 1 \in Nat /\ ((p + 1) + 1) + 1 = (p + 1) + 2
    BY <1>1, <1>3
  <2>2. h[((p + 1) + 1) + 1] = P
    BY <1>3, <2>1 DEF Joins
  <2> QED
    BY <2>1, <2>2
<1> QED
  BY <1>2, <1>3

\* Neither has one at the end.
LEMMA JoinsLast == ASSUME NEW x \in HighSurrogate PROVE Joins(<<x>> \o <<>>, NoPairs)
<1> SUFFICES ASSUME NEW z \in Seq(Nat), NEW p \in Nat, Behind(z, p, <<x>> \o <<>>, 0), NEW h, AllPairs(h, z, 1)
             PROVE  h[p + 1] = NoPairs
  BY DEF Joins
<1> DEFINE e == <<>>
<1>0. x \in Nat /\ x \notin LowSurrogate
  BY DEF LowSurrogate, HighSurrogate
<1>1. e \in Seq(Nat) /\ Len(e) = 0 /\ Behind(z, p, <<x>> \o e, 0)
  OBVIOUS
<1> HIDE DEF e
<1>2. h[p + 1] = PairsFrom(h, z, p + 1) /\ z[p + 1] = x /\ ~(p + 1 > Len(z)) /\ Len(z) = p + 1 + Len(e)
  <2>1. AtPoint(h, z, p, x, e)
    BY <1>0, <1>1, JoinsAt
  <2> QED
    BY <2>1 DEF AtPoint
<1>3. p + 1 = Len(z)
  BY <1>1, <1>2
<1> QED
  BY <1>0, <1>2, <1>3 DEF PairsFrom

\* The value of four hexadecimal digits.
LEMMA HexValueIs ==
    ASSUME NEW w, Len(w) = 4
    PROVE  HexValue(w) = 16 * (16 * (16 * (16 * 0 + HexToInt(w[1])) + HexToInt(w[2])) + HexToInt(w[3])) + HexToInt(w[4])
<1> DEFINE p1 == 16 * 0 + HexToInt(w[1])  p2 == 16 * p1 + HexToInt(w[2])
           p3 == 16 * p2 + HexToInt(w[3])  p4 == 16 * p3 + HexToInt(w[4])
           P(f) == f = [i \in 0..4 |-> IF i = 0 THEN 0 ELSE 16 * f[i - 1] + HexToInt(w[i])]
           g == [i \in 0..4 |-> IF i = 0 THEN 0 ELSE IF i = 1 THEN p1 ELSE IF i = 2 THEN p2 ELSE IF i = 3 THEN p3 ELSE p4]
           f == CHOOSE h : P(h)
<1>1. HexValue(w) = f[4]
  BY DEF HexValue
<1>2. /\ p1 = 16 * 0 + HexToInt(w[1]) /\ p2 = 16 * p1 + HexToInt(w[2]) /\ p3 = 16 * p2 + HexToInt(w[3])
      /\ p4 = 16 * p3 + HexToInt(w[4])
  OBVIOUS
<1>3. p4 = 16 * (16 * (16 * (16 * 0 + HexToInt(w[1])) + HexToInt(w[2])) + HexToInt(w[3])) + HexToInt(w[4])
  OBVIOUS
<1> HIDE DEF p1, p2, p3, p4
<1>4. g[0] = 0 /\ g[1] = p1 /\ g[2] = p2 /\ g[3] = p3 /\ g[4] = p4
  OBVIOUS
<1>5. ASSUME NEW i \in 0..4 PROVE g[i] = IF i = 0 THEN 0 ELSE 16 * g[i - 1] + HexToInt(w[i])
  <2> HIDE DEF g
  <2>1. i = 0 \/ i = 1 \/ i = 2 \/ i = 3 \/ i = 4
    OBVIOUS
  <2>2. 1 - 1 = 0 /\ 2 - 1 = 1 /\ 3 - 1 = 2 /\ 4 - 1 = 3
    OBVIOUS
  <2>3. CASE i = 0
    BY <1>4, <2>3
  <2>4. CASE i = 1
    BY <1>2, <1>4, <2>2, <2>4
  <2>5. CASE i = 2
    BY <1>2, <1>4, <2>2, <2>5
  <2>6. CASE i = 3
    BY <1>2, <1>4, <2>2, <2>6
  <2>7. CASE i = 4
    BY <1>2, <1>4, <2>2, <2>7
  <2> QED
    BY <2>1, <2>3, <2>4, <2>5, <2>6, <2>7
<1>6. P(g)
  <2>1. g = [i \in 0..4 |-> g[i]]
    OBVIOUS
  <2> HIDE DEF g
  <2> QED
    BY <1>5, <2>1
<1>7. P(f)
  <2> HIDE DEF P, g
  <2> QED
    BY <1>6
<1>8. f[0] = 0 /\ f[1] = p1 /\ f[2] = p2 /\ f[3] = p3 /\ f[4] = p4
  <2> HIDE DEF f
  <2>1. \A i \in 0..4 : f[i] = IF i = 0 THEN 0 ELSE 16 * f[i - 1] + HexToInt(w[i])
    BY <1>7
  <2> HIDE DEF P
  <2>2. 1 - 1 = 0 /\ 2 - 1 = 1 /\ 3 - 1 = 2 /\ 4 - 1 = 3
    OBVIOUS
  <2>3. f[0] = 0
    BY <2>1
  <2>4. f[1] = p1
    BY <1>2, <2>1, <2>2, <2>3
  <2>5. f[2] = p2
    BY <1>2, <2>1, <2>2, <2>4
  <2>6. f[3] = p3
    BY <1>2, <2>1, <2>2, <2>5
  <2>7. f[4] = p4
    BY <1>2, <2>1, <2>2, <2>6
  <2> QED
    BY <2>3, <2>4, <2>5, <2>6, <2>7
<1> QED
  BY <1>1, <1>3, <1>8

\* The four digits of a long escape.
LEMMA Hex4Is ==
    ASSUME NEW c \in Seq(Byte), Len(c) = 6
    PROVE  Hex4(c) = 16 * (16 * (16 * (16 * 0 + HexToInt(c[3])) + HexToInt(c[4])) + HexToInt(c[5])) + HexToInt(c[6])
<1> DEFINE w == SubSeq(c, 2 + 1, 6)
<1>1. w \in Seq(Byte) /\ Len(w) = 4 /\ \A n \in 1..4 : w[n] = c[2 + n]
  <2> DEFINE m == 2  e == 6
  <2>1. m \in Nat /\ e \in Nat /\ m <= e /\ e <= Len(c) /\ e - m = 4
    OBVIOUS
  <2> HIDE DEF m, e
  <2>2. LET v == SubSeq(c, m + 1, e) IN v \in Seq(Byte) /\ Len(v) = 4 /\ \A n \in 1..4 : v[n] = c[m + n]
    BY <2>1, SliceIs
  <2> QED
    BY <2>2 DEF m, e
<1>2. w = SubSeq(c, 3, 6)
  <2>1. 2 + 1 = 3
    OBVIOUS
  <2> QED
    BY <2>1
<1> HIDE DEF w
<1>3. w[1] = c[3] /\ w[2] = c[4] /\ w[3] = c[5] /\ w[4] = c[6]
  <2>1. 1 \in 1..4 /\ 2 \in 1..4 /\ 3 \in 1..4 /\ 4 \in 1..4 /\ 2 + 1 = 3 /\ 2 + 2 = 4 /\ 2 + 3 = 5 /\ 2 + 4 = 6
    OBVIOUS
  <2> QED
    BY <1>1, <2>1
<1> QED
  BY <1>1, <1>2, <1>3, HexValueIs DEF Hex4

\* They fit in 16 bits.
LEMMA Hex4In == ASSUME NEW c \in Seq(Byte), IsLong(c) PROVE Hex4(c) \in Nat /\ Hex4(c) <= 65535
<1>1. \A d \in HexDigit : HexToInt(d) \in 0..15
  BY SMT DEF HexDigit, Digit, HexToInt
<1>2. c[3] \in HexDigit /\ c[4] \in HexDigit /\ c[5] \in HexDigit /\ c[6] \in HexDigit /\ Len(c) = 6
  BY DEF IsLong
<1>3. PICK a \in 0..15, b \in 0..15, d \in 0..15, e \in 0..15 :
          a = HexToInt(c[3]) /\ b = HexToInt(c[4]) /\ d = HexToInt(c[5]) /\ e = HexToInt(c[6])
  BY <1>1, <1>2
<1>4. Hex4(c) = 16 * (16 * (16 * (16 * 0 + a) + b) + d) + e
  BY <1>2, <1>3, Hex4Is
<1> QED
  BY SMT, <1>4

\* The UTF-8 of a code point.
Encoded(p) ==
    IF p < 128 THEN <<p>>
    ELSE IF p <= 2047 THEN <<192 + (p \div 64), 128 + (p % 64)>>
    ELSE IF p <= 65535 THEN <<224 + (p \div 4096), 128 + ((p \div 64) % 64), 128 + (p % 64)>>
    ELSE <<240 + (p \div 262144), 128 + ((p \div 4096) % 64), 128 + ((p \div 64) % 64), 128 + (p % 64)>>
Points == {p \in Nat : p <= 1114111 /\ ~(p >= 55296 /\ p <= 57343)}

\* It is a character of that code point.
LEMMA EncodedIs ==
    ASSUME NEW p \in Points
    PROVE  Encoded(p) \in AllOfCharacter /\ Point(Encoded(p)) = p
<1> DEFINE u == Encoded(p)  e == p % 64  q == p \div 64  d == q % 64  r == q \div 64  b == r % 64  a == r \div 64
<1>0. p \in Nat /\ p <= 1114111 /\ ~(p >= 55296 /\ p <= 57343)
  BY DEF Points
<1>1. /\ e \in 0..63 /\ q \in Nat /\ d \in 0..63 /\ r \in Nat /\ b \in 0..63 /\ a \in Nat
      /\ p = 64 * q + e /\ q = 64 * r + d /\ r = 64 * a + b
  BY SMT, <1>0
<1>2. p \div 4096 = r /\ (p \div 4096) % 64 = b /\ p \div 262144 = a
  BY SMT, <1>0
<1>3. u = IF p < 128 THEN <<p>>
          ELSE IF p <= 2047 THEN <<192 + q, 128 + e>>
          ELSE IF p <= 65535 THEN <<224 + r, 128 + d, 128 + e>>
          ELSE <<240 + a, 128 + b, 128 + d, 128 + e>>
  BY SMT, <1>2 DEF Encoded
<1> HIDE DEF u, e, q, d, r, b, a
<1>4. CASE p < 128
  <2>1. u = <<p>> /\ p \in Byte
    BY SMT, <1>0, <1>3, <1>4 DEF Byte
  <2>2. u \in Seq(Byte) /\ Len(u) = 1 /\ u[1] = p
    BY SMT, <2>1
  <2>a. u[1] \in 0..127
    BY SMT, <1>0, <1>4, <2>2
  <2>3. CharAt(u, 0, 1)
    <3>1. 0 + 1 = 1
      BY SMT
    <3> QED
      BY <2>a, <3>1 DEF CharAt
  <2>4. IsCharacter(u)
    <3>1. Len(u) \in 1..4
      BY SMT, <2>2
    <3>2. CharAt(u, 0, Len(u))
      BY <2>2, <2>3
    <3> QED
      BY <2>2, <3>1, <3>2, CharacterIs
  <2>5. Point(u) = u[1] - 0
    BY SMT, <2>2, PointIs
  <2> QED
    BY SMT, <1>0, <2>2, <2>4, <2>5 DEF AllOfCharacter, u
<1>5. CASE p >= 128 /\ p <= 2047
  <2>0. u = <<192 + q, 128 + e>>
    BY SMT, <1>0, <1>3, <1>5
  <2>1. 192 + q \in 194..223 /\ 128 + e \in 128..191 /\ 192 + q \in Byte /\ 128 + e \in Byte
    BY SMT, <1>0, <1>1, <1>5 DEF Byte
  <2>2. u \in Seq(Byte) /\ Len(u) = 2 /\ u[1] = 192 + q /\ u[2] = 128 + e
    BY SMT, <2>0, <2>1
  <2>3. CharAt(u, 0, 2)
    BY SMT, <2>1, <2>2 DEF CharAt, Tail8
  <2>4. IsCharacter(u)
    <3>1. Len(u) \in 1..4
      BY SMT, <2>2
    <3>2. CharAt(u, 0, Len(u))
      BY <2>2, <2>3
    <3> QED
      BY <2>2, <3>1, <3>2, CharacterIs
  <2>5. Point(u) = 64 * (u[1] - 192) + (u[2] - 128)
    BY SMT, <2>2, PointIs
  <2>6. Point(u) = p
    BY SMT, <1>0, <1>1, <2>2, <2>5
  <2> QED
    BY SMT, <2>2, <2>4, <2>6 DEF AllOfCharacter, u
<1>6. CASE p > 2047 /\ p <= 65535
  <2>0. u = <<224 + r, 128 + d, 128 + e>>
    BY SMT, <1>0, <1>3, <1>6
  <2>1. /\ 224 + r \in 224..239 /\ 128 + d \in 128..191 /\ 128 + e \in 128..191
        /\ 224 + r \in Byte /\ 128 + d \in Byte /\ 128 + e \in Byte
    BY SMT, <1>0, <1>1, <1>6 DEF Byte
  <2>a. (r = 0 => d >= 32) /\ (r = 13 => d < 32)
    BY SMT, <1>0, <1>1, <1>6
  <2>2. u \in Seq(Byte) /\ Len(u) = 3 /\ u[1] = 224 + r /\ u[2] = 128 + d /\ u[3] = 128 + e
    BY SMT, <2>0, <2>1
  <2>b. Lead3(224 + r, 128 + d)
    BY SMT, <1>1, <2>1, <2>a DEF Lead3, Tail8
  <2>3. CharAt(u, 0, 3)
    BY SMT, <2>1, <2>2, <2>b DEF CharAt, Tail8
  <2>4. IsCharacter(u)
    <3>1. Len(u) \in 1..4
      BY SMT, <2>2
    <3>2. CharAt(u, 0, Len(u))
      BY <2>2, <2>3
    <3> QED
      BY <2>2, <3>1, <3>2, CharacterIs
  <2>5. Point(u) = 64 * (64 * (u[1] - 224) + (u[2] - 128)) + (u[3] - 128)
    BY SMT, <2>2, PointIs
  <2>6. Point(u) = p
    BY SMT, <1>0, <1>1, <2>2, <2>5
  <2> QED
    BY SMT, <2>2, <2>4, <2>6 DEF AllOfCharacter, u
<1>7. CASE p > 65535
  <2>0. u = <<240 + a, 128 + b, 128 + d, 128 + e>>
    BY SMT, <1>0, <1>3, <1>7
  <2>1. /\ 240 + a \in 240..244 /\ 128 + b \in 128..191 /\ 128 + d \in 128..191 /\ 128 + e \in 128..191
        /\ 240 + a \in Byte /\ 128 + b \in Byte /\ 128 + d \in Byte /\ 128 + e \in Byte
    BY SMT, <1>0, <1>1, <1>7 DEF Byte
  <2>a. (a = 0 => b >= 16) /\ (a = 4 => b < 16)
    BY SMT, <1>0, <1>1, <1>7
  <2>2. u \in Seq(Byte) /\ Len(u) = 4 /\ u[1] = 240 + a /\ u[2] = 128 + b /\ u[3] = 128 + d /\ u[4] = 128 + e
    BY SMT, <2>0, <2>1
  <2>b. Lead4(240 + a, 128 + b)
    BY SMT, <1>1, <2>1, <2>a DEF Lead4, Tail8
  <2>3. CharAt(u, 0, 4)
    BY SMT, <2>1, <2>2, <2>b DEF CharAt, Tail8
  <2>4. IsCharacter(u)
    <3>1. Len(u) \in 1..4
      BY SMT, <2>2
    <3>2. CharAt(u, 0, Len(u))
      BY <2>2, <2>3
    <3> QED
      BY <2>2, <3>1, <3>2, CharacterIs
  <2>5. Point(u) = 64 * (64 * (64 * (u[1] - 240) + (u[2] - 128)) + (u[3] - 128)) + (u[4] - 128)
    BY SMT, <2>2, PointIs
  <2>6. Point(u) = p
    BY SMT, <1>0, <1>1, <2>2, <2>5
  <2> QED
    BY SMT, <2>2, <2>4, <2>6 DEF AllOfCharacter, u
<1> QED
  BY SMT, <1>0, <1>4, <1>5, <1>6, <1>7

\* to_unicode of one escape that is no surrogate, and of two.
LEMMA ToUnicodeIs ==
    /\ \A v \in Nat : v <= 65535 /\ v \notin HighSurrogate /\ v \notin LowSurrogate =>
          v \in Points /\ \A x : ToUnicode(v, x) = Bytes(Encoded(v))
    /\ \A v \in HighSurrogate : \A x :
          /\ x \in LowSurrogate => Both(v, x) \in Points /\ ToUnicode(v, x) = Bytes(Encoded(Both(v, x)))
          /\ x \notin LowSurrogate => ToUnicode(v, x) = Thrown
<1>0. \A c \in Nat : c \div 1 = c
  BY SMT
<1>1. ASSUME NEW v \in Nat, v <= 65535, v \notin HighSurrogate, v \notin LowSurrogate, NEW x
      PROVE  v \in Points /\ ToUnicode(v, x) = Bytes(Encoded(v))
  <2>1. v \in Points
    <3>1. ~(v >= 55296 /\ v <= 57343)
      BY SMT, <1>1 DEF HighSurrogate, LowSurrogate
    <3>2. v <= 1114111
      BY SMT, <1>1
    <3> QED
      BY <3>1, <3>2 DEF Points
  <2>2. v \div 1 = v
    BY <1>0
  <2>3. ToUnicode(v, x) = IF v < 128 THEN Bytes(<<v>>)
          ELSE IF v <= 2047 THEN Bytes(<<192 + (v \div 64), 128 + ((v \div 1) % 64)>>)
          ELSE IF v <= 65535 THEN Bytes(<<224 + (v \div 4096), 128 + ((v \div 64) % 64), 128 + ((v \div 1) % 64)>>)
          ELSE Bytes(<<240 + (v \div 262144), 128 + ((v \div 4096) % 64), 128 + ((v \div 64) % 64), 128 + ((v \div 1) % 64)>>)
    BY SMT, <1>1 DEF ToUnicode
  <2>4. CASE v < 128
    <3>1. ToUnicode(v, x) = Bytes(<<v>>)
      BY <2>3, <2>4
    <3>2. Encoded(v) = <<v>>
      BY <2>4 DEF Encoded
    <3> QED
      BY <2>1, <3>1, <3>2
  <2>5. CASE ~(v < 128) /\ v <= 2047
    <3>1. ToUnicode(v, x) = Bytes(<<192 + (v \div 64), 128 + ((v \div 1) % 64)>>)
      BY <2>3, <2>5
    <3>2. Encoded(v) = <<192 + (v \div 64), 128 + (v % 64)>>
      BY <2>5 DEF Encoded
    <3> QED
      BY <2>1, <2>2, <3>1, <3>2
  <2>6. CASE ~(v < 128) /\ ~(v <= 2047)
    <3>1. ToUnicode(v, x) = Bytes(<<224 + (v \div 4096), 128 + ((v \div 64) % 64), 128 + ((v \div 1) % 64)>>)
      BY <1>1, <2>3, <2>6
    <3>2. Encoded(v) = <<224 + (v \div 4096), 128 + ((v \div 64) % 64), 128 + (v % 64)>>
      BY <1>1, <2>6 DEF Encoded
    <3> QED
      BY <2>1, <2>2, <3>1, <3>2
  <2> QED
    BY SMT, <2>1, <2>4, <2>5, <2>6
<1>2. ASSUME NEW v \in HighSurrogate, NEW x \in LowSurrogate
      PROVE  Both(v, x) \in Points /\ ToUnicode(v, x) = Bytes(Encoded(Both(v, x)))
  <2>a. PICK h \in 0..1023 : v = 55296 + h
    BY SMT DEF HighSurrogate
  <2>b. PICK l \in 0..1023 : x = 56320 + l
    BY SMT DEF LowSurrogate
  <2>1. v = 55296 + h /\ x = 56320 + l
    BY <2>a, <2>b
  <2>2. v % 1024 = h /\ x % 1024 = l
    <3>1. v % 1024 = h
      BY SMT, <2>1
    <3>2. x % 1024 = l
      BY SMT, <2>1
    <3> QED
      BY <3>1, <3>2
  <2> DEFINE c == Both(v, x)
  <2>3. c = 65536 + h * 1024 + l
    BY SMT, <2>2 DEF Both
  <2>4. CodePoint(v, x) = 65536 + h * 1024 + l
    BY SMT, <2>1 DEF CodePoint
  <2> HIDE DEF c
  <2>5. c \in Nat /\ c >= 65536 /\ c <= 1114111
    BY SMT, <2>3
  <2>6. c \in Points
    <3>1. ~(c >= 55296 /\ c <= 57343)
      BY SMT, <2>5
    <3> QED
      BY <2>5, <3>1 DEF Points
  <2>7. c \div 1 = c /\ ~(c < 128) /\ ~(c <= 2047) /\ ~(c <= 65535)
    BY SMT, <1>0, <2>5
  <2>c. CodePoint(v, x) = c
    BY <2>3, <2>4
  <2>8. ToUnicode(v, x) = IF c < 128 THEN Bytes(<<c>>)
          ELSE IF c <= 2047 THEN Bytes(<<192 + (c \div 64), 128 + ((c \div 1) % 64)>>)
          ELSE IF c <= 65535 THEN Bytes(<<224 + (c \div 4096), 128 + ((c \div 64) % 64), 128 + ((c \div 1) % 64)>>)
          ELSE Bytes(<<240 + (c \div 262144), 128 + ((c \div 4096) % 64), 128 + ((c \div 64) % 64), 128 + ((c \div 1) % 64)>>)
    BY SMT, <1>2, <2>c DEF ToUnicode
  <2>9. ToUnicode(v, x) = Bytes(Encoded(c))
    BY SMT, <2>7, <2>8 DEF Encoded
  <2> QED
    BY <2>6, <2>9 DEF c
<1>3. ASSUME NEW v \in HighSurrogate, NEW x, x \notin LowSurrogate PROVE ToUnicode(v, x) = Thrown
  BY SMT, <1>3 DEF ToUnicode
<1> QED
  BY <1>1, <1>2, <1>3

\* What a fold over a text has behind each of its bytes.
FoldOf(h, base, step, s, S) ==
    h = [i \in 0..Len(s) |-> IF i = 0 THEN base ELSE step[<<h[i - 1], s[i]>>]] /\ \A i \in 0..Len(s) : h[i] \in S

\* There is such a fold, and what its steps keep it keeps.
LEMMA FoldsExist ==
    ASSUME NEW S, NEW base \in S, NEW step \in [S \X Byte -> S], NEW s \in Seq(Byte)
    PROVE  \E h : FoldOf(h, base, step, s, S)
<1> DEFINE F(h, n) == h = [i \in 0..n |-> IF i = 0 THEN base ELSE step[<<h[i - 1], s[i]>>]] /\ \A i \in 0..n : h[i] \in S
           N == {n \in Nat : n <= Len(s) => \E h : F(h, n)}
<1>0. Len(s) \in Nat
  OBVIOUS
<1>1. 0 \in N
  <2> DEFINE h == [i \in 0..0 |-> base]
  <2>1. F(h, 0)
    OBVIOUS
  <2> QED
    BY <2>1
<1>2. ASSUME NEW k \in Nat, k \in N PROVE k + 1 \in N
  <2> SUFFICES ASSUME k + 1 <= Len(s) PROVE \E h : F(h, k + 1)
    OBVIOUS
  <2>1. PICK f : F(f, k)
    BY <1>0, <1>2
  <2>2. k + 1 \in 1..Len(s) /\ s[k + 1] \in Byte
    BY <1>0
  <2> DEFINE x == step[<<f[k], s[k + 1]>>]  g == [i \in 0..(k + 1) |-> IF i = k + 1 THEN x ELSE f[i]]
  <2>3. x \in S
    <3>1. f[k] \in S
      BY <2>1
    <3> QED
      BY <2>2, <3>1
  <2>4. ASSUME NEW i \in 0..(k + 1)
        PROVE  g[i] = (IF i = 0 THEN base ELSE step[<<g[i - 1], s[i]>>]) /\ g[i] \in S
    <3>1. CASE i = k + 1
      <4>1. i - 1 = k /\ k \in 0..(k + 1) /\ k # k + 1 /\ i # 0
        BY <3>1
      <4>2. g[i] = x /\ g[i - 1] = f[k]
        BY <3>1, <4>1
      <4> HIDE DEF g
      <4> QED
        BY <2>3, <3>1, <4>1, <4>2
    <3>2. CASE i # k + 1
      <4>1. i \in 0..k /\ (i # 0 => i - 1 \in 0..(k + 1) /\ i - 1 # k + 1)
        BY <3>2
      <4>2. g[i] = f[i] /\ (i # 0 => g[i - 1] = f[i - 1])
        BY <3>2, <4>1
      <4>3. f[i] = (IF i = 0 THEN base ELSE step[<<f[i - 1], s[i]>>]) /\ f[i] \in S
        BY <2>1, <4>1
      <4> HIDE DEF g, F
      <4> QED
        BY <4>2, <4>3
    <3> QED
      BY <3>1, <3>2
  <2>5. g = [i \in 0..(k + 1) |-> g[i]]
    OBVIOUS
  <2> HIDE DEF g
  <2>6. F(g, k + 1)
    BY <2>4, <2>5
  <2> QED
    BY <2>6
<1>3. Len(s) \in N
  <2>1. Nat \subseteq N
    <3> HIDE DEF N
    <3> QED
      BY <1>1, <1>2, CountingUp
  <2> QED
    BY <1>0, <2>1
<1> QED
  BY <1>0, <1>3 DEF FoldOf

\* What holds at the start and is kept by every step holds all along.
LEMMA StaysIn ==
    ASSUME NEW S, NEW h, NEW n \in Nat, h[0] \in S, \A i \in 1..n : h[i - 1] \in S => h[i] \in S
    PROVE  \A i \in 0..n : h[i] \in S
<1> DEFINE N == {k \in Nat : k <= n => h[k] \in S}
<1>1. 0 \in N
  OBVIOUS
<1>2. ASSUME NEW k \in Nat, k \in N PROVE k + 1 \in N
  <2> SUFFICES ASSUME k + 1 <= n PROVE h[k + 1] \in S
    OBVIOUS
  <2>1. k + 1 \in 1..n /\ (k + 1) - 1 = k /\ k <= n
    OBVIOUS
  <2>2. h[k] \in S
    BY <1>2, <2>1
  <2> QED
    BY <2>1, <2>2
<1>3. Nat \subseteq N
  <2> HIDE DEF N
  <2> QED
    BY <1>1, <1>2, CountingUp
<1> QED
  BY <1>3

\* What escape_string and extra_space have after each byte.
ExtraByte(c) == IF c \in DOMAIN Short THEN 1 ELSE IF c < 32 THEN 5 ELSE 0
AllEscaped(h, s) == h = [i \in 0..Len(s) |-> IF i = 0 THEN <<>> ELSE h[i - 1] \o EscapeByte(s[i])]
AllExtra(h, s) == h = [i \in 0..Len(s) |-> IF i = 0 THEN 0 ELSE h[i - 1] + ExtraByte(s[i])]

\* What becomes of a byte: it is escaped in one of two ways, or stays.
LEMMA EscapeByteIs ==
    ASSUME NEW b \in Byte
    PROVE  /\ EscapeByte(b) \in Seq(Byte) /\ ExtraByte(b) \in Nat /\ Len(EscapeByte(b)) = 1 + ExtraByte(b)
           /\ b \in DOMAIN Short =>
                 EscapeByte(b) = <<Backslash, Short[b]>> /\ Short[b] \in Simple /\ Unescaped[Short[b]] = b /\ b < 128
           /\ b \notin DOMAIN Short /\ b < 32 => EscapeByte(b) = <<Backslash, 117, 48, 48, HexOf(b \div 16), HexOf(b % 16)>>
           /\ b \notin DOMAIN Short /\ ~(b < 32) => EscapeByte(b) = <<b>>
           /\ b \in {Quote, Backslash} => b \in DOMAIN Short
<1>0. DOMAIN Short = {Quote, Backslash, 8, 9, 10, 12, 13} /\ b \in 0..255 /\ Backslash \in Byte /\ 117 \in Byte /\ 48 \in Byte
  BY DEF Short, Byte, Backslash
<1>1. ASSUME b \in DOMAIN Short PROVE Short[b] \in Simple /\ Unescaped[Short[b]] = b /\ b < 128 /\ Short[b] \in Byte
  <2>1. b = 34 \/ b = 92 \/ b = 8 \/ b = 9 \/ b = 10 \/ b = 12 \/ b = 13
    BY <1>0, <1>1 DEF Quote, Backslash
  <2>2. Short[b] = CASE b = 8 -> 98 [] b = 12 -> 102 [] b = 10 -> 110 [] b = 13 -> 114 [] b = 9 -> 116 [] OTHER -> b
    BY <1>0, <1>1 DEF Short
  <2>3. Short[b] = IF b = 8 THEN 98 ELSE IF b = 12 THEN 102 ELSE IF b = 10 THEN 110 ELSE IF b = 13 THEN 114 ELSE IF b = 9 THEN 116 ELSE b
    BY <2>1, <2>2
  <2>4. Short[b] \in Simple /\ Short[b] \in Byte
    BY <2>1, <2>3 DEF Simple, Quote, Backslash, Byte
  <2>5. \A c \in Simple : Unescaped[c] = CASE c = 98 -> 8 [] c = 102 -> 12 [] c = 110 -> 10 [] c = 114 -> 13 [] c = 116 -> 9 [] OTHER -> c
    BY DEF Unescaped, Simple
  <2> DEFINE c == Short[b]
  <2>6. Unescaped[c] = CASE c = 98 -> 8 [] c = 102 -> 12 [] c = 110 -> 10 [] c = 114 -> 13 [] c = 116 -> 9 [] OTHER -> c
    BY <2>4, <2>5
  <2> HIDE DEF c
  <2>7. c = IF b = 8 THEN 98 ELSE IF b = 12 THEN 102 ELSE IF b = 10 THEN 110 ELSE IF b = 13 THEN 114 ELSE IF b = 9 THEN 116 ELSE b
    BY <2>3 DEF c
  <2>8. Unescaped[c] = b
    <3>1. CASE b = 8
      BY <2>6, <2>7, <3>1
    <3>2. CASE b = 12
      BY <2>6, <2>7, <3>2
    <3>3. CASE b = 10
      BY <2>6, <2>7, <3>3
    <3>4. CASE b = 13
      BY <2>6, <2>7, <3>4
    <3>5. CASE b = 9
      BY <2>6, <2>7, <3>5
    <3>6. CASE b = 34
      BY <2>6, <2>7, <3>6
    <3>7. CASE b = 92
      BY <2>6, <2>7, <3>7
    <3> QED
      BY <2>1, <3>1, <3>2, <3>3, <3>4, <3>5, <3>6, <3>7
  <2> QED
    BY <2>1, <2>4, <2>8 DEF c
<1>2. CASE b \in DOMAIN Short
  <2>1. EscapeByte(b) = <<Backslash, Short[b]>> /\ ExtraByte(b) = 1
    BY <1>2 DEF EscapeByte, ExtraByte
  <2>2. EscapeByte(b) \in Seq(Byte) /\ Len(EscapeByte(b)) = 2
    BY <1>0, <1>1, <1>2, <2>1
  <2> QED
    BY <1>1, <1>2, <2>1, <2>2
<1>3. CASE b \notin DOMAIN Short /\ b < 32
  <2> DEFINE x == HexOf(b \div 16)  y == HexOf(b % 16)
  <2>1. EscapeByte(b) = <<Backslash, 117, 48, 48, x, y>> /\ ExtraByte(b) = 5
    BY <1>3 DEF EscapeByte, ExtraByte
  <2>2. x \in Byte /\ y \in Byte
    BY <1>0, <1>3 DEF HexOf, Byte
  <2> HIDE DEF x, y
  <2>3. EscapeByte(b) \in Seq(Byte) /\ Len(EscapeByte(b)) = 6
    BY <1>0, <2>1, <2>2
  <2> QED
    BY <1>0, <1>3, <2>1, <2>3 DEF x, y
<1>4. CASE b \notin DOMAIN Short /\ ~(b < 32)
  <2>1. EscapeByte(b) = <<b>> /\ ExtraByte(b) = 0
    BY <1>4 DEF EscapeByte, ExtraByte
  <2>2. EscapeByte(b) \in Seq(Byte) /\ Len(EscapeByte(b)) = 1
    BY <2>1
  <2> QED
    BY <1>0, <1>4, <2>1, <2>2
<1> QED
  BY <1>2, <1>3, <1>4

\* What they give is what they have at the end, of the types one expects.
LEMMA EscapedIn ==
    ASSUME NEW s \in Seq(Byte), NEW h
    PROVE  /\ AllEscaped(h, s) => \A i \in 0..Len(s) : h[i] \in Seq(Byte)
           /\ AllExtra(h, s) => \A i \in 0..Len(s) : h[i] \in Nat
<1>0. Len(s) \in Nat /\ \A i \in 1..Len(s) : i \in 0..Len(s) /\ i # 0 /\ s[i] \in Byte
  OBVIOUS
<1>1. ASSUME AllEscaped(h, s) PROVE \A i \in 0..Len(s) : h[i] \in Seq(Byte)
  <2>1. \A i \in 0..Len(s) : h[i] = IF i = 0 THEN <<>> ELSE h[i - 1] \o EscapeByte(s[i])
    BY <1>1 DEF AllEscaped
  <2>2. h[0] \in Seq(Byte)
    <3>1. h[0] = <<>>
      <4>1. 0 \in 0..Len(s)
        BY <1>0
      <4> QED
        BY <2>1, <4>1
    <3>2. <<>> \in Seq(Byte)
      OBVIOUS
    <3> QED
      BY <3>1, <3>2
  <2>3. ASSUME NEW i \in 1..Len(s), h[i - 1] \in Seq(Byte) PROVE h[i] \in Seq(Byte)
    <3>1. h[i] = h[i - 1] \o EscapeByte(s[i]) /\ EscapeByte(s[i]) \in Seq(Byte)
      BY <1>0, <2>1, EscapeByteIs
    <3> QED
      BY <2>3, <3>1, Joined
  <2> DEFINE S == Seq(Byte)
  <2>4. h[0] \in S /\ \A i \in 1..Len(s) : h[i - 1] \in S => h[i] \in S
    BY <2>2, <2>3
  <2>5. \A i \in 0..Len(s) : h[i] \in S
    <3> HIDE DEF S
    <3> QED
      BY <1>0, <2>4, StaysIn
  <2> QED
    BY <2>5
<1>2. ASSUME AllExtra(h, s) PROVE \A i \in 0..Len(s) : h[i] \in Nat
  <2>1. \A i \in 0..Len(s) : h[i] = IF i = 0 THEN 0 ELSE h[i - 1] + ExtraByte(s[i])
    BY <1>2 DEF AllExtra
  <2>2. h[0] \in Nat
    BY <1>0, <2>1
  <2>3. ASSUME NEW i \in 1..Len(s), h[i - 1] \in Nat PROVE h[i] \in Nat
    <3>1. h[i] = h[i - 1] + ExtraByte(s[i]) /\ ExtraByte(s[i]) \in Nat
      BY <1>0, <2>1, EscapeByteIs
    <3> QED
      BY <2>3, <3>1
  <2> QED
    BY <1>0, <2>2, <2>3, StaysIn
<1> QED
  BY <1>1, <1>2

\* What escape_string and extra_space give: what they have behind the last byte.
LEMMA EscapeIs ==
    ASSUME NEW s \in Seq(Byte)
    PROVE  /\ \E h : AllEscaped(h, s) /\ EscapeString(s) = h[Len(s)]
           /\ \E h : AllExtra(h, s) /\ ExtraSpace(s) = h[Len(s)]
<1>0. Len(s) \in Nat /\ \A i \in 1..Len(s) : s[i] \in Byte
  OBVIOUS
<1>1. \E h : AllEscaped(h, s)
  <2> DEFINE step == [x \in Seq(Byte) \X Byte |-> x[1] \o EscapeByte(x[2])]
  <2>1. step \in [Seq(Byte) \X Byte -> Seq(Byte)]
    <3>1. ASSUME NEW x \in Seq(Byte) \X Byte PROVE x[1] \o EscapeByte(x[2]) \in Seq(Byte)
      <4>1. x[1] \in Seq(Byte) /\ EscapeByte(x[2]) \in Seq(Byte)
        BY EscapeByteIs
      <4> QED
        BY <4>1, Joined
    <3> QED
      BY <3>1
  <2>2. \A y \in Seq(Byte), b \in Byte : step[<<y, b>>] = y \o EscapeByte(b)
    OBVIOUS
  <2>3. <<>> \in Seq(Byte)
    OBVIOUS
  <2> HIDE DEF step
  <2>4. PICK h : FoldOf(h, <<>>, step, s, Seq(Byte))
    <3> DEFINE S == Seq(Byte)  base == <<>>
    <3>1. step \in [S \X Byte -> S] /\ base \in S
      BY <2>1, <2>3
    <3>2. \E h : FoldOf(h, base, step, s, S)
      <4> HIDE DEF S, base
      <4> QED
        BY <3>1, FoldsExist
    <3> QED
      BY <3>2
  <2>5. ASSUME NEW i \in 0..Len(s) PROVE (IF i = 0 THEN <<>> ELSE step[<<h[i - 1], s[i]>>]) = IF i = 0 THEN <<>> ELSE h[i - 1] \o EscapeByte(s[i])
    <3>1. i # 0 => i \in 1..Len(s) /\ i - 1 \in 0..Len(s)
      BY <1>0
    <3> QED
      BY <1>0, <2>2, <2>4, <3>1 DEF FoldOf
  <2> QED
    BY <2>4, <2>5 DEF AllEscaped, FoldOf
<1>2. \E h : AllExtra(h, s)
  <2> DEFINE step == [x \in Nat \X Byte |-> x[1] + ExtraByte(x[2])]
  <2>1. step \in [Nat \X Byte -> Nat]
    <3>1. ASSUME NEW x \in Nat \X Byte PROVE x[1] + ExtraByte(x[2]) \in Nat
      <4>1. x[1] \in Nat /\ ExtraByte(x[2]) \in Nat
        BY EscapeByteIs
      <4> QED
        BY <4>1
    <3> QED
      BY <3>1
  <2>2. \A y \in Nat, b \in Byte : step[<<y, b>>] = y + ExtraByte(b)
    OBVIOUS
  <2> HIDE DEF step
  <2>4. PICK h : FoldOf(h, 0, step, s, Nat)
    <3> DEFINE S == Nat  base == 0
    <3>1. step \in [S \X Byte -> S] /\ base \in S
      BY <2>1
    <3>2. \E h : FoldOf(h, base, step, s, S)
      <4> HIDE DEF S, base
      <4> QED
        BY <3>1, FoldsExist
    <3> QED
      BY <3>2
  <2>5. ASSUME NEW i \in 0..Len(s) PROVE (IF i = 0 THEN 0 ELSE step[<<h[i - 1], s[i]>>]) = IF i = 0 THEN 0 ELSE h[i - 1] + ExtraByte(s[i])
    <3>1. i # 0 => i \in 1..Len(s) /\ i - 1 \in 0..Len(s)
      BY <1>0
    <3> QED
      BY <1>0, <2>2, <2>4, <3>1 DEF FoldOf
  <2> QED
    BY <2>4, <2>5 DEF AllExtra, FoldOf
<1>3. \E h : AllEscaped(h, s) /\ EscapeString(s) = h[Len(s)]
  <2> DEFINE h == CHOOSE h : AllEscaped(h, s)
  <2>1. AllEscaped(h, s)
    BY <1>1
  <2>2. EscapeString(s) = h[Len(s)]
    BY DEF EscapeString, AllEscaped
  <2> HIDE DEF h
  <2> QED
    BY <2>1, <2>2
<1>4. \E h : AllExtra(h, s) /\ ExtraSpace(s) = h[Len(s)]
  <2> DEFINE h == CHOOSE h : AllExtra(h, s)
  <2>1. AllExtra(h, s)
    BY <1>2
  <2>2. ExtraSpace(s) = h[Len(s)]
    BY DEF ExtraSpace, AllExtra, ExtraByte
  <2> HIDE DEF h
  <2> QED
    BY <2>1, <2>2
<1> QED
  BY <1>3, <1>4

\* In every text that ends with t, escape_string makes e of t, and extra_space
\* counts what is more.
Escapes(t, e) ==
    \A z \in Seq(Byte) : \A p \in Nat : Behind(z, p, t, 0) => \A h :
        /\ AllEscaped(h, z) => h[Len(z)] = h[p] \o e
        /\ AllExtra(h, z) => h[Len(z)] + Len(t) = h[p] + Len(e)

\* Nothing makes nothing.
LEMMA EscapesNone == Escapes(<<>>, <<>>)
<1> SUFFICES ASSUME NEW z \in Seq(Byte), NEW p \in Nat, Behind(z, p, <<>>, 0), NEW h
             PROVE  /\ AllEscaped(h, z) => h[Len(z)] = h[p] \o <<>>
                    /\ AllExtra(h, z) => h[Len(z)] + Len(<<>>) = h[p] + Len(<<>>)
  BY DEF Escapes
<1>1. Len(z) = p /\ p \in 0..Len(z)
  <2>1. Len(z) = p + Len(<<>>) + 0 /\ Len(<<>>) = 0
    BY DEF Behind
  <2> QED
    BY <2>1
<1>2. ASSUME AllEscaped(h, z) PROVE h[p] \o <<>> = h[p]
  <2>1. h[p] \in Seq(Byte)
    BY <1>1, <1>2, EscapedIn
  <2> QED
    BY <2>1, ConcatEmptySeq
<1> QED
  BY <1>1, <1>2

\* One byte more.
LEMMA EscapesMore ==
    ASSUME NEW t \in Seq(Byte), NEW e \in Seq(Byte), Escapes(t, e), NEW b \in Byte
    PROVE  Escapes(<<b>> \o t, EscapeByte(b) \o e)
<1> DEFINE c == <<b>>  x == EscapeByte(b)  n == Len(e)  m == Len(t)
<1>0. c \in Seq(Byte) /\ Len(c) = 1 /\ c[1] = b
  OBVIOUS
<1>a. x \in Seq(Byte) /\ ExtraByte(b) \in Nat /\ Len(x) = 1 + ExtraByte(b) /\ Len(x \o e) = Len(x) + n /\ n \in Nat /\ m \in Nat
      /\ Len(c \o t) = 1 + m
  <2>1. x \in Seq(Byte) /\ ExtraByte(b) \in Nat /\ Len(x) = 1 + ExtraByte(b)
    BY EscapeByteIs
  <2>2. Len(c \o t) = Len(c) + m
    BY <1>0, Joined
  <2> HIDE DEF x
  <2> QED
    BY <1>0, <2>1, <2>2, Joined
<1> SUFFICES ASSUME NEW z \in Seq(Byte), NEW p \in Nat, Behind(z, p, c \o t, 0), NEW h
             PROVE  /\ AllEscaped(h, z) => h[Len(z)] = h[p] \o (x \o e)
                    /\ AllExtra(h, z) => h[Len(z)] + Len(c \o t) = h[p] + Len(x \o e)
  BY DEF Escapes
<1> HIDE DEF c, x
<1>1. Behind(z, p + 1, t, 0) /\ z[p + 1] = b /\ Len(z) = p + 1 + m + 0 /\ p + 1 \in Nat
  <2>1. Behind(z, p + Len(c), t, 0) /\ (\A j \in 1..Len(c) : z[p + j] = c[j]) /\ Len(z) = p + Len(c) + m + 0
    <3> DEFINE k == 0
    <3>1. k \in Nat /\ Behind(z, p, c \o t, k) /\ c \in Seq(Byte)
      BY <1>0
    <3> HIDE DEF k
    <3>2. Behind(z, p + Len(c), t, k) /\ (\A j \in 1..Len(c) : z[p + j] = c[j]) /\ Len(z) = p + Len(c) + Len(t) + k
      BY <3>1, BehindMore
    <3> QED
      BY <3>2 DEF k
  <2>2. 1 \in 1..Len(c)
    BY <1>0
  <2> QED
    BY <1>0, <2>1, <2>2
<1>2. p + 1 \in 0..Len(z) /\ p \in 0..Len(z) /\ (p + 1) - 1 = p /\ p + 1 # 0 /\ Len(z) \in 0..Len(z) /\ Len(z) \in Nat
  BY <1>1, <1>a
<1>3. ASSUME AllEscaped(h, z) PROVE h[Len(z)] = h[p] \o (x \o e)
  <2>1. h[p + 1] = h[p] \o x
    BY <1>1, <1>2, <1>3 DEF AllEscaped, x
  <2>2. h[Len(z)] = h[p + 1] \o e
    BY <1>1, <1>3 DEF Escapes
  <2>3. h[p] \in Seq(Byte)
    BY <1>2, <1>3, EscapedIn
  <2> DEFINE a == h[p]
  <2>a. h[Len(z)] = (a \o x) \o e
    BY <2>1, <2>2
  <2>4. a \in Seq(Byte) /\ x \in Seq(Byte) /\ e \in Seq(Byte)
    BY <1>a, <2>3
  <2> HIDE DEF a
  <2>5. (a \o x) \o e = a \o (x \o e)
    BY <2>4, ConcatAssociative
  <2> QED
    BY <2>a, <2>5 DEF a
<1>4. ASSUME AllExtra(h, z) PROVE h[Len(z)] + Len(c \o t) = h[p] + Len(x \o e)
  <2>1. h[p + 1] = h[p] + ExtraByte(b)
    BY <1>1, <1>2, <1>4 DEF AllExtra
  <2>2. h[Len(z)] + m = h[p + 1] + n
    BY <1>1, <1>4 DEF Escapes
  <2>3. h[p] \in Nat /\ h[Len(z)] \in Nat
    BY <1>2, <1>4, EscapedIn
  <2> DEFINE a == h[p]  d == h[Len(z)]
  <2>4. d + m = (a + ExtraByte(b)) + n /\ a \in Nat /\ d \in Nat
    BY <2>1, <2>2, <2>3
  <2> HIDE DEF a, d, n, m
  <2>5. d + (1 + m) = a + ((1 + ExtraByte(b)) + n)
    <3>1. \A i, j, k, l, r \in Nat : i + j = (k + l) + r => i + (1 + j) = k + ((1 + l) + r)
      OBVIOUS
    <3> DEFINE q == ExtraByte(b)
    <3>2. a \in Nat /\ d \in Nat /\ m \in Nat /\ n \in Nat /\ q \in Nat /\ d + m = (a + q) + n
      BY <1>a, <2>4
    <3> HIDE DEF q
    <3>3. d + (1 + m) = a + ((1 + q) + n)
      BY <3>1, <3>2
    <3> QED
      BY <3>3 DEF q
  <2> QED
    BY <1>a, <2>5 DEF a, d
<1> QED
  BY <1>3, <1>4

\* What escape_string makes of a text, and extra_space.
LEMMA EscapesSays ==
    ASSUME NEW t \in Seq(Byte), NEW e \in Seq(Byte), Escapes(t, e)
    PROVE  EscapeString(t) = e /\ Len(e) = Len(t) + ExtraSpace(t)
<1>0. Behind(t, 0, t, 0) /\ 0 \in 0..Len(t) /\ Len(t) \in Nat /\ Len(e) \in Nat /\ Len(t) \in 0..Len(t)
  BY BehindNone
<1>1. EscapeString(t) = e
  <2>1. PICK h : AllEscaped(h, t) /\ EscapeString(t) = h[Len(t)]
    BY EscapeIs
  <2>2. h[Len(t)] = h[0] \o e
    BY <1>0, <2>1 DEF Escapes
  <2>3. h[0] = <<>>
    BY <1>0, <2>1 DEF AllEscaped
  <2> QED
    BY <2>1, <2>2, <2>3, ConcatEmptySeq
<1>2. Len(e) = Len(t) + ExtraSpace(t)
  <2>1. PICK h : AllExtra(h, t) /\ ExtraSpace(t) = h[Len(t)]
    BY EscapeIs
  <2>2. h[Len(t)] + Len(t) = h[0] + Len(e)
    BY <1>0, <2>1 DEF Escapes
  <2>3. h[0] = 0 /\ h[Len(t)] \in Nat
    BY <1>0, <2>1, EscapedIn DEF AllExtra
  <2> QED
    BY <1>0, <2>1, <2>2, <2>3
<1> QED
  BY <1>1, <1>2

\* The first byte of a text, and the others.
LEMMA FirstAndRest ==
    ASSUME NEW n \in Nat, NEW c \in Seq(Byte), Len(c) = n + 1
    PROVE  \E b \in Byte : \E d \in Seq(Byte) : c = <<b>> \o d /\ Len(d) = n /\ b = c[1] /\ \A i \in 1..n : d[i] = c[i + 1]
<1> DEFINE d == SubSeq(c, 1 + 1, n + 1)  b == c[1]
<1>1. 1 \in 1..Len(c) /\ n + 1 \in 1..Len(c) /\ b \in Byte /\ (n + 1) - 1 = n /\ 1 <= n + 1 /\ n + 1 <= Len(c) /\ n + 1 \in Nat
  OBVIOUS
<1>2. d \in Seq(Byte) /\ Len(d) = n /\ \A i \in 1..n : d[i] = c[1 + i]
  BY <1>1, SliceIs
<1>3. c = <<b>> \o d
  <2>1. SubSeq(c, 1, n + 1) = <<c[1]>> \o SubSeq(c, 1 + 1, n + 1)
    BY <1>1, SubSeqRecursiveFirst
  <2>2. SubSeq(c, 1, n + 1) = c
    BY SubSeqFull
  <2> QED
    BY <2>1, <2>2
<1> HIDE DEF d, b
<1>4. \A i \in 1..n : d[i] = c[i + 1]
  <2>1. \A i \in 1..n : 1 + i = i + 1
    OBVIOUS
  <2> QED
    BY <1>2, <2>1
<1> QED
  BY <1>1, <1>2, <1>3, <1>4 DEF b

\* What reading a string gives.
Results == {Thrown} \cup {Bytes(x) : x \in Seq(Byte)}

\* Bytes that are no backslash stand for themselves.
LEMMA ReadsMany ==
    ASSUME NEW t \in Seq(Byte), NEW r \in Results, Reads(t, r), NEW c \in Seq(Byte), \A i \in 1..Len(c) : c[i] # Backslash
    PROVE  Reads(c \o t, Then(Bytes(c), r))
<1> DEFINE Free(d) == \A i \in 1..Len(d) : d[i] # Backslash
           N == {n \in Nat : \A d \in Seq(Byte) : Len(d) = n /\ Free(d) => Reads(d \o t, Then(Bytes(d), r))}
<1>1. 0 \in N
  <2> SUFFICES ASSUME NEW d \in Seq(Byte), Len(d) = 0 PROVE Reads(d \o t, Then(Bytes(d), r))
    OBVIOUS
  <2>1. d = <<>>
    OBVIOUS
  <2>2. d \o t = t
    BY <2>1, ConcatEmptySeq
  <2>3. Then(Bytes(d), r) = r
    <3>1. CASE r = Thrown
      BY <3>1 DEF Then, Thrown
    <3>2. CASE r # Thrown
      <4>1. PICK x \in Seq(Byte) : r = Bytes(x)
        BY <3>2 DEF Results
      <4>2. d \o x = x
        BY <2>1, ConcatEmptySeq
      <4> QED
        BY <4>1, <4>2 DEF Then, Bytes
    <3> QED
      BY <3>1, <3>2
  <2> QED
    BY <2>2, <2>3
<1>2. ASSUME NEW n \in Nat, n \in N PROVE n + 1 \in N
  <2> SUFFICES ASSUME NEW d \in Seq(Byte), Len(d) = n + 1, Free(d) PROVE Reads(d \o t, Then(Bytes(d), r))
    OBVIOUS
  <2>1. PICK b \in Byte, y \in Seq(Byte) : d = <<b>> \o y /\ Len(y) = n /\ b = d[1] /\ \A i \in 1..n : y[i] = d[i + 1]
    BY FirstAndRest
  <2>2. b # Backslash /\ Free(y)
    <3>1. 1 \in 1..Len(d) /\ \A i \in 1..n : i + 1 \in 1..Len(d)
      OBVIOUS
    <3> QED
      BY <2>1, <3>1
  <2>3. Reads(y \o t, Then(Bytes(y), r)) /\ y \o t \in Seq(Byte)
    BY <1>2, <2>1, <2>2, Joined
  <2>4. Reads(<<b>> \o (y \o t), Then(Bytes(<<b>>), Then(Bytes(y), r)))
    BY <2>2, <2>3, ReadsByte
  <2>5. <<b>> \in Seq(Byte)
    OBVIOUS
  <2>6. <<b>> \o (y \o t) = d \o t
    <3>1. (<<b>> \o y) \o t = <<b>> \o (y \o t)
      BY <2>5, ConcatAssociative
    <3> QED
      BY <2>1, <3>1
  <2>7. Then(Bytes(<<b>>), Then(Bytes(y), r)) = Then(Bytes(d), r)
    <3>1. CASE r = Thrown
      BY <3>1 DEF Then, Thrown, Bytes
    <3>2. CASE r # Thrown
      <4>1. PICK x \in Seq(Byte) : r = Bytes(x)
        BY <3>2 DEF Results
      <4>2. <<b>> \o (y \o x) = d \o x
        <5>1. (<<b>> \o y) \o x = <<b>> \o (y \o x)
          BY <2>5, ConcatAssociative
        <5> QED
          BY <2>1, <5>1
      <4>3. Then(Bytes(y), r) = Bytes(y \o x) /\ Then(Bytes(d), r) = Bytes(d \o x)
        BY <4>1 DEF Then, Bytes
      <4>4. Then(Bytes(<<b>>), Bytes(y \o x)) = Bytes(<<b>> \o (y \o x))
        BY DEF Then, Bytes
      <4> QED
        BY <4>2, <4>3, <4>4
    <3> QED
      BY <3>1, <3>2
  <2> QED
    BY <2>4, <2>6, <2>7
<1>3. Len(c) \in N
  <2>1. Nat \subseteq N
    <3> HIDE DEF N
    <3> QED
      BY <1>1, <1>2, CountingUp
  <2>2. Len(c) \in Nat
    OBVIOUS
  <2> QED
    BY <2>1, <2>2
<1> QED
  BY <1>3

\* Bytes that are no ASCII are not escaped.
LEMMA EscapesMany ==
    ASSUME NEW t \in Seq(Byte), NEW e \in Seq(Byte), Escapes(t, e), NEW c \in Seq(Byte), \A i \in 1..Len(c) : c[i] >= 128
    PROVE  Escapes(c \o t, c \o e)
<1> DEFINE Free(d) == \A i \in 1..Len(d) : d[i] >= 128
           N == {n \in Nat : \A d \in Seq(Byte) : Len(d) = n /\ Free(d) => Escapes(d \o t, d \o e)}
<1>1. 0 \in N
  <2> SUFFICES ASSUME NEW d \in Seq(Byte), Len(d) = 0 PROVE Escapes(d \o t, d \o e)
    OBVIOUS
  <2>1. d = <<>>
    OBVIOUS
  <2>2. d \o t = t /\ d \o e = e
    BY <2>1, ConcatEmptySeq
  <2> QED
    BY <2>2
<1>2. ASSUME NEW n \in Nat, n \in N PROVE n + 1 \in N
  <2> SUFFICES ASSUME NEW d \in Seq(Byte), Len(d) = n + 1, Free(d) PROVE Escapes(d \o t, d \o e)
    OBVIOUS
  <2>1. PICK b \in Byte, y \in Seq(Byte) : d = <<b>> \o y /\ Len(y) = n /\ b = d[1] /\ \A i \in 1..n : y[i] = d[i + 1]
    BY FirstAndRest
  <2>2. b >= 128 /\ Free(y)
    <3>1. 1 \in 1..Len(d) /\ \A i \in 1..n : i + 1 \in 1..Len(d)
      OBVIOUS
    <3> QED
      BY <2>1, <3>1
  <2>3. Escapes(y \o t, y \o e) /\ y \o t \in Seq(Byte) /\ y \o e \in Seq(Byte)
    BY <1>2, <2>1, <2>2, Joined
  <2>4. EscapeByte(b) = <<b>>
    <3>1. DOMAIN Short = {34, 92, 8, 9, 10, 12, 13}
      BY DEF Short, Quote, Backslash
    <3>2. b \in Nat
      BY DEF Byte
    <3>3. \A a \in Nat : a >= 128 => a \notin {34, 92, 8, 9, 10, 12, 13} /\ ~(a < 32)
      OBVIOUS
    <3>4. b \notin DOMAIN Short /\ ~(b < 32)
      BY <2>2, <3>1, <3>2, <3>3
    <3> QED
      BY <3>4, EscapeByteIs
  <2>5. Escapes(<<b>> \o (y \o t), <<b>> \o (y \o e))
    BY <2>3, <2>4, EscapesMore
  <2>6. <<b>> \in Seq(Byte)
    OBVIOUS
  <2>7. <<b>> \o (y \o t) = d \o t /\ <<b>> \o (y \o e) = d \o e
    <3>1. (<<b>> \o y) \o t = <<b>> \o (y \o t)
      BY <2>6, ConcatAssociative
    <3>2. (<<b>> \o y) \o e = <<b>> \o (y \o e)
      BY <2>6, ConcatAssociative
    <3> QED
      BY <2>1, <3>1, <3>2
  <2> QED
    BY <2>5, <2>7
<1>3. Len(c) \in N
  <2>1. Nat \subseteq N
    <3> HIDE DEF N
    <3> QED
      BY <1>1, <1>2, CountingUp
  <2>2. Len(c) \in Nat
    OBVIOUS
  <2> QED
    BY <2>1, <2>2
<1> QED
  BY <1>3

\* A character of one byte is ASCII, and one of more bytes has none of it.
LEMMA AsciiOrNot ==
    ASSUME NEW c \in AllOfCharacter
    PROVE  /\ c \in Seq(Byte) /\ Len(c) \in 1..4 /\ IsCharacter(c)
           /\ Len(c) = 1 => c[1] < 128 /\ c = <<c[1]>> /\ c[1] \in Byte
           /\ Len(c) # 1 => \A i \in 1..Len(c) : c[i] >= 128
<1>1. c \in Seq(Byte) /\ IsCharacter(c)
  BY DEF AllOfCharacter
<1>2. Len(c) \in 1..4 /\ (Len(c) = 1 => c[1] < 128) /\ c[1] >= Lead(Len(c)) /\ \A i \in 2..Len(c) : c[i] \in 128..191
  BY <1>1 DEF IsCharacter
<1>3. \A i \in 1..Len(c) : c[i] \in Byte
  BY <1>1
<1>4. ASSUME Len(c) = 1 PROVE c = <<c[1]>> /\ c[1] \in Byte
  <2>1. c[1] \in Byte
    BY <1>3, <1>4
  <2> DEFINE d == <<c[1]>>
  <2>2. d \in Seq(Byte) /\ Len(d) = 1 /\ d[1] = c[1]
    BY <2>1
  <2> HIDE DEF d
  <2>3. \A i \in 1..Len(c) : c[i] = d[i]
    <3>1. \A i \in 1..Len(c) : i = 1
      BY <1>4
    <3> QED
      BY <2>2, <3>1
  <2>4. c = d
    BY <1>1, <1>4, <2>2, <2>3, SeqEqual
  <2> QED
    BY <2>1, <2>4 DEF d
<1>5. ASSUME Len(c) # 1, NEW i \in 1..Len(c) PROVE c[i] >= 128
  <2>1. CASE i = 1
    <3>1. \A n \in 2..4 : Lead(n) \in Nat /\ Lead(n) >= 128
      <4>1. Lead(2) = 192 /\ Lead(3) = 224 /\ Lead(4) = 240
        BY DEF Lead
      <4>2. \A n \in 2..4 : n = 2 \/ n = 3 \/ n = 4
        OBVIOUS
      <4>3. Lead(2) \in Nat /\ Lead(2) >= 128 /\ Lead(3) \in Nat /\ Lead(3) >= 128 /\ Lead(4) \in Nat /\ Lead(4) >= 128
        BY <4>1
      <4> QED
        BY <4>2, <4>3
    <3> DEFINE n == Len(c)  b == c[1]
    <3>2. n \in 2..4 /\ b \in 0..255 /\ b >= Lead(n)
      BY <1>2, <1>3, <1>5, <2>1 DEF Byte
    <3>3. \A m \in Nat : \A k \in 0..255 : m >= 128 /\ k >= m => k >= 128
      OBVIOUS
    <3> HIDE DEF n, b
    <3>4. b >= 128
      BY <3>1, <3>2, <3>3
    <3>5. c[1] >= 128
      BY <3>4 DEF b
    <3> QED
      BY <2>1, <3>5
  <2>2. CASE i # 1
    <3>1. i \in 2..Len(c)
      BY <1>2, <2>2
    <3>2. c[i] \in 128..191
      BY <1>2, <3>1
    <3>3. \A k \in 128..191 : k >= 128
      OBVIOUS
    <3> QED
      BY <3>2, <3>3
  <2> QED
    BY <2>1, <2>2
<1> QED
  BY <1>1, <1>2, <1>4, <1>5

\* The two digits of a control character give it back.
LEMMA HexBack ==
    ASSUME NEW b \in Byte, b < 32
    PROVE  LET x == <<Backslash, 117, 48, 48, HexOf(b \div 16), HexOf(b % 16)>> IN
           x \in Seq(Byte) /\ IsLong(x) /\ Hex4(x) = b
<1>0. Backslash \in Byte /\ 117 \in Byte /\ 48 \in Byte /\ b \in 0..31
  BY DEF Byte, Backslash
<1>1. \A n \in 0..15 : HexOf(n) \in Byte /\ HexOf(n) \in HexDigit /\ HexToInt(HexOf(n)) = n
  BY SMT DEF HexOf, HexToInt, HexDigit, Digit, Byte
<1>2. PICK m \in 0..15, n \in 0..15 : m = b \div 16 /\ n = b % 16 /\ b = 16 * m + n
  <2> DEFINE m == b \div 16  n == b % 16
  <2>1. m \in 0..15 /\ n \in 0..15 /\ b = 16 * m + n
    BY <1>0
  <2> HIDE DEF m, n
  <2>2. \E k \in 0..15, l \in 0..15 : k = m /\ l = n /\ b = 16 * k + l
    BY <2>1
  <2> QED
    BY <2>2 DEF m, n
<1> DEFINE h == HexOf(m)  l == HexOf(n)  x == <<Backslash, 117, 48, 48, h, l>>
<1>3. h \in Byte /\ h \in HexDigit /\ HexToInt(h) = m /\ l \in Byte /\ l \in HexDigit /\ HexToInt(l) = n
  BY <1>1
<1>4. 48 \in HexDigit /\ HexToInt(48) = 0
  BY DEF HexDigit, Digit, HexToInt
<1> HIDE DEF h, l
<1>5. x \in Seq(Byte) /\ Len(x) = 6
  BY <1>0, <1>3
<1>6. x[1] = Backslash /\ x[2] = 117 /\ x[3] = 48 /\ x[4] = 48 /\ x[5] = h /\ x[6] = l
  OBVIOUS
<1> HIDE DEF x
<1>7. IsLong(x)
  <2>1. ASSUME NEW i \in 3..6 PROVE x[i] \in HexDigit
    <3>1. i = 3 \/ i = 4 \/ i = 5 \/ i = 6
      OBVIOUS
    <3> QED
      BY <1>3, <1>4, <1>6, <3>1
  <2> QED
    BY <1>5, <1>6, <2>1 DEF IsLong
<1>8. Hex4(x) = b
  <2>1. Hex4(x) = 16 * (16 * (16 * (16 * 0 + HexToInt(x[3])) + HexToInt(x[4])) + HexToInt(x[5])) + HexToInt(x[6])
    BY <1>5, Hex4Is
  <2>2. Hex4(x) = 16 * (16 * (16 * (16 * 0 + 0) + 0) + m) + n
    BY <1>3, <1>4, <1>6, <2>1
  <2> QED
    BY SMT, <1>2, <2>2
<1> QED
  BY <1>2, <1>5, <1>7, <1>8 DEF x, h, l

\* Nothing in front, and two results one after the other.
LEMMA ThenIs ==
    ASSUME NEW c, NEW t
    PROVE  Then(Bytes(c), Bytes(t)) = Bytes(c \o t) /\ Then(Bytes(c), Thrown) = Thrown /\ \A r : Then(Thrown, r) = Thrown
BY DEF Then, Bytes, Thrown

\* The unit that escape_string writes of a character: it stands for that character.
Written(c, x, t, e) == x \in AllOfUnit /\ Escapes(c \o t, x \o e) /\ Reads(x \o e, Bytes(c \o t))

\* Such a unit is written of every ASCII character.
LEMMA WritesAscii ==
    ASSUME NEW t \in Seq(Byte), NEW e \in Seq(Byte), Escapes(t, e), Reads(e, Bytes(t)),
           NEW c \in AllOfCharacter, Len(c) = 1
    PROVE  \E x : Written(c, x, t, e)
<1>1. c \in Seq(Byte) /\ IsCharacter(c) /\ c[1] < 128 /\ c = <<c[1]>> /\ c[1] \in Byte
  BY AsciiOrNot
<1> DEFINE b == c[1]  x == EscapeByte(b)
<1>2. b \in Byte /\ b < 128 /\ c = <<b>>
  BY <1>1
<1>b. c[1] = b
  OBVIOUS
<1> HIDE DEF b
<1>3. x \in Seq(Byte)
  BY <1>2, EscapeByteIs
<1>4. Escapes(c \o t, x \o e)
  BY <1>2, EscapesMore
<1>5. CASE b \in DOMAIN Short
  <2>1. x = <<Backslash, Short[b]>> /\ Short[b] \in Simple /\ Unescaped[Short[b]] = b
    BY <1>2, <1>5, EscapeByteIs
  <2> HIDE DEF x
  <2>2. Len(x) = 2 /\ x[1] = Backslash /\ x[2] = Short[b]
    BY <2>1
  <2>3. x \in AllOfUnit
    BY <1>3, <2>1, <2>2, ShortEscapes DEF AllOfUnit, IsUnit, IsShort
  <2>4. Reads(x \o e, Then(Bytes(<<Unescaped[x[2]]>>), Bytes(t)))
    BY <1>3, <2>1, <2>2, ReadsShort
  <2>5. Then(Bytes(<<Unescaped[x[2]]>>), Bytes(t)) = Bytes(c \o t)
    BY <1>2, <2>1, <2>2, ThenIs
  <2> QED
    BY <1>4, <2>3, <2>4, <2>5 DEF Written, x
<1>6. CASE b \notin DOMAIN Short /\ b < 32
  <2> DEFINE y == <<Backslash, 117, 48, 48, HexOf(b \div 16), HexOf(b % 16)>>
  <2>1. x = y
    BY <1>2, <1>6, EscapeByteIs
  <2>2. IsLong(y) /\ Hex4(y) = b
    BY <1>2, <1>6, HexBack
  <2> HIDE DEF x, y
  <2>3. IsLong(x) /\ Hex4(x) = b
    BY <2>1, <2>2
  <2>4. x \in AllOfUnit
    BY <1>3, <2>3 DEF AllOfUnit, IsUnit
  <2>5. b \in Nat /\ b <= 65535 /\ b \notin HighSurrogate /\ b \notin LowSurrogate
    <3>1. b \in Nat
      BY <1>2 DEF Byte
    <3>2. ASSUME NEW k \in Nat, k < 32 PROVE k <= 65535 /\ k \notin HighSurrogate /\ k \notin LowSurrogate
      <4>1. k <= 65535
        BY SMT, <3>2
      <4>2. k \notin HighSurrogate
        BY SMT, <3>2 DEF HighSurrogate
      <4>3. k \notin LowSurrogate
        BY SMT, <3>2 DEF LowSurrogate
      <4> QED
        BY <4>1, <4>2, <4>3
    <3> QED
      BY <1>6, <3>1, <3>2
  <2>6. Reads(x \o e, Then(ToUnicode(b, 0), Bytes(t)))
    BY <1>3, <2>3, <2>5, ReadsLong
  <2>7. ToUnicode(b, 0) = Bytes(Encoded(b))
    BY <2>5, ToUnicodeIs
  <2>8. Encoded(b) = c
    BY <1>2 DEF Encoded
  <2>9. Reads(x \o e, Bytes(c \o t))
    BY <2>6, <2>7, <2>8, ThenIs
  <2> QED
    BY <1>4, <2>4, <2>9 DEF Written, x
<1>7. CASE b \notin DOMAIN Short /\ ~(b < 32)
  <2>1. x = c
    BY <1>2, <1>7, EscapeByteIs
  <2>2. b \notin {Quote, Backslash}
    BY <1>2, <1>7, EscapeByteIs
  <2>3. b >= 32
    <3>1. b \in 0..255
      BY <1>2 DEF Byte
    <3> QED
      BY <1>7, <3>1
  <2>4. x \in AllOfUnit
    BY <1>1, <1>b, <2>1, <2>2, <2>3 DEF AllOfUnit, IsUnit, IsPlain
  <2>5. Reads(c \o e, Then(Bytes(c), Bytes(t)))
    BY <1>2, <2>2, ReadsByte
  <2>6. Reads(x \o e, Bytes(c \o t))
    BY <2>1, <2>5, ThenIs
  <2> QED
    BY <1>4, <2>4, <2>6 DEF Written
<1> QED
  BY <1>5, <1>6, <1>7

\* And of every other one.
LEMMA EscapedMore ==
    ASSUME NEW t \in Seq(Byte), NEW e \in Seq(Byte), Escapes(t, e), Reads(e, Bytes(t)), NEW c \in AllOfCharacter
    PROVE  \E x : Written(c, x, t, e)
<1>1. c \in Seq(Byte) /\ IsCharacter(c) /\ Len(c) \in 1..4
  BY AsciiOrNot
<1>2. CASE Len(c) = 1
  BY <1>2, WritesAscii
<1>3. CASE Len(c) # 1
  <2>1. \A i \in 1..Len(c) : c[i] >= 128
    BY <1>3, AsciiOrNot
  <2>2. 1 \in 1..Len(c)
    <3>1. \A n \in 1..4 : 1 \in 1..n
      OBVIOUS
    <3> QED
      BY <1>1, <3>1
  <2>3. \A i \in 1..Len(c) : c[i] \in Byte
    BY <1>1
  <2>4. \A b \in Byte : b >= 128 => b >= 32 /\ b \notin {Quote, Backslash} /\ b # Backslash
    BY DEF Byte, Quote, Backslash
  <2>5. c \in AllOfUnit
    <3>1. c[1] >= 32 /\ c[1] \notin {Quote, Backslash}
      BY <2>1, <2>2, <2>3, <2>4
    <3> QED
      BY <1>1, <3>1 DEF AllOfUnit, IsUnit, IsPlain
  <2>6. Escapes(c \o t, c \o e)
    BY <1>1, <2>1, EscapesMany
  <2>7. Reads(c \o e, Then(Bytes(c), Bytes(t)))
    <3>1. Bytes(t) \in Results
      BY DEF Results
    <3>2. \A i \in 1..Len(c) : c[i] # Backslash
      BY <2>1, <2>3, <2>4
    <3> QED
      BY <1>1, <3>1, <3>2, ReadsMany
  <2>8. Reads(c \o e, Bytes(c \o t))
    BY <2>7, ThenIs
  <2>9. Written(c, c, t, e)
    BY <2>5, <2>6, <2>8 DEF Written
  <2> QED
    BY <2>9
<1> QED
  BY <1>2, <1>3

\* The code point of a character is a natural number, and no surrogate.
LEMMA PointIn == ASSUME NEW c \in AllOfCharacter
                 PROVE  Point(c) \in Nat /\ Point(c) \notin HighSurrogate /\ Point(c) \notin LowSurrogate
<1>1. c \in Seq(Byte) /\ Len(c) \in 1..4 /\ IsCharacter(c)
  BY AsciiOrNot
<1>2. Point(c) >= Least(Len(c)) /\ Point(c) \notin HighSurrogate /\ Point(c) \notin LowSurrogate
  BY <1>1 DEF IsCharacter
<1>3. \A n \in 1..4 : Least(n) \in Nat
  <2>1. Least(1) = 0 /\ Least(2) = 128 /\ Least(3) = 2048 /\ Least(4) = 65536
    BY SMT DEF Least
  <2>2. \A n \in 1..4 : n = 1 \/ n = 2 \/ n = 3 \/ n = 4
    OBVIOUS
  <2>3. Least(1) \in Nat /\ Least(2) \in Nat /\ Least(3) \in Nat /\ Least(4) \in Nat
    BY SMT, <2>1
  <2> QED
    BY <2>2, <2>3
<1>4. \A i \in 1..Len(c) : c[i] \in Int
  <2>1. \A b \in Byte : b \in Int
    BY DEF Byte
  <2> QED
    BY <1>1, <2>1
<1>5. Point(c) \in Int
  <2>1. Len(c) = 1 \/ Len(c) = 2 \/ Len(c) = 3 \/ Len(c) = 4
    BY <1>1
  <2>2. CASE Len(c) = 1
    <3>1. c[1] \in Int
      BY <1>4, <2>2
    <3>2. Point(c) = c[1] - 0
      BY <1>1, <2>2, PointIs
    <3> QED
      BY <3>1, <3>2
  <2>3. CASE Len(c) = 2
    <3>1. c[1] \in Int /\ c[2] \in Int
      BY <1>4, <2>3
    <3>2. Point(c) = 64 * (c[1] - 192) + (c[2] - 128)
      BY <1>1, <2>3, PointIs
    <3> QED
      BY <3>1, <3>2
  <2>4. CASE Len(c) = 3
    <3>1. c[1] \in Int /\ c[2] \in Int /\ c[3] \in Int
      BY <1>4, <2>4
    <3>2. Point(c) = 64 * (64 * (c[1] - 224) + (c[2] - 128)) + (c[3] - 128)
      BY <1>1, <2>4, PointIs
    <3> QED
      BY <3>1, <3>2
  <2>5. CASE Len(c) = 4
    <3>1. c[1] \in Int /\ c[2] \in Int /\ c[3] \in Int /\ c[4] \in Int
      BY <1>4, <2>5
    <3>2. Point(c) = 64 * (64 * (64 * (c[1] - 240) + (c[2] - 128)) + (c[3] - 128)) + (c[4] - 128)
      BY <1>1, <2>5, PointIs
    <3> QED
      BY <3>1, <3>2
  <2> QED
    BY <2>1, <2>2, <2>3, <2>4, <2>5
<1>6. Point(c) \in Nat
  <2> DEFINE x == Point(c)  y == Least(Len(c))
  <2>1. x \in Int /\ y \in Nat /\ x >= y
    BY <1>1, <1>2, <1>3, <1>5
  <2> HIDE DEF x, y
  <2>2. x \in Nat
    BY <2>1
  <2> QED
    BY <2>2 DEF x
<1> QED
  BY <1>2, <1>6

\* What a short escape stands for is ASCII.
LEMMA UnescapedIn == \A b \in Simple : Unescaped[b] \in Byte /\ Unescaped[b] < 128
<1> SUFFICES ASSUME NEW b \in Simple PROVE Unescaped[b] \in Byte /\ Unescaped[b] < 128
  OBVIOUS
<1>1. b = 34 \/ b = 47 \/ b = 92 \/ b = 98 \/ b = 102 \/ b = 110 \/ b = 114 \/ b = 116
  BY DEF Simple, Quote, Backslash
<1>2. Unescaped[b] = CASE b = 98 -> 8 [] b = 102 -> 12 [] b = 110 -> 10 [] b = 114 -> 13 [] b = 116 -> 9 [] OTHER -> b
  BY DEF Unescaped, Simple
<1>3. Unescaped[b] \in {8, 9, 10, 12, 13, 34, 47, 92}
  BY SMT, <1>1, <1>2
<1>4. \A n \in {8, 9, 10, 12, 13, 34, 47, 92} : n \in Byte /\ n < 128
  BY DEF Byte
<1> QED
  BY <1>3, <1>4

\* The code point of each kind of unit.
LEMMA UnitPointIs ==
    ASSUME NEW d \in AllOfUnit
    PROVE  /\ d \in Seq(Byte) /\ (IsPlain(d) \/ IsShort(d) \/ IsLong(d)) /\ UnitPoint(d) \in Nat
           /\ IsPlain(d) => UnitPoint(d) = Point(d) /\ d \in AllOfCharacter /\ d[1] # Backslash
           /\ IsShort(d) => UnitPoint(d) = Unescaped[d[2]] /\ Len(d) = 2 /\ d[1] = Backslash /\ d[2] \in Simple
           /\ IsLong(d) => UnitPoint(d) = Hex4(d) /\ Hex4(d) \in Nat /\ Hex4(d) <= 65535
<1>1. d \in Seq(Byte) /\ (IsPlain(d) \/ IsShort(d) \/ IsLong(d))
  BY DEF AllOfUnit, IsUnit
<1>2. IsPlain(d) => UnitPoint(d) = Point(d) /\ d \in AllOfCharacter /\ d[1] # Backslash
  BY <1>1 DEF UnitPoint, IsPlain, AllOfCharacter
<1>3. IsShort(d) => Len(d) = 2 /\ d[1] = Backslash /\ d[2] \in Simple /\ ~IsPlain(d)
  BY ShortEscapes DEF IsShort, IsPlain
<1>4. IsLong(d) => Len(d) = 6 /\ d[1] = Backslash /\ ~IsPlain(d) /\ ~IsShort(d)
  <2>1. 6 # 2
    OBVIOUS
  <2> QED
    BY <2>1 DEF IsLong, IsPlain, IsShort
<1>5. IsShort(d) => UnitPoint(d) = Unescaped[d[2]]
  BY <1>3 DEF UnitPoint
<1>6. IsLong(d) => UnitPoint(d) = Hex4(d) /\ Hex4(d) \in Nat /\ Hex4(d) <= 65535
  <2>1. IsLong(d) => UnitPoint(d) = Hex4(d)
    BY <1>4 DEF UnitPoint, Hex4
  <2> QED
    BY <1>1, <2>1, Hex4In
<1>7. UnitPoint(d) \in Nat
  <2>1. CASE IsPlain(d)
    BY <1>2, <2>1, PointIn
  <2>2. CASE IsShort(d)
    <3>1. \A b \in Byte : b \in Nat
      BY DEF Byte
    <3> QED
      BY <1>3, <1>5, <2>2, <3>1, UnescapedIn
  <2>3. CASE IsLong(d)
    BY <1>6, <2>3
  <2> QED
    BY <1>1, <2>1, <2>2, <2>3
<1> QED
  BY <1>1, <1>2, <1>3, <1>5, <1>6, <1>7

\* An ASCII code point is a character of one byte.
LEMMA AsciiIs == ASSUME NEW b \in Byte, b < 128
                 PROVE  b \notin HighSurrogate /\ b \notin LowSurrogate /\ <<b>> \in AllOfCharacter /\ Point(<<b>>) = b
<1>1. b \in Nat
  BY DEF Byte
<1>2. b \notin HighSurrogate
  BY SMT, <1>1 DEF HighSurrogate
<1>3. b \notin LowSurrogate
  BY SMT, <1>1 DEF LowSurrogate
<1>4. b <= 65535
  BY SMT, <1>1
<1>5. b \in Points
  BY <1>1, <1>2, <1>3, <1>4, ToUnicodeIs
<1>6. Encoded(b) = <<b>>
  BY DEF Encoded
<1> QED
  BY <1>2, <1>3, <1>5, <1>6, EncodedIs

\* Only a long escape is a surrogate.
LEMMA SurrogateLong ==
    ASSUME NEW d \in AllOfUnit, UnitPoint(d) \in HighSurrogate \/ UnitPoint(d) \in LowSurrogate
    PROVE  IsLong(d) /\ UnitPoint(d) = Hex4(d)
<1>1. CASE IsPlain(d)
  BY <1>1, UnitPointIs, PointIn
<1>2. CASE IsShort(d)
  <2>1. UnitPoint(d) \in Byte /\ UnitPoint(d) < 128
    BY <1>2, UnitPointIs, UnescapedIn
  <2> QED
    BY <2>1, AsciiIs
<1>3. CASE IsLong(d)
  BY <1>3, UnitPointIs
<1> QED
  BY <1>1, <1>2, <1>3, UnitPointIs

\* A unit that is none is read as the character of its code point.
Becomes(d, c) ==
    /\ c \in AllOfCharacter /\ Point(c) = UnitPoint(d)
    /\ \A t \in Seq(Byte) : \A r \in Results : Reads(t, r) => Reads(d \o t, Then(Bytes(c), r))

\* There is such a character for every such unit.
LEMMA UnitMakes ==
    ASSUME NEW d \in AllOfUnit, UnitPoint(d) \notin HighSurrogate, UnitPoint(d) \notin LowSurrogate
    PROVE  \E c : Becomes(d, c)
<1>0. d \in Seq(Byte)
  BY UnitPointIs
<1>1. CASE IsPlain(d)
  <2>1. d \in AllOfCharacter /\ UnitPoint(d) = Point(d) /\ d[1] # Backslash
    BY <1>1, UnitPointIs
  <2>2. \A i \in 1..Len(d) : d[i] # Backslash
    <3>1. CASE Len(d) = 1
      <4>1. \A i \in 1..Len(d) : i = 1
        BY <3>1
      <4> QED
        BY <2>1, <4>1
    <3>2. CASE Len(d) # 1
      <4>1. \A i \in 1..Len(d) : d[i] >= 128
        BY <2>1, <3>2, AsciiOrNot
      <4>2. ~(Backslash >= 128)
        BY DEF Backslash
      <4> QED
        BY <4>1, <4>2
    <3> QED
      BY <3>1, <3>2
  <2>3. Becomes(d, d)
    BY <1>0, <2>1, <2>2, ReadsMany DEF Becomes
  <2> QED
    BY <2>3
<1>2. CASE IsShort(d)
  <2> DEFINE b == Unescaped[d[2]]
  <2>1. UnitPoint(d) = b /\ Len(d) = 2 /\ d[1] = Backslash /\ d[2] \in Simple
    BY <1>2, UnitPointIs
  <2>2. b \in Byte /\ b < 128
    BY <2>1, UnescapedIn
  <2>3. <<b>> \in AllOfCharacter /\ Point(<<b>>) = UnitPoint(d)
    BY <2>1, <2>2, AsciiIs
  <2>4. \A t \in Seq(Byte) : \A r \in Results : Reads(t, r) => Reads(d \o t, Then(Bytes(<<b>>), r))
    BY <1>0, <2>1, ReadsShort
  <2> HIDE DEF b
  <2>5. Becomes(d, <<b>>)
    BY <2>3, <2>4 DEF Becomes
  <2> QED
    BY <2>5
<1>3. CASE IsLong(d)
  <2> DEFINE v == Hex4(d)  c == Encoded(v)
  <2>1. UnitPoint(d) = v /\ v \in Nat /\ v <= 65535 /\ v \notin HighSurrogate /\ v \notin LowSurrogate
    BY <1>3, UnitPointIs
  <2>2. v \in Points /\ ToUnicode(v, 0) = Bytes(c)
    BY <2>1, ToUnicodeIs
  <2>3. c \in AllOfCharacter /\ Point(c) = UnitPoint(d)
    BY <2>1, <2>2, EncodedIs
  <2>4. \A t \in Seq(Byte) : \A r \in Results : Reads(t, r) => Reads(d \o t, Then(ToUnicode(v, 0), r))
    BY <1>0, <1>3, <2>1, ReadsLong
  <2> HIDE DEF v, c
  <2>5. Becomes(d, c)
    BY <2>2, <2>3, <2>4 DEF Becomes
  <2> QED
    BY <2>5
<1> QED
  BY <1>1, <1>2, <1>3, UnitPointIs

\* One element more in front of a sequence.
LEMMA InFrontIs ==
    ASSUME NEW S, NEW y \in S, NEW q \in Seq(S)
    PROVE  /\ <<y>> \o q \in Seq(S) /\ Len(q) \in Nat /\ Len(<<y>> \o q) = 1 + Len(q) /\ (<<y>> \o q)[1] = y
           /\ \A i \in 1..Len(q) : (<<y>> \o q)[1 + i] = q[i]
<1> DEFINE c == <<y>>
<1>1. c \in Seq(S) /\ Len(c) = 1 /\ c[1] = y /\ 1 \in 1..1
  OBVIOUS
<1> HIDE DEF c
<1>2. /\ c \o q \in Seq(S) /\ Len(c \o q) = Len(c) + Len(q) /\ Len(q) \in Nat
      /\ (\A i \in 1..Len(c) : (c \o q)[i] = c[i])
      /\ \A i \in 1..Len(q) : (c \o q)[Len(c) + i] = q[i]
  BY <1>1, Joined
<1>3. (c \o q)[1] = y
  BY <1>1, <1>2
<1>4. /\ c \o q \in Seq(S) /\ Len(q) \in Nat /\ Len(c \o q) = 1 + Len(q) /\ (c \o q)[1] = y
      /\ \A i \in 1..Len(q) : (c \o q)[1 + i] = q[i]
  BY <1>1, <1>2, <1>3
<1> QED
  BY <1>4 DEF c

\* The code points of characters, and of units.
PointsOf(L, pts) ==
    L \in Seq(AllOfCharacter) /\ pts \in Seq(Nat) /\ Len(pts) = Len(L) /\ \A i \in 1..Len(L) : pts[i] = Point(L[i])
UnitPointsOf(L, pts) ==
    L \in Seq(AllOfUnit) /\ pts \in Seq(Nat) /\ Len(pts) = Len(L) /\ \A i \in 1..Len(L) : pts[i] = UnitPoint(L[i])

\* One more of each.
LEMMA PointsMore ==
    /\ PointsOf(<<>>, <<>>) /\ UnitPointsOf(<<>>, <<>>)
    /\ \A L, pts : \A c \in AllOfCharacter : PointsOf(L, pts) => PointsOf(<<c>> \o L, <<Point(c)>> \o pts)
    /\ \A L, pts : \A d \in AllOfUnit : UnitPointsOf(L, pts) => UnitPointsOf(<<d>> \o L, <<UnitPoint(d)>> \o pts)
<1>1. PointsOf(<<>>, <<>>) /\ UnitPointsOf(<<>>, <<>>)
  BY DEF PointsOf, UnitPointsOf
<1>2. ASSUME NEW n \in Nat, NEW i \in 1..(1 + n) PROVE i = 1 \/ \E j \in 1..n : i = 1 + j
  <2>1. CASE i # 1
    <3>1. i - 1 \in 1..n /\ i = 1 + (i - 1)
      BY <2>1
    <3> QED
      BY <3>1
  <2> QED
    BY <2>1
<1>3. ASSUME NEW L, NEW pts, NEW c \in AllOfCharacter, PointsOf(L, pts) PROVE PointsOf(<<c>> \o L, <<Point(c)>> \o pts)
  <2> DEFINE n == Len(L)  M == <<c>> \o L  q == <<Point(c)>> \o pts
  <2>1. L \in Seq(AllOfCharacter) /\ pts \in Seq(Nat) /\ Len(pts) = n /\ \A i \in 1..n : pts[i] = Point(L[i])
    BY <1>3 DEF PointsOf
  <2>2. M \in Seq(AllOfCharacter) /\ n \in Nat /\ Len(M) = 1 + n /\ M[1] = c /\ \A i \in 1..n : M[1 + i] = L[i]
    BY <2>1, InFrontIs
  <2>3. q \in Seq(Nat) /\ Len(q) = 1 + n /\ q[1] = Point(c) /\ \A i \in 1..n : q[1 + i] = pts[i]
    BY <2>1, PointIn, InFrontIs
  <2> HIDE DEF M, q, n
  <2>4. ASSUME NEW i \in 1..Len(M) PROVE q[i] = Point(M[i])
    <3>1. i = 1 \/ \E j \in 1..n : i = 1 + j
      BY <1>2, <2>2
    <3>2. CASE i = 1
      BY <2>2, <2>3, <3>2
    <3>3. ASSUME NEW j \in 1..n, i = 1 + j PROVE q[i] = Point(M[i])
      <4>1. q[i] = pts[j] /\ M[i] = L[j]
        BY <2>2, <2>3, <3>3
      <4>2. pts[j] = Point(L[j])
        BY <2>1
      <4> QED
        BY <4>1, <4>2
    <3> QED
      BY <3>1, <3>2, <3>3
  <2>5. PointsOf(M, q)
    BY <2>2, <2>3, <2>4 DEF PointsOf
  <2> QED
    BY <2>5 DEF M, q
<1>4. ASSUME NEW L, NEW pts, NEW c \in AllOfUnit, UnitPointsOf(L, pts) PROVE UnitPointsOf(<<c>> \o L, <<UnitPoint(c)>> \o pts)
  <2> DEFINE n == Len(L)  M == <<c>> \o L  q == <<UnitPoint(c)>> \o pts
  <2>1. L \in Seq(AllOfUnit) /\ pts \in Seq(Nat) /\ Len(pts) = n /\ \A i \in 1..n : pts[i] = UnitPoint(L[i])
    BY <1>4 DEF UnitPointsOf
  <2>2. M \in Seq(AllOfUnit) /\ n \in Nat /\ Len(M) = 1 + n /\ M[1] = c /\ \A i \in 1..n : M[1 + i] = L[i]
    BY <2>1, InFrontIs
  <2>3. q \in Seq(Nat) /\ Len(q) = 1 + n /\ q[1] = UnitPoint(c) /\ \A i \in 1..n : q[1 + i] = pts[i]
    <3>1. UnitPoint(c) \in Nat
      BY UnitPointIs
    <3> DEFINE x == UnitPoint(c)
    <3>2. x \in Nat
      BY <3>1
    <3> HIDE DEF x
    <3>3. <<x>> \o pts \in Seq(Nat) /\ Len(<<x>> \o pts) = 1 + n /\ (<<x>> \o pts)[1] = x /\ \A i \in 1..n : (<<x>> \o pts)[1 + i] = pts[i]
      BY <2>1, <3>2, InFrontIs
    <3> QED
      BY <3>3 DEF x
  <2> HIDE DEF M, q, n
  <2>4. ASSUME NEW i \in 1..Len(M) PROVE q[i] = UnitPoint(M[i])
    <3>1. i = 1 \/ \E j \in 1..n : i = 1 + j
      BY <1>2, <2>2
    <3>2. CASE i = 1
      BY <2>2, <2>3, <3>2
    <3>3. ASSUME NEW j \in 1..n, i = 1 + j PROVE q[i] = UnitPoint(M[i])
      <4>1. q[i] = pts[j] /\ M[i] = L[j]
        BY <2>2, <2>3, <3>3
      <4>2. pts[j] = UnitPoint(L[j])
        BY <2>1
      <4> QED
        BY <4>1, <4>2
    <3> QED
      BY <3>1, <3>2, <3>3
  <2>5. UnitPointsOf(M, q)
    BY <2>2, <2>3, <2>4 DEF UnitPointsOf
  <2> QED
    BY <2>5 DEF M, q
<1> QED
  BY <1>1, <1>3, <1>4

\* A text is the UTF-8 of code points, and what escape_string makes of it is
\* units that get_string reads as that text.
FineBy(str, out, L, e, M) ==
    /\ str \in Seq(Byte) /\ Splits(AllOfCharacter, str, L) /\ PointsOf(L, out)
    /\ e \in Seq(Byte) /\ Escapes(str, e) /\ Splits(AllOfUnit, e, M) /\ Reads(e, Bytes(str))
Fine(str, out) == \E L, e, M : FineBy(str, out, L, e, M)

\* The empty text is, and a text with a character more in front.
LEMMA FineMore ==
    /\ Fine(<<>>, <<>>)
    /\ \A str, out : \A c \in AllOfCharacter : Fine(str, out) => Fine(c \o str, <<Point(c)>> \o out)
<1>1. Fine(<<>>, <<>>)
  <2>1. <<>> \in Seq(Byte)
    OBVIOUS
  <2>2. Splits(AllOfCharacter, <<>>, <<>>) /\ Splits(AllOfUnit, <<>>, <<>>)
    BY SplitsNone
  <2>3. FineBy(<<>>, <<>>, <<>>, <<>>, <<>>)
    BY <2>1, <2>2, PointsMore, EscapesNone, ReadsNone DEF FineBy
  <2> QED
    BY <2>3 DEF Fine
<1>2. ASSUME NEW str, NEW out, NEW c \in AllOfCharacter, Fine(str, out) PROVE Fine(c \o str, <<Point(c)>> \o out)
  <2>1. PICK L, e, M : FineBy(str, out, L, e, M)
    BY <1>2 DEF Fine
  <2>2. /\ str \in Seq(Byte) /\ Splits(AllOfCharacter, str, L) /\ PointsOf(L, out)
        /\ e \in Seq(Byte) /\ Escapes(str, e) /\ Splits(AllOfUnit, e, M) /\ Reads(e, Bytes(str))
    BY <2>1 DEF FineBy
  <2>3. PICK x : Written(c, x, str, e)
    BY <2>2, EscapedMore
  <2>4. x \in AllOfUnit /\ Escapes(c \o str, x \o e) /\ Reads(x \o e, Bytes(c \o str))
    BY <2>3 DEF Written
  <2>5. c \in Seq(Byte) /\ x \in Seq(Byte)
    BY <2>4, AsciiOrNot, UnitPointIs
  <2>6. c \o str \in Seq(Byte) /\ x \o e \in Seq(Byte)
    BY <2>2, <2>5, Joined
  <2>7. AllOfCharacter \in Kinds /\ AllOfUnit \in Kinds
    BY DEF Kinds
  <2>8. Splits(AllOfCharacter, c \o str, <<c>> \o L)
    BY <2>2, <2>7, SplitsMore
  <2>9. Splits(AllOfUnit, x \o e, <<x>> \o M)
    BY <2>2, <2>4, <2>7, SplitsMore
  <2>10. PointsOf(<<c>> \o L, <<Point(c)>> \o out)
    BY <2>2, PointsMore
  <2>11. FineBy(c \o str, <<Point(c)>> \o out, <<c>> \o L, x \o e, <<x>> \o M)
    BY <2>4, <2>6, <2>8, <2>9, <2>10 DEF FineBy
  <2> QED
    BY <2>11 DEF Fine
<1> QED
  BY <1>1, <1>2

\* What get_string makes of t is what its code points say: it throws if a
\* surrogate has no partner, and gives their UTF-8 otherwise.
AgreesBy(t, pts, str, out) == Reads(t, Bytes(str)) /\ Joins(pts, PairsOf(out)) /\ Fine(str, out)
Agrees(t, pts) ==
    \/ Reads(t, Thrown) /\ Joins(pts, NoPairs)
    \/ \E str, out : AgreesBy(t, pts, str, out)

\* Then some result is read.
LEMMA AgreesReads == ASSUME NEW t, NEW pts, Agrees(t, pts) PROVE \E r \in Results : Reads(t, r)
<1>1. CASE Reads(t, Thrown)
  BY <1>1 DEF Results
<1>2. ASSUME NEW str, NEW out, AgreesBy(t, pts, str, out) PROVE \E r \in Results : Reads(t, r)
  <2>1. str \in Seq(Byte) /\ Reads(t, Bytes(str))
    BY <1>2 DEF AgreesBy, Fine, FineBy
  <2> QED
    BY <2>1 DEF Results
<1> QED
  BY <1>1, <1>2 DEF Agrees

\* One character more in front: of a unit, or of a pair of them.
LEMMA AgreesMore ==
    ASSUME NEW t \in Seq(Byte), NEW pts \in Seq(Nat), Agrees(t, pts), NEW u, NEW c \in AllOfCharacter, NEW qts,
           \A r \in Results : Reads(t, r) => Reads(u, Then(Bytes(c), r)),
           \A P : Joins(pts, P) => Joins(qts, InFront(Point(c), P))
    PROVE  Agrees(u, qts)
<1>1. CASE Reads(t, Thrown) /\ Joins(pts, NoPairs)
  <2>1. Reads(u, Then(Bytes(c), Thrown))
    BY <1>1 DEF Results
  <2>2. Joins(qts, InFront(Point(c), NoPairs))
    BY <1>1
  <2>3. InFront(Point(c), NoPairs) = NoPairs
    BY DEF InFront, NoPairs
  <2> QED
    BY <2>1, <2>2, <2>3, ThenIs DEF Agrees
<1>2. ASSUME NEW str, NEW out, AgreesBy(t, pts, str, out) PROVE Agrees(u, qts)
  <2>1. Reads(t, Bytes(str)) /\ Joins(pts, PairsOf(out)) /\ Fine(str, out) /\ str \in Seq(Byte)
    BY <1>2 DEF AgreesBy, Fine, FineBy
  <2>2. Reads(u, Then(Bytes(c), Bytes(str)))
    BY <2>1 DEF Results
  <2>3. Joins(qts, InFront(Point(c), PairsOf(out)))
    BY <2>1
  <2>4. InFront(Point(c), PairsOf(out)) = PairsOf(<<Point(c)>> \o out)
    BY DEF InFront, PairsOf
  <2>5. Fine(c \o str, <<Point(c)>> \o out)
    BY <2>1, FineMore
  <2>6. AgreesBy(u, qts, c \o str, <<Point(c)>> \o out)
    BY <2>2, <2>3, <2>4, <2>5, ThenIs DEF AgreesBy
  <2> QED
    BY <2>6 DEF Agrees
<1> QED
  BY <1>1, <1>2 DEF Agrees

\* Units that agree with their code points, in each of which one may begin.
AgreesFrom(t, pts) ==
    /\ t \in Seq(Byte) /\ pts \in Seq(Nat) /\ Agrees(t, pts)
    /\ \/ t = <<>> /\ pts = <<>>
       \/ \E d \in AllOfUnit : \E v \in Seq(Byte) : \E q \in Seq(Nat) :
             t = d \o v /\ pts = <<UnitPoint(d)>> \o q /\ Agrees(v, q)

\* A high surrogate in front of what follows it.
LEMMA AgreesFromHigh ==
    ASSUME NEW t, NEW pts, AgreesFrom(t, pts), NEW d \in AllOfUnit, UnitPoint(d) \in HighSurrogate
    PROVE  Agrees(d \o t, <<UnitPoint(d)>> \o pts)
<1>1. d \in Seq(Byte) /\ IsLong(d) /\ UnitPoint(d) = Hex4(d) /\ t \in Seq(Byte) /\ pts \in Seq(Nat)
  BY UnitPointIs, SurrogateLong DEF AgreesFrom
<1> DEFINE x == UnitPoint(d)
<1>2. x \in HighSurrogate /\ x = Hex4(d)
  BY <1>1
<1> HIDE DEF x
<1>3. CASE t = <<>> /\ pts = <<>>
  <2>1. Reads(d \o <<>>, Thrown)
    BY <1>1, <1>2, ReadsAlone
  <2>2. Joins(<<x>> \o <<>>, NoPairs)
    BY <1>2, JoinsLast
  <2> QED
    BY <1>3, <2>1, <2>2 DEF Agrees, x
<1>4. ASSUME NEW e \in AllOfUnit, NEW v \in Seq(Byte), NEW q \in Seq(Nat), t = e \o v, pts = <<UnitPoint(e)>> \o q, Agrees(v, q)
      PROVE  Agrees(d \o t, <<x>> \o pts)
  <2> DEFINE y == UnitPoint(e)
  <2>1. y \in Nat /\ e \in Seq(Byte)
    BY UnitPointIs
  <2>2. CASE y \notin LowSurrogate
    <3>1. Joins(<<x>> \o (<<y>> \o q), NoPairs)
      BY <1>2, <2>1, <2>2, JoinsTwo
    <3>2. Reads(d \o (e \o v), Thrown)
      <4>1. CASE IsLong(e)
        <5>1. Hex4(e) = y
          BY <4>1, UnitPointIs
        <5>2. PICK r \in Results : Reads(v, r)
          BY <1>4, AgreesReads
        <5>3. Reads(d \o (e \o v), Then(ToUnicode(Hex4(d), Hex4(e)), r))
          BY <1>1, <1>2, <2>1, <4>1, <5>2, ReadsPair
        <5>4. ToUnicode(Hex4(d), Hex4(e)) = Thrown
          BY <1>2, <2>2, <5>1, ToUnicodeIs
        <5> QED
          BY <5>3, <5>4, ThenIs
      <4>2. CASE ~IsLong(e)
        BY <1>1, <1>2, <4>2, ReadsAlone
      <4> QED
        BY <4>1, <4>2
    <3> QED
      BY <1>4, <3>1, <3>2 DEF Agrees
  <2>3. CASE y \in LowSurrogate
    <3> DEFINE b == Both(x, y)  c == Encoded(b)
    <3>1. IsLong(e) /\ Hex4(e) = y
      BY <2>3, SurrogateLong
    <3>2. b \in Points /\ ToUnicode(x, y) = Bytes(c)
      BY <1>2, <2>3, ToUnicodeIs
    <3>3. c \in AllOfCharacter /\ Point(c) = b
      BY <3>2, EncodedIs
    <3> HIDE DEF c, y
    <3>4. ASSUME NEW r \in Results, Reads(v, r) PROVE Reads(d \o (e \o v), Then(Bytes(c), r))
      <4>1. Reads(d \o (e \o v), Then(ToUnicode(Hex4(d), Hex4(e)), r))
        BY <1>1, <1>2, <2>1, <3>1, <3>4, ReadsPair
      <4> QED
        BY <1>2, <3>1, <3>2, <4>1
    <3>5. ASSUME NEW P, Joins(q, P) PROVE Joins(<<x>> \o (<<y>> \o q), InFront(Point(c), P))
      BY <1>2, <2>1, <2>3, <3>3, <3>5, JoinsTwo
    <3> HIDE DEF b
    <3>6. Agrees(d \o (e \o v), <<x>> \o (<<y>> \o q))
      BY <1>4, <3>3, <3>4, <3>5, AgreesMore
    <3> QED
      BY <1>4, <3>6 DEF y
  <2> QED
    BY <2>2, <2>3
<1> QED
  BY <1>3, <1>4 DEF AgreesFrom, x

\* One unit more in front.
LEMMA AgreesFromMore ==
    /\ AgreesFrom(<<>>, <<>>)
    /\ \A t, pts : \A d \in AllOfUnit : AgreesFrom(t, pts) => AgreesFrom(d \o t, <<UnitPoint(d)>> \o pts)
<1>1. AgreesFrom(<<>>, <<>>)
  <2>1. AgreesBy(<<>>, <<>>, <<>>, <<>>)
    BY ReadsNone, JoinsNone, FineMore DEF AgreesBy
  <2>2. <<>> \in Seq(Byte) /\ <<>> \in Seq(Nat)
    OBVIOUS
  <2> QED
    BY <2>1, <2>2 DEF AgreesFrom, Agrees
<1>2. ASSUME NEW t, NEW pts, NEW d \in AllOfUnit, AgreesFrom(t, pts) PROVE AgreesFrom(d \o t, <<UnitPoint(d)>> \o pts)
  <2> DEFINE x == UnitPoint(d)
  <2>1. d \in Seq(Byte) /\ x \in Nat /\ t \in Seq(Byte) /\ pts \in Seq(Nat) /\ Agrees(t, pts)
    BY <1>2, UnitPointIs DEF AgreesFrom
  <2>2. Agrees(d \o t, <<x>> \o pts)
    <3>1. CASE x \in HighSurrogate
      BY <1>2, <3>1, AgreesFromHigh
    <3>2. CASE x \in LowSurrogate
      <4>1. IsLong(d) /\ Hex4(d) = x
        BY <3>2, SurrogateLong
      <4>2. Reads(d \o t, Thrown)
        BY <2>1, <3>2, <4>1, ReadsLow
      <4>3. Joins(<<x>> \o pts, NoPairs)
        BY <2>1, <3>2, JoinsLow
      <4> QED
        BY <4>2, <4>3 DEF Agrees
    <3>3. CASE x \notin HighSurrogate /\ x \notin LowSurrogate
      <4>1. PICK c : Becomes(d, c)
        BY <3>3, UnitMakes
      <4>2. c \in AllOfCharacter /\ Point(c) = x /\ \A r \in Results : Reads(t, r) => Reads(d \o t, Then(Bytes(c), r))
        BY <2>1, <4>1 DEF Becomes
      <4> HIDE DEF x
      <4>3. \A P : Joins(pts, P) => Joins(<<x>> \o pts, InFront(Point(c), P))
        BY <2>1, <3>3, <4>2, JoinsOne
      <4> QED
        BY <2>1, <4>2, <4>3, AgreesMore
    <3> QED
      BY <3>1, <3>2, <3>3
  <2>3. d \o t \in Seq(Byte)
    BY <2>1, Joined
  <2>4. <<x>> \o pts \in Seq(Nat)
    BY <2>1, InFrontIs
  <2> QED
    BY <2>1, <2>2, <2>3, <2>4 DEF AgreesFrom
<1> QED
  BY <1>1, <1>2

\* What lies behind the end of a text is nothing, and what lies behind a place in it
\* begins with what lies up to a later one.
LEMMA TailIs ==
    ASSUME NEW u \in Seq(Byte)
    PROVE  /\ SubSeq(u, Len(u) + 1, Len(u)) = <<>> /\ SubSeq(u, 1, Len(u)) = u
           /\ \A i \in 1..Len(u) : \A e \in i..Len(u) :
                 SubSeq(u, i, Len(u)) = SubSeq(u, i, e) \o SubSeq(u, e + 1, Len(u))
<1>1. SubSeq(u, Len(u) + 1, Len(u)) = <<>>
  <2> DEFINE n == Len(u)  v == SubSeq(u, n + 1, n)
  <2>1. n \in Nat /\ n <= Len(u) /\ n <= n /\ n - n = 0
    OBVIOUS
  <2>2. v \in Seq(Byte) /\ Len(v) = 0
    BY <2>1, SliceIs
  <2> HIDE DEF v
  <2>3. v = <<>>
    BY <2>2
  <2> QED
    BY <2>3 DEF v
<1>2. SubSeq(u, 1, Len(u)) = u
  BY SubSeqFull
<1>3. ASSUME NEW i \in 1..Len(u), NEW e \in i..Len(u)
      PROVE  SubSeq(u, i, Len(u)) = SubSeq(u, i, e) \o SubSeq(u, e + 1, Len(u))
  <2>1. i \in 1..(Len(u) + 1) /\ e \in (i - 1)..Len(u) /\ Len(u) \in e..Len(u)
    OBVIOUS
  <2> QED
    BY <2>1, ConcatAdjacentSubSeq
<1> QED
  BY <1>1, <1>2, <1>3

\* The units from a position on agree with their code points.
UnitsAgree(f, u, i) == \E pts : UnitPointsOf(f[i].list, pts) /\ AgreesFrom(SubSeq(u, i, Len(u)), pts)

\* So do those from each position on, as far as the bytes behind it split.
LEMMA UnitsFollow ==
    ASSUME NEW u \in Seq(Byte), NEW f, AllUnits(f, u, AllOfUnit, 1)
    PROVE  \A i \in 1..(Len(u) + 1) : f[i].ok => UnitsAgree(f, u, i)
<1> DEFINE n == Len(u)
           N == {k \in Nat : \A i \in 1..(n + 1) : i + k >= n + 1 /\ f[i].ok => UnitsAgree(f, u, i)}
<1>0. n \in Nat /\ \A i \in 1..(n + 1) : f[i] = UnitsFrom(f, u, AllOfUnit, i)
  BY DEF AllUnits
<1>1. UnitsAgree(f, u, n + 1)
  <2>1. n + 1 \in 1..(n + 1)
    BY <1>0
  <2>2. f[n + 1] = UnitsFrom(f, u, AllOfUnit, n + 1)
    BY <1>0, <2>1
  <2>3. f[n + 1].list = <<>>
    BY <2>2 DEF UnitsFrom
  <2>4. SubSeq(u, n + 1, n) = <<>>
    BY TailIs
  <2> QED
    BY <2>3, <2>4, PointsMore, AgreesFromMore DEF UnitsAgree
<1>2. 0 \in N
  <2> SUFFICES ASSUME NEW i \in 1..(n + 1), i + 0 >= n + 1 PROVE UnitsAgree(f, u, i)
    OBVIOUS
  <2>1. i = n + 1
    BY <1>0
  <2> QED
    BY <1>1, <2>1
<1>3. ASSUME NEW k \in Nat, k \in N PROVE k + 1 \in N
  <2> SUFFICES ASSUME NEW i \in 1..(n + 1), i + (k + 1) >= n + 1, f[i].ok PROVE UnitsAgree(f, u, i)
    OBVIOUS
  <2>1. CASE i = n + 1
    BY <1>1, <2>1
  <2>2. CASE i # n + 1
    <3> DEFINE E == UnitEnds(f, u, AllOfUnit, i)
    <3>1. i \in 1..n
      BY <1>0, <2>2
    <3>2. f[i] = UnitsFrom(f, u, AllOfUnit, i)
      BY <1>0
    <3>a. f[i] = IF E = {} THEN [ok |-> FALSE, list |-> <<>>]
                 ELSE [ok |-> TRUE, list |-> <<SubSeq(u, i, Min(E))>> \o f[Min(E) + 1].list]
      BY <2>2, <3>2 DEF UnitsFrom
    <3>3. E # {}
      <4> HIDE DEF E
      <4>1. ASSUME E = {} PROVE FALSE
        <5>1. f[i] = [ok |-> FALSE, list |-> <<>>]
          BY <3>a, <4>1
        <5>2. f[i].ok = FALSE
          BY <5>1
        <5> QED
          BY <5>2
      <4> QED
        BY <4>1
    <3>4. E \subseteq i..n /\ E \subseteq Nat
      <4>1. E \subseteq i..n
        BY <3>1, UnitEndsIn
      <4> HIDE DEF E
      <4>2. \A j \in i..n : j \in Nat
        BY <1>0, <3>1
      <4> QED
        BY <4>1, <4>2
    <3> DEFINE e == Min(E)  d == SubSeq(u, i, e)
    <3>5. e \in E
      <4> HIDE DEF E
      <4> QED
        BY <3>3, <3>4, MinIs
    <3>6. f[i].list = <<d>> \o f[e + 1].list
      <4> HIDE DEF E
      <4>1. f[i] = [ok |-> TRUE, list |-> <<d>> \o f[e + 1].list]
        BY <3>3, <3>a
      <4> QED
        BY <4>1
    <3> HIDE DEF e
    <3>7. e \in i..n
      BY <3>4, <3>5
    <3>8. d \in AllOfUnit /\ f[e + 1].ok
      BY <3>5 DEF UnitEnds
    <3>9. e + 1 \in 1..(n + 1) /\ (e + 1) + k >= n + 1
      BY <1>0, <3>1, <3>7
    <3>10. UnitsAgree(f, u, e + 1)
      BY <1>3, <3>8, <3>9
    <3>11. PICK pts : UnitPointsOf(f[e + 1].list, pts) /\ AgreesFrom(SubSeq(u, e + 1, n), pts)
      BY <3>10 DEF UnitsAgree
    <3>12. SubSeq(u, i, n) = d \o SubSeq(u, e + 1, n)
      BY <3>1, <3>7, TailIs
    <3> HIDE DEF d
    <3>13. UnitPointsOf(f[i].list, <<UnitPoint(d)>> \o pts)
      BY <3>6, <3>8, <3>11, PointsMore
    <3>14. AgreesFrom(SubSeq(u, i, n), <<UnitPoint(d)>> \o pts)
      BY <3>8, <3>11, <3>12, AgreesFromMore
    <3> QED
      BY <3>13, <3>14 DEF UnitsAgree
  <2> QED
    BY <2>1, <2>2
<1>4. Nat \subseteq N
  <2> HIDE DEF N
  <2> QED
    BY <1>2, <1>3, CountingUp
<1>5. ASSUME NEW i \in 1..(n + 1), f[i].ok PROVE UnitsAgree(f, u, i)
  <2>1. n + 1 \in N
    <3>1. n + 1 \in Nat
      BY <1>0
    <3> HIDE DEF N
    <3> QED
      BY <1>4, <3>1
  <2>2. i + (n + 1) >= n + 1
    BY <1>0
  <2> QED
    BY <1>5, <2>1, <2>2
<1> QED
  BY <1>5

\* What is inside of the quotes of a token.
LEMMA InsideIs ==
    ASSUME NEW s \in Seq(Byte), Len(s) >= 2
    PROVE  Inside(s) \in Seq(Byte) /\ Behind(s, 1, Inside(s), 1) /\ Len(s) \in Nat
<1> DEFINE n == Len(s)  m == 1  e == n - 1  v == SubSeq(s, m + 1, e)
<1>1. n \in Nat /\ m \in Nat /\ e \in Nat /\ m <= e /\ e <= Len(s) /\ n = m + (e - m) + 1
  OBVIOUS
<1>2. Inside(s) = v
  <2>1. m + 1 = 2
    OBVIOUS
  <2> QED
    BY <2>1 DEF Inside
<1> HIDE DEF m, e
<1>3. v \in Seq(Byte) /\ Len(v) = e - m /\ \A k \in 1..(e - m) : v[k] = s[m + k]
  BY <1>1, SliceIs
<1> HIDE DEF v
<1>4. Behind(s, m, v, 1)
  BY <1>1, <1>3 DEF Behind
<1> QED
  BY <1>1, <1>2, <1>3, <1>4 DEF m

\* get_string makes of a token what it reads of its inside.
LEMMA GetsIt ==
    ASSUME NEW s \in Seq(Byte), NEW t, Behind(s, 1, t, 1), Len(s) >= 2, s[Len(s)] = Quote, NEW r, Reads(t, r)
    PROVE  GetString(s) = r
<1>1. PICK g : AllRest(g, s, 2) /\ GetString(s) = g[2]
  BY GetStringIs
<1>2. 1 \in Nat /\ 1 >= 1 /\ 1 + 1 = 2
  OBVIOUS
<1>3. g[1 + 1] = r
  BY <1>1, <1>2 DEF Reads
<1> QED
  BY <1>1, <1>2, <1>3

\* What escape_string writes, with its quotes.
LEMMA QuotedIs ==
    ASSUME NEW e \in Seq(Byte)
    PROVE  LET q == <<Quote>> \o e \o <<Quote>> IN
           /\ q \in Seq(Byte) /\ Len(q) >= 2 /\ q[1] = Quote /\ q[Len(q)] = Quote /\ Behind(q, 1, e, 1) /\ Inside(q) = e
<1> DEFINE b == <<Quote>>  c == b \o e  q == c \o b  n == Len(e)
<1>1. b \in Seq(Byte) /\ Len(b) = 1 /\ b[1] = Quote
  <2>1. Quote \in Byte
    BY DEF Quote, Byte
  <2> QED
    BY <2>1
<1> HIDE DEF b
<1>2. /\ c \in Seq(Byte) /\ Len(c) = 1 + n /\ n \in Nat /\ c[1] = Quote
      /\ \A j \in 1..n : c[1 + j] = e[j]
  <2>1. Quote \in Byte
    BY DEF Quote, Byte
  <2> DEFINE y == Quote
  <2>2. y \in Byte
    BY <2>1
  <2> HIDE DEF y
  <2>3. <<y>> \o e \in Seq(Byte) /\ Len(e) \in Nat /\ Len(<<y>> \o e) = 1 + Len(e) /\ (<<y>> \o e)[1] = y
    BY <2>2, InFrontIs
  <2>4. \A j \in 1..Len(e) : (<<y>> \o e)[1 + j] = e[j]
    BY <2>2, InFrontIs
  <2> QED
    BY <2>3, <2>4 DEF y, b
<1> HIDE DEF c, n
<1>3. /\ q \in Seq(Byte) /\ Len(q) = (1 + n) + 1 /\ q[1] = Quote /\ q[(1 + n) + 1] = Quote
      /\ \A j \in 1..n : q[1 + j] = e[j]
  <2>a. c \in Seq(Byte) /\ b \in Seq(Byte)
    BY <1>1, <1>2
  <2>b. q \in Seq(Byte) /\ Len(q) = Len(c) + Len(b)
    BY <2>a, Joined
  <2>c. \A j \in 1..Len(c) : q[j] = c[j]
    BY <2>a, Joined
  <2>d. \A j \in 1..Len(b) : q[Len(c) + j] = b[j]
    BY <2>a, Joined
  <2>1. /\ q \in Seq(Byte) /\ Len(q) = Len(c) + Len(b)
        /\ (\A j \in 1..Len(c) : q[j] = c[j]) /\ \A j \in 1..Len(b) : q[Len(c) + j] = b[j]
    BY <2>b, <2>c, <2>d
  <2> HIDE DEF q
  <2>2. q[1] = c[1]
    <3>1. 1 \in 1..(1 + n)
      BY <1>2
    <3> QED
      BY <1>2, <2>1, <3>1
  <2>3. q[(1 + n) + 1] = Quote
    <3>1. 1 \in 1..Len(b)
      BY <1>1
    <3> QED
      BY <1>1, <1>2, <2>1, <3>1
  <2>4. ASSUME NEW j \in 1..n PROVE q[1 + j] = e[j]
    <3>1. 1 + j \in 1..(1 + n)
      BY <1>2
    <3> QED
      BY <1>2, <2>1, <3>1
  <2> QED
    BY <1>1, <1>2, <2>1, <2>2, <2>3, <2>4
<1> HIDE DEF q
<1>4. Len(q) >= 2 /\ Len(q) = 1 + n + 1
  BY <1>2, <1>3
<1>5. Behind(q, 1, e, 1)
  BY <1>3, <1>4 DEF Behind, n
<1>6. Inside(q) = e
  <2> DEFINE v == Inside(q)
  <2>1. v \in Seq(Byte) /\ Behind(q, 1, v, 1)
    BY <1>3, <1>4, InsideIs
  <2> HIDE DEF v
  <2>2. Len(q) = 1 + Len(v) + 1 /\ \A j \in 1..Len(v) : q[1 + j] = v[j]
    BY <2>1 DEF Behind
  <2>3. Len(v) = n
    <3>1. Len(v) \in Nat
      BY <2>1
    <3> QED
      BY <1>2, <1>4, <2>2, <3>1
  <2>4. \A j \in 1..n : v[j] = e[j]
    BY <1>3, <2>2, <2>3
  <2>5. v = e
    BY <2>1, <2>3, <2>4, SeqEqual DEF n
  <2> QED
    BY <2>5 DEF v
<1> QED
  BY <1>3, <1>4, <1>5, <1>6 DEF q, c, b

\* get_string, extra_space and escape_string of one string token.
StringFine(s) ==
    LET r      == GetString(s)
        units  == Units(Inside(s), IsUnit).list
        points == Pairs([i \in DOMAIN units |-> UnitPoint(units[i])])
        chars  == Units(r.str, IsCharacter)
        e      == EscapeString(r.str)
        q      == <<Quote>> \o e \o <<Quote>>
    IN /\ r.ok = points.ok
       /\ r.ok => /\ chars.ok
                  /\ points.list = [i \in DOMAIN chars.list |-> Point(chars.list[i])]
                  /\ Len(e) = Len(r.str) + ExtraSpace(r.str)
                  /\ IsString(q) /\ GetString(q) = r

\* They are exact for every string of the grammar.
LEMMA StringIs == ASSUME NEW s \in Seq(Byte), IsString(s) PROVE StringFine(s)
<1> DEFINE u == Inside(s)
<1>1. Len(s) >= 2 /\ s[Len(s)] = Quote /\ Units(u, IsUnit).ok
  BY DEF IsString
<1>2. u \in Seq(Byte) /\ Behind(s, 1, u, 1)
  BY <1>1, InsideIs
<1> HIDE DEF u
<1>3. PICK f : AllUnits(f, u, AllOfUnit, 1) /\ Units(u, IsUnit) = f[1]
  BY <1>2, UnitsAre
<1>4. UnitsAgree(f, u, 1)
  <2>1. 1 \in 1..(Len(u) + 1)
    BY <1>2
  <2> QED
    BY <1>1, <1>2, <1>3, <2>1, UnitsFollow
<1> DEFINE units == Units(u, IsUnit).list
<1>5. PICK pts : UnitPointsOf(units, pts) /\ AgreesFrom(u, pts)
  <2>1. SubSeq(u, 1, Len(u)) = u
    BY <1>2, TailIs
  <2> QED
    BY <1>3, <1>4, <2>1 DEF UnitsAgree
<1> HIDE DEF units
<1>6. [i \in DOMAIN units |-> UnitPoint(units[i])] = pts /\ pts \in Seq(Nat) /\ Agrees(u, pts)
  <2>1. units \in Seq(AllOfUnit) /\ pts \in Seq(Nat) /\ Len(pts) = Len(units) /\ \A i \in 1..Len(units) : pts[i] = UnitPoint(units[i])
    BY <1>5 DEF UnitPointsOf
  <2>2. DOMAIN units = 1..Len(units) /\ pts = [i \in 1..Len(pts) |-> pts[i]]
    BY <2>1
  <2>3. pts = [i \in 1..Len(units) |-> UnitPoint(units[i])]
    BY <2>1, <2>2
  <2> QED
    BY <1>5, <2>1, <2>2, <2>3 DEF AgreesFrom
<1>7. ASSUME NEW P, Joins(pts, P) PROVE Pairs(pts) = P
  <2>1. PICK h : AllPairs(h, pts, 1) /\ Pairs(pts) = h[1]
    BY <1>6, PairsAre
  <2>2. Behind(pts, 0, pts, 0) /\ 0 \in Nat /\ 0 + 1 = 1
    BY <1>6, BehindNone
  <2>3. h[0 + 1] = P
    BY <1>6, <1>7, <2>1, <2>2 DEF Joins
  <2> QED
    BY <2>1, <2>2, <2>3
<1>8. ASSUME NEW r, Reads(u, r) PROVE GetString(s) = r
  BY <1>1, <1>2, <1>8, GetsIt
<1> DEFINE points == Pairs([i \in DOMAIN units |-> UnitPoint(units[i])])
<1>9. points = Pairs(pts)
  BY <1>6
<1> HIDE DEF points
<1>10. CASE Reads(u, Thrown) /\ Joins(pts, NoPairs)
  <2>1. GetString(s) = Thrown /\ points = NoPairs
    BY <1>7, <1>8, <1>9, <1>10
  <2>2. GetString(s).ok = FALSE /\ points.ok = FALSE
    BY <2>1 DEF Thrown, NoPairs
  <2> QED
    BY <2>2 DEF StringFine, points, units, u
<1>11. ASSUME NEW str, NEW out, AgreesBy(u, pts, str, out) PROVE StringFine(s)
  <2>1. Reads(u, Bytes(str)) /\ Joins(pts, PairsOf(out)) /\ Fine(str, out)
    BY <1>11 DEF AgreesBy
  <2> DEFINE r == GetString(s)
  <2>2. r = Bytes(str) /\ points = PairsOf(out)
    BY <1>7, <1>8, <1>9, <2>1
  <2>3. r.ok = TRUE /\ r.str = str /\ points.ok = TRUE /\ points.list = out
    BY <2>2 DEF Bytes, PairsOf
  <2> HIDE DEF r
  <2>4. PICK L, e, M : FineBy(str, out, L, e, M)
    BY <2>1 DEF Fine
  <2>5. /\ str \in Seq(Byte) /\ Splits(AllOfCharacter, str, L) /\ PointsOf(L, out)
        /\ e \in Seq(Byte) /\ Escapes(str, e) /\ Splits(AllOfUnit, e, M) /\ Reads(e, Bytes(str))
    BY <2>4 DEF FineBy
  <2> DEFINE chars == Units(str, IsCharacter)
  <2>6. chars.ok = TRUE /\ chars.list = L
    <3>1. chars = [ok |-> TRUE, list |-> L]
      BY <2>5, SplitsSays
    <3> HIDE DEF chars
    <3> QED
      BY <3>1
  <2> HIDE DEF chars
  <2>7. out = [i \in DOMAIN L |-> Point(L[i])]
    <3>1. L \in Seq(AllOfCharacter) /\ out \in Seq(Nat) /\ Len(out) = Len(L) /\ \A i \in 1..Len(L) : out[i] = Point(L[i])
      BY <2>5 DEF PointsOf
    <3>2. DOMAIN L = 1..Len(L) /\ out = [i \in 1..Len(out) |-> out[i]]
      BY <3>1
    <3> QED
      BY <3>1, <3>2
  <2>8. EscapeString(str) = e /\ Len(e) = Len(str) + ExtraSpace(str)
    BY <2>5, EscapesSays
  <2> DEFINE q == <<Quote>> \o e \o <<Quote>>
  <2>9. q \in Seq(Byte) /\ Len(q) >= 2 /\ q[1] = Quote /\ q[Len(q)] = Quote /\ Behind(q, 1, e, 1) /\ Inside(q) = e
    BY <2>5, QuotedIs
  <2> HIDE DEF q
  <2>10. IsString(q)
    <3>1. Units(e, IsUnit) = [ok |-> TRUE, list |-> M]
      BY <2>5, SplitsSays
    <3>2. Units(Inside(q), IsUnit).ok = TRUE
      BY <2>9, <3>1
    <3> QED
      BY <2>9, <3>2 DEF IsString
  <2>11. GetString(q) = r
    BY <2>2, <2>5, <2>9, GetsIt
  <2>12. r.ok = points.ok /\ Units(r.str, IsCharacter).ok
    BY <2>3, <2>6 DEF chars
  <2>13. points.list = [i \in DOMAIN Units(r.str, IsCharacter).list |-> Point(Units(r.str, IsCharacter).list[i])]
    BY <2>3, <2>6, <2>7 DEF chars
  <2>14. Len(EscapeString(r.str)) = Len(r.str) + ExtraSpace(r.str)
    BY <2>3, <2>8
  <2>15. <<Quote>> \o EscapeString(r.str) \o <<Quote>> = q
    BY <2>3, <2>8 DEF q
  <2> QED
    BY <2>10, <2>11, <2>12, <2>13, <2>14, <2>15 DEF StringFine, points, units, u, r
<1> QED
  BY <1>6, <1>10, <1>11 DEF Agrees

\* The bytes of every string token that was found are in the buffer, and in the text.
Held(t, d, s) == t.type = "value_string" => t.from <= t.to /\ t.to <= Len(d) /\ t.to <= Len(s)
StringInv == MatchInv /\ \A k \in DOMAIN tokens : Held(tokens[k], data, Source)

\* They stay there when the buffer grows and nothing is found.
LEMMA HeldStays ==
    ASSUME StringInv, MatchInv', UNCHANGED tokens, Source' = Source, Len(data) <= Len(data')
    PROVE  StringInv'
<1>1. Len(data) \in Nat /\ Len(data') \in Nat /\ tokens \in Seq(Returned)
  BY DEF StringInv, MatchInv, NumInv, LexInv, BufferOK
<1>2. ASSUME NEW k \in DOMAIN tokens PROVE Held(tokens[k], data', Source)
  <2>1. tokens[k] \in Returned /\ Held(tokens[k], data, Source)
    BY <1>1 DEF StringInv
  <2>2. tokens[k].to \in Nat
    BY <2>1 DEF Returned
  <2> QED
    BY <1>1, <2>1, <2>2 DEF Held
<1> QED
  BY <1>2 DEF StringInv

\* A string token that scan returns is in the buffer.
LEMMA HeldReturn == ASSUME StringInv, Return PROVE StringInv'
<1> DEFINE S == Source  t == [type |-> Ends[label], from |-> start, to |-> cursor']  R == Returned
<1>0. MatchInv /\ NumInv /\ LexInv /\ BufferOK
  BY DEF StringInv, MatchInv, NumInv, LexInv
<1>1. MatchInv'
  BY <1>0, MatchReturn
<1>2. /\ label \in Ending /\ label \notin {"scan", "done"}
      /\ cursor' = IF label \in {"L5", "L14"} THEN cursor ELSE cursor + 1
      /\ tokens' = Append(tokens, t)
      /\ UNCHANGED <<mode, text, data, taken, eof, start, marker, yyaccept>>
  BY EndsAre DEF Return, Ending
<1>3. Source' = S
  BY <1>2 DEF Source
<1>4. cursor < Len(S) /\ (label \in Complete => start <= cursor) /\ cursor < Len(data)
  BY <1>0, <1>2 DEF MatchInv, LexInv
<1>5. /\ cursor \in Nat /\ start \in Nat /\ tokens \in Seq(R) /\ Len(S) \in Nat /\ Len(data) \in Nat
      /\ t.type = Ends[label] /\ t.from = start /\ t.to = cursor'
  BY <1>0, SourceIs DEF NumInv, LexInv, BufferOK
<1>6. t \in R
  <2>1. Ends[label] \in {Ends[l] : l \in Ending} /\ cursor' \in Nat
    BY <1>2, <1>5
  <2> QED
    BY <1>5, <2>1 DEF Returned
<1> HIDE DEF S, t, R
<1>7. Held(t, data, S)
  <2> SUFFICES ASSUME t.type = "value_string" PROVE t.from <= t.to /\ t.to <= Len(data) /\ t.to <= Len(S)
    BY DEF Held
  <2>1. label \in Complete
    BY <1>2, <1>5, EndingIs
  <2>2. label \notin {"L5", "L14"}
    BY <2>1, GroupsApart
  <2>3. cursor' = cursor + 1
    BY <1>2, <2>2
  <2> QED
    BY <1>4, <1>5, <2>1, <2>3
<1>8. \A k \in DOMAIN tokens : Held(tokens[k], data, S)
  BY DEF StringInv, S
<1>9. \A k \in DOMAIN Append(tokens, t) : Held(Append(tokens, t)[k], data, S)
  <2> DEFINE n == Len(tokens)  us == Append(tokens, t)
  <2>1. /\ n \in Nat /\ DOMAIN us = 1..(n + 1) /\ DOMAIN tokens = 1..n
        /\ (\A i \in 1..n : us[i] = tokens[i]) /\ us[n + 1] = t
    BY <1>5, <1>6, AppendProperties
  <2> HIDE DEF n, us
  <2>2. ASSUME NEW k \in 1..(n + 1) PROVE Held(us[k], data, S)
    <3>1. CASE k = n + 1
      BY <1>7, <2>1, <3>1
    <3>2. CASE k # n + 1
      <4>1. k \in 1..n
        BY <2>1, <3>2
      <4> QED
        BY <1>8, <2>1, <4>1
    <3> QED
      BY <3>1, <3>2
  <2> QED
    BY <2>1, <2>2 DEF us
<1>10. tokens' = Append(tokens, t) /\ data' = data
  BY <1>2
<1> QED
  BY <1>1, <1>3, <1>9, <1>10 DEF StringInv, S

\* Every step of scan keeps that.
LEMMA HeldSteps == StringInv /\ [Next]_(vars) => StringInv'
<1> SUFFICES ASSUME StringInv, [Next]_(vars) PROVE StringInv'
  OBVIOUS
<1>0. MatchInv /\ SourceInv /\ LexInv /\ BufferOK /\ cursor \in Nat /\ Len(data) \in Nat /\ MatchInv'
  BY MatchSteps DEF StringInv, MatchInv, NumInv, LexInv, BufferOK
<1>1. CASE UNCHANGED vars
  <2>1. UNCHANGED <<mode, text, data, tokens>>
    BY <1>1 DEF vars
  <2>2. Source' = Source
    BY <2>1 DEF Source
  <2> QED
    BY <1>0, <2>1, <2>2, HeldStays
<1>2. CASE Scan
  <2>1. mode' = mode /\ text' = text /\ tokens' = tokens /\ Refill(cursor, 5)
    BY <1>2 DEF Scan, Needs
  <2>2. Source' = Source
    BY <1>0, <2>1, SourceStays
  <2>3. Len(data) <= Len(data')
    BY <1>0, <1>2, ScanStep DEF Longer
  <2> QED
    BY <1>0, <2>1, <2>2, <2>3, HeldStays
<1>3. CASE Move
  <2>1. mode' = mode /\ text' = text /\ tokens' = tokens /\ Refill(cursor + 1, Needs(label))
    BY <1>3 DEF Move
  <2>2. cursor + 1 \in Nat /\ Needs(label) \in Nat
    BY <1>0 DEF Needs
  <2>3. Source' = Source
    BY <1>0, <2>1, <2>2, SourceStays
  <2>4. Len(data) <= Len(data')
    BY <1>0, <1>3, MoveStep DEF Longer
  <2> QED
    BY <1>0, <2>1, <2>3, <2>4, HeldStays
<1>4. CASE Back
  <2>1. UNCHANGED <<mode, text, data, tokens>>
    BY <1>4 DEF Back
  <2>2. Source' = Source
    BY <2>1 DEF Source
  <2> QED
    BY <1>0, <2>1, <2>2, HeldStays
<1> QED
  BY <1>1, <1>2, <1>3, <1>4, HeldReturn DEF Next

\* What get_token_string gives for a string token is a string of the grammar.
LEMMA StringFound ==
    ASSUME StringInv, NEW s \in Found("value_string")
    PROVE  s \in Seq(Byte) /\ IsString(s)
<1> DEFINE S == Source
<1>1. PICK k \in DOMAIN tokens : tokens[k].type = "value_string" /\ s = GetTokenString(tokens[k])
  BY DEF Found
<1> DEFINE a == tokens[k].from  b == tokens[k].to
<1>2. /\ FoundFine(tokens, S) /\ data \in Seq(Byte) /\ text \in Seq(Byte) /\ tokens \in Seq(Returned)
      /\ SourceIn(data) /\ Held(tokens[k], data, S)
  BY DEF StringInv, MatchInv, NumInv, LexInv, BufferOK, SourceInv
<1>3. S \in Seq(Byte) /\ Len(S) \in Nat /\ Len(data) \in Nat
  BY <1>2, SourceIs
<1>4. a \in Nat /\ b \in Nat
  <2>1. tokens[k] \in Returned
    BY <1>2
  <2> QED
    BY <2>1 DEF Returned
<1>5. a <= b /\ b <= Len(data) /\ b <= Len(S) /\ s = SubSeq(data, a + 1, b)
  BY <1>1, <1>2 DEF Held, GetTokenString
<1>6. Is("value_string", SubSeq(S, a + 1, b))
  <2>1. TokenFine(tokens[k], S) /\ tokens[k].type = "value_string"
    BY <1>1, <1>2 DEF FoundFine
  <2> QED
    BY <2>1 DEF TokenFine
<1>7. \A i \in 1..Len(data) : i <= Len(S) => data[i] = S[i]
  BY <1>2 DEF SourceIn
<1> HIDE DEF S, a, b
<1> DEFINE v == SubSeq(S, a + 1, b)
<1>8. s \in Seq(Byte) /\ Len(s) = b - a /\ \A n \in 1..(b - a) : s[n] = data[a + n]
  BY <1>2, <1>4, <1>5, SliceIs
<1>9. v \in Seq(Byte) /\ Len(v) = b - a /\ \A n \in 1..(b - a) : v[n] = S[a + n]
  BY <1>3, <1>4, <1>5, SliceIs
<1> HIDE DEF v
<1>10. \A n \in 1..(b - a) : s[n] = v[n]
  <2> SUFFICES ASSUME NEW n \in 1..(b - a) PROVE s[n] = v[n]
    OBVIOUS
  <2>1. a + n \in 1..Len(data) /\ a + n <= Len(S)
    BY <1>3, <1>4, <1>5
  <2> QED
    BY <1>7, <1>8, <1>9, <2>1
<1>11. s = v
  BY <1>8, <1>9, <1>10, SeqEqual
<1> QED
  BY <1>6, <1>8, <1>11, IsOf DEF v

\* The bytes that get_string makes of every string token that scan found, in every
\* text, are the characters that the grammar says it denotes, and get_string throws
\* exactly for a surrogate without its partner; escape_string fills exactly the space
\* that extra_space counted, and what it writes reads back as the same string.
THEOREM StringsAreExact == Spec => []StringExact
<1>1. Init => StringInv
  <2> SUFFICES ASSUME Init PROVE StringInv
    OBVIOUS
  <2>1. tokens = <<>>
    BY DEF Init
  <2> QED
    BY <2>1, MatchStarts DEF StringInv
<1>2. StringInv => StringExact
  <2> SUFFICES ASSUME StringInv, NEW s \in Found("value_string") PROVE StringFine(s)
    BY DEF StringExact, StringFine
  <2> QED
    BY StringFound, StringIs
<1> QED
  BY <1>1, <1>2, HeldSteps, PTL DEF Spec

=============================================================================
