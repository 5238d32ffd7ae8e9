-------------------------- MODULE JsonParserProofs ---------------------------
(***************************************************************************)
(* Theorems about the parser of include/json.h for texts of any length and *)
(* containers nested to any depth, whatever the callback answers.          *)
(***************************************************************************)
EXTENDS JsonParser, SequenceTheorems, TLAPS

\* Inside of a container that the callback refused nothing is kept: neither it
\* nor any container within has a value that something could be stored in.
SkippedIsEmpty ==
    \A i \in DOMAIN stack :
        /\ ~stack[i].keep => stack[i].result = Discarded
        /\ i > 1 /\ ~stack[i - 1].keep => ~stack[i].keep

\* The locals of parse_internal, with values of any set.
Frame(V) == [kind : {"object", "array"}, keep : BOOLEAN, key : Keys \cup {NoKey, Broken},
             tag : BOOLEAN, result : V]

TypeOK ==
    /\ toks \in Seq(Tokens) /\ (pc # "start" => toks # <<>>)
    /\ pc \in {"start", "call", "first", "item", "next", "colon", "take", "close", "done",
               "thrown"}
    /\ arg \in BOOLEAN /\ cb \in BOOLEAN
    /\ \E V : stack \in Seq(Frame(V))
    /\ pc \in {"first", "item", "next", "colon", "close"} => stack # <<>>
    /\ pc = "start" => stack = <<>>
    /\ depth \in Int /\ told \in [depth : Int, level : Int]

\* The callback was asked about tokens that are behind last_token, once each.
AskedOnce ==
    /\ DOMAIN said \subseteq 1..(Len(toks) - 1)
    /\ \A i \in DOMAIN said : said[i] \in BOOLEAN

\* What parse_internal is called with is what its caller has kept.
ArgIsKeep == pc = "call" => arg = (stack = <<>> \/ Top.keep)

\* Where no container is skipped all are kept, and depth counts them.
DepthCounts == ~Skipping =>
    /\ \A i \in DOMAIN stack : stack[i].keep
    /\ depth = IF cb THEN Len(stack) ELSE 0
    /\ told.depth = told.level

IInv == TypeOK /\ AskedOnce /\ ArgIsKeep /\ SkippedIsEmpty /\ DepthCounts

-----------------------------------------------------------------------------
\* A larger set of values makes no frame wrong.
LEMMA MoreValues ==
    ASSUME NEW V, NEW W, NEW s \in Seq(Frame(V))
    PROVE  s \in Seq(Frame(V \cup W)) /\ Frame(W) \subseteq Frame(V \cup W)
<1>1. Frame(V) \subseteq Frame(V \cup W)
    BY DEF Frame
<1>2. Frame(W) \subseteq Frame(V \cup W)
    BY DEF Frame
<1> HIDE DEF Frame
<1> QED
    BY <1>1, <1>2, SeqMonotonic

\* The stack after a container begins.
LEMMA Pushed ==
    ASSUME NEW V, NEW W, NEW s \in Seq(Frame(V)), NEW f \in Frame(W)
    PROVE  /\ Append(s, f) \in Seq(Frame(V \cup W))
           /\ Len(s) \in Nat /\ Len(Append(s, f)) = Len(s) + 1
           /\ DOMAIN Append(s, f) = 1..(Len(s) + 1)
           /\ \A i \in 1..Len(s) : i \in DOMAIN s /\ Append(s, f)[i] = s[i]
           /\ Append(s, f)[Len(s) + 1] = f
<1>1. s \in Seq(Frame(V \cup W)) /\ f \in Frame(V \cup W)
    BY MoreValues
<1> QED
    BY <1>1

\* The stack after one ends.
LEMMA Popped ==
    ASSUME NEW V, NEW s \in Seq(Frame(V)), s # <<>>
    PROVE  LET p == SubSeq(s, 1, Len(s) - 1) IN
           /\ p \in Seq(Frame(V))
           /\ Len(s) \in Nat \ {0} /\ Len(p) = Len(s) - 1
           /\ DOMAIN p = 1..(Len(s) - 1)
           /\ \A i \in 1..(Len(s) - 1) : i \in DOMAIN s /\ p[i] = s[i]
<1> DEFINE p == SubSeq(s, 1, Len(s) - 1)
<1>1. Len(s) \in Nat \ {0} /\ DOMAIN s = 1..Len(s)
    BY EmptySeq, LenProperties
<1>2. \A i \in 1..(Len(s) - 1) : s[i] \in Frame(V)
    BY <1>1, ElementOfSeq
<1>3. /\ p \in Seq(Frame(V))
      /\ Len(p) = Len(s) - 1
      /\ \A i \in 1..(Len(s) - 1) : p[i] = s[i]
    BY <1>1, <1>2, SubSeqProperties
<1>4. DOMAIN p = 1..(Len(s) - 1)
    BY <1>3, LenProperties
<1> QED
    BY <1>1, <1>3, <1>4

\* The stack after its last frame was assigned to, except for its keep.
LEMMA Assigned ==
    ASSUME NEW V, NEW W, NEW s \in Seq(Frame(V)), s # <<>>,
           NEW f \in Frame(W), f.keep = s[Len(s)].keep
    PROVE  LET t == [s EXCEPT ![Len(s)] = f] IN
           /\ t \in Seq(Frame(V \cup W))
           /\ Len(s) \in Nat \ {0} /\ Len(t) = Len(s) /\ t # <<>>
           /\ DOMAIN s = 1..Len(s) /\ DOMAIN t = DOMAIN s
           /\ \A i \in DOMAIN s : t[i].keep = s[i].keep
           /\ \A i \in DOMAIN s : i # Len(s) => t[i] = s[i]
           /\ t[Len(s)] = f
<1> DEFINE t == [s EXCEPT ![Len(s)] = f]
<1>1. s \in Seq(Frame(V \cup W)) /\ f \in Frame(V \cup W)
    BY MoreValues
<1>2. Len(s) \in Nat \ {0} /\ DOMAIN s = 1..Len(s)
    BY EmptySeq, LenProperties
<1>3. /\ t \in Seq(Frame(V \cup W)) /\ Len(t) = Len(s)
      /\ \A i \in 1..Len(s) : t[i] = IF i = Len(s) THEN f ELSE s[i]
    BY <1>1, <1>2, ExceptSeq
<1>4. DOMAIN t = 1..Len(s) /\ t # <<>>
  <2> HIDE DEF t
  <2>1. DOMAIN t = 1..Len(s)
    BY <1>3, LenProperties
  <2>2. Len(<<>>) = 0
    OBVIOUS
  <2> QED
    BY <1>2, <1>3, <2>1, <2>2
<1> QED
    BY <1>2, <1>3, <1>4

-----------------------------------------------------------------------------
\* get_token reads one of the tokens.
LEMMA Got ==
    ASSUME TypeOK, GetToken
    PROVE  /\ toks' \in Seq(Tokens) /\ toks' # <<>>
           /\ Len(toks) \in Nat /\ Len(toks') = Len(toks) + 1
           /\ \A i \in 1..Len(toks) : toks'[i] = toks[i]
<1>1. Available \subseteq Tokens
    BY DEF Available, Tokens, Fixed
<1>2. PICK t \in Tokens : toks' = Append(toks, t)
    BY <1>1 DEF GetToken
<1>3. toks \in Seq(Tokens)
    BY DEF TypeOK
<1> HIDE DEF Tokens
<1> QED
    BY <1>2, <1>3

\* The last token, when there is one.
LEMMA LastToken ==
    ASSUME TypeOK, toks # <<>>
    PROVE  /\ Len(toks) \in Nat \ {0}
           /\ last.str \in Keys \cup {NoKey, Broken}
<1>1. toks \in Seq(Tokens)
    BY DEF TypeOK
<1>2. Len(toks) \in Nat \ {0} /\ last \in Tokens
    BY <1>1, EmptySeq, ElementOfSeq DEF last
<1> QED
    BY <1>2 DEF Tokens, Token

\* An answer is kept apart from the earlier ones, and a token that begins a
\* container is skipped exactly if the callback refuses it now.
LEMMA Asked ==
    ASSUME TypeOK, AskedOnce, toks # <<>>, GetToken,
           NEW asked \in BOOLEAN, NEW answer \in Answers(asked), NEW d \in Int, NEW level \in Int,
           Ask(asked, answer, d, level)
    PROVE  /\ AskedOnce'
           /\ answer \in BOOLEAN /\ (~asked => answer)
           /\ ~Skipping' => ~Skipping
           /\ ~Skipping' /\ last.type \in Begins => answer
           /\ told' = IF asked THEN [depth |-> d, level |-> level] ELSE told
<1>1. /\ Len(toks) \in Nat \ {0} /\ Len(toks') = Len(toks) + 1
      /\ \A i \in 1..Len(toks) : toks'[i] = toks[i]
    BY Got, LastToken
<1>2. answer \in BOOLEAN /\ (~asked => answer)
    BY DEF Answers
<1>3. CASE ~asked
    BY <1>1, <1>2, <1>3 DEF Ask, AskedOnce, Skipping
<1>4. CASE asked
  <2>1. /\ DOMAIN said' = DOMAIN said \cup {Len(toks)}
        /\ Len(toks) \notin DOMAIN said
        /\ \A i \in DOMAIN said : said'[i] = said[i]
        /\ said'[Len(toks)] = answer
        /\ told' = [depth |-> d, level |-> level]
    BY <1>1, <1>4 DEF Ask, AskedOnce
  <2>2. AskedOnce'
    BY <1>1, <1>2, <2>1 DEF AskedOnce
  <2>3. \A i \in DOMAIN said : i \in 1..Len(toks)
    BY <1>1 DEF AskedOnce
  <2>4. ~Skipping' => ~Skipping
    BY <1>1, <2>1, <2>3 DEF Skipping
  <2>5. ~Skipping' /\ last.type \in Begins => answer
    BY <1>1, <2>1 DEF Skipping, last
  <2> QED
    BY <1>2, <1>4, <2>1, <2>2, <2>4, <2>5
<1> QED
    BY <1>3, <1>4

\* Without a question nothing is skipped that was not, whether a token is read or not.
LEMMA NotAsked ==
    ASSUME TypeOK, AskedOnce, GetToken \/ toks' = toks, said' = said
    PROVE  AskedOnce' /\ (~Skipping' => ~Skipping)
<1>1. CASE toks' = toks
    BY <1>1 DEF AskedOnce, Skipping
<1>2. CASE GetToken
  <2>1. /\ Len(toks) \in Nat /\ Len(toks') = Len(toks) + 1
        /\ \A i \in 1..Len(toks) : toks'[i] = toks[i]
    BY <1>2, Got
  <2> QED
    BY <2>1 DEF AskedOnce, Skipping
<1> QED
    BY <1>1, <1>2

-----------------------------------------------------------------------------
\* Before the first token.
LEMMA InitInv == Init => IInv
<1> SUFFICES ASSUME Init PROVE IInv
    OBVIOUS
<1> USE DEF Init
<1>1. <<>> \in Seq(Frame({}))
    BY EmptySeq
<1>2. TypeOK
    BY <1>1 DEF TypeOK
<1>3. AskedOnce /\ ~Skipping
    BY DEF AskedOnce, Skipping
<1> QED
    BY <1>2, <1>3 DEF IInv, ArgIsKeep, SkippedIsEmpty, DepthCounts

\* A container begins: it is kept if its caller is and the callback says yes.
LEMMA BeginInv ==
    ASSUME IInv, NEW kind \in {"object", "array"}, NEW type \in Begins, Begin(kind, type)
    PROVE  IInv'
<1> USE DEF IInv
<1>1. /\ pc = "call" /\ last.type = type /\ toks # <<>>
      /\ depth' = IF arg /\ cb THEN depth + 1 ELSE depth
      /\ GetToken /\ pc' = "first" /\ arg' = arg /\ ret' = ret /\ cb' = cb
    BY DEF Begin, TypeOK
<1>2. PICK V : stack \in Seq(Frame(V))
    BY DEF TypeOK
<1>3. PICK answer \in Answers(arg /\ cb) :
        /\ stack' = Append(stack, [kind |-> kind, keep |-> arg /\ answer, key |-> NoKey,
                                   tag |-> FALSE,
                                   result |-> IF arg /\ answer THEN Container(kind) ELSE Discarded])
        /\ Ask(arg /\ cb, answer, depth, Len(stack))
    BY DEF Begin
<1> DEFINE v == IF arg /\ answer THEN Container(kind) ELSE Discarded
           f == [kind |-> kind, keep |-> arg /\ answer, key |-> NoKey, tag |-> FALSE, result |-> v]
<1>4. /\ AskedOnce'
      /\ answer \in BOOLEAN
      /\ ~Skipping' => ~Skipping /\ answer
      /\ told' = IF arg /\ cb THEN [depth |-> depth, level |-> Len(stack)] ELSE told
  <2>1. depth \in Int /\ Len(stack) \in Int /\ (arg /\ cb) \in BOOLEAN
    BY <1>2 DEF TypeOK
  <2> QED
    BY <1>1, <1>3, <2>1, Asked
<1>5. f \in Frame({v})
    BY <1>4 DEF Frame, TypeOK
<1>6. /\ stack' \in Seq(Frame(V \cup {v}))
      /\ Len(stack) \in Nat /\ Len(stack') = Len(stack) + 1
      /\ DOMAIN stack' = 1..(Len(stack) + 1) /\ DOMAIN stack = 1..Len(stack)
      /\ \A i \in 1..Len(stack) : stack'[i] = stack[i]
      /\ stack'[Len(stack) + 1] = f
  <2> HIDE DEF v, f, Frame
  <2>1. stack' = Append(stack, f)
    BY <1>3 DEF v, f
  <2> QED
    BY <1>2, <1>5, <2>1, Pushed, LenProperties
<1>7. f.keep = (arg /\ answer) /\ (~f.keep => f.result = Discarded)
    OBVIOUS
<1>8. TypeOK'
  <2>1. stack' # <<>> /\ \E W : stack' \in Seq(Frame(W))
    BY <1>6, EmptySeq
  <2>2. toks' \in Seq(Tokens) /\ toks' # <<>>
    BY <1>1, Got
  <2> QED
    BY <1>1, <1>4, <1>6, <2>1, <2>2 DEF TypeOK
<1> HIDE DEF f
<1>9. SkippedIsEmpty'
  <2> SUFFICES ASSUME NEW i \in DOMAIN stack'
               PROVE  /\ ~stack'[i].keep => stack'[i].result = Discarded
                      /\ i > 1 /\ ~stack'[i - 1].keep => ~stack'[i].keep
    BY DEF SkippedIsEmpty
  <2>1. CASE i \in 1..Len(stack)
    BY <1>6, <2>1 DEF SkippedIsEmpty
  <2>2. CASE i = Len(stack) + 1
    <3>1. ASSUME i > 1, ~stack'[i - 1].keep PROVE ~f.keep
      <4>1. /\ Len(stack) \in 1..Len(stack) /\ i - 1 = Len(stack) /\ stack # <<>>
            /\ stack'[i - 1] = stack[Len(stack)]
        BY <1>6, <2>2, <3>1, EmptySeq
      <4>2. ~stack[Len(stack)].keep
        BY <3>1, <4>1
      <4>3. ~arg
        BY <1>1, <4>1, <4>2 DEF ArgIsKeep, Top
      <4> QED
        BY <1>7, <4>3
    <3>2. stack'[i] = f
      BY <1>6, <2>2
    <3> QED
      BY <1>7, <3>1, <3>2
  <2> QED
    BY <1>6, <2>1, <2>2
<1>10. DepthCounts'
  <2> SUFFICES ASSUME ~Skipping'
               PROVE  /\ \A i \in DOMAIN stack' : stack'[i].keep
                      /\ depth' = IF cb' THEN Len(stack') ELSE 0
                      /\ told'.depth = told'.level
    BY DEF DepthCounts
  <2>1. /\ \A i \in DOMAIN stack : stack[i].keep
        /\ depth = IF cb THEN Len(stack) ELSE 0
        /\ told.depth = told.level /\ answer
    BY <1>4 DEF DepthCounts
  <2>2. arg
    <3>1. stack # <<>> => Len(stack) \in DOMAIN stack
      BY <1>2, <1>6, EmptySeq
    <3>2. stack # <<>> => stack[Len(stack)].keep
      BY <2>1, <3>1
    <3> QED
      BY <1>1, <3>2 DEF ArgIsKeep, Top
  <2>3. f.keep
    BY <1>7, <2>1, <2>2
  <2>4. \A i \in DOMAIN stack' : stack'[i].keep
    <3> SUFFICES ASSUME NEW i \in DOMAIN stack' PROVE stack'[i].keep
      OBVIOUS
    <3>1. CASE i \in 1..Len(stack)
      BY <1>6, <2>1, <3>1
    <3>2. CASE i = Len(stack) + 1
      BY <1>6, <2>3, <3>2
    <3> QED
      BY <1>6, <3>1, <3>2
  <2>5. depth' = IF cb' THEN Len(stack') ELSE 0
    BY <1>1, <1>6, <2>1, <2>2
  <2>6. told'.depth = told'.level
    BY <1>4, <2>1, <2>2
  <2> QED
    BY <2>4, <2>5, <2>6
<1> QED
    BY <1>1, <1>4, <1>8, <1>9, <1>10 DEF ArgIsKeep

\* A container ends: the frame goes and, where nothing is skipped, depth with it.
LEMMA LeaveInv ==
    ASSUME IInv, stack # <<>>, toks # <<>>, NEW asked \in BOOLEAN, Leave(asked), asked => cb,
           ~Skipping /\ cb => asked
    PROVE  IInv'
<1> USE DEF IInv
<1>1. /\ GetToken /\ depth' = IF asked THEN depth - 1 ELSE depth
      /\ stack' = SubSeq(stack, 1, Len(stack) - 1)
      /\ pc' = "take" /\ arg' = arg /\ cb' = cb
    BY DEF Leave, Pop
<1>2. PICK V : stack \in Seq(Frame(V))
    BY DEF TypeOK
<1>3. PICK answer \in Answers(asked) : Ask(asked, answer, depth - 1, Len(stack) - 1)
    BY DEF Leave
<1>4. /\ stack' \in Seq(Frame(V))
      /\ Len(stack) \in Nat \ {0} /\ Len(stack') = Len(stack) - 1
      /\ DOMAIN stack' = 1..(Len(stack) - 1)
      /\ \A i \in 1..(Len(stack) - 1) : i \in DOMAIN stack /\ stack'[i] = stack[i]
    BY <1>1, <1>2, Popped
<1>5. /\ AskedOnce' /\ (~Skipping' => ~Skipping)
      /\ told' = IF asked THEN [depth |-> depth - 1, level |-> Len(stack) - 1] ELSE told
  <2>1. depth - 1 \in Int /\ Len(stack) - 1 \in Int
    BY <1>4 DEF TypeOK
  <2> QED
    BY <1>1, <1>3, <2>1, Asked
<1>6. TypeOK'
  <2>1. toks' \in Seq(Tokens) /\ toks' # <<>>
    BY <1>1, Got
  <2>2. \E W : stack' \in Seq(Frame(W))
    BY <1>4
  <2> QED
    BY <1>1, <1>4, <1>5, <2>1, <2>2 DEF TypeOK
<1>7. SkippedIsEmpty'
    BY <1>4 DEF SkippedIsEmpty
<1>8. DepthCounts'
    BY <1>1, <1>4, <1>5 DEF DepthCounts, TypeOK
<1> QED
    BY <1>1, <1>5, <1>6, <1>7, <1>8 DEF ArgIsKeep

\* An assignment to the last frame, except to its keep, as Key and Take make it.
LEMMA AssignInv ==
    ASSUME IInv, stack # <<>>, NEW W, NEW f \in Frame(W),
           f.keep = Top.keep, ~f.keep => f.result = Top.result,
           stack' = [stack EXCEPT ![Len(stack)] = f],
           depth' = depth, cb' = cb, AskedOnce', ~Skipping' => ~Skipping,
           ~Skipping' => told'.depth = told'.level
    PROVE  /\ \E V : stack' \in Seq(Frame(V))
           /\ stack' # <<>>
           /\ SkippedIsEmpty' /\ DepthCounts'
<1> USE DEF IInv
<1>1. PICK V : stack \in Seq(Frame(V))
    BY DEF TypeOK
<1>2. /\ stack' \in Seq(Frame(V \cup W))
      /\ Len(stack) \in Nat \ {0} /\ Len(stack') = Len(stack) /\ stack' # <<>>
      /\ DOMAIN stack = 1..Len(stack) /\ DOMAIN stack' = DOMAIN stack
      /\ \A i \in DOMAIN stack : stack'[i].keep = stack[i].keep
      /\ \A i \in DOMAIN stack : i # Len(stack) => stack'[i] = stack[i]
      /\ stack'[Len(stack)] = f
  <2>1. f.keep = stack[Len(stack)].keep
    BY DEF Top
  <2> HIDE DEF IInv
  <2> QED
    BY <1>1, <2>1, Assigned
<1>3. SkippedIsEmpty'
  <2> SUFFICES ASSUME NEW i \in DOMAIN stack
               PROVE  /\ ~stack'[i].keep => stack'[i].result = Discarded
                      /\ i > 1 /\ ~stack'[i - 1].keep => ~stack'[i].keep
    BY <1>2 DEF SkippedIsEmpty
  <2>1. ~stack'[i].keep => stack'[i].result = stack[i].result
    BY <1>2 DEF Top
  <2>2. ~stack[i].keep => stack[i].result = Discarded
    BY DEF SkippedIsEmpty
  <2>3. i > 1 /\ ~stack[i - 1].keep => ~stack[i].keep
    BY DEF SkippedIsEmpty
  <2>4. i > 1 => i - 1 \in DOMAIN stack
    BY <1>2
  <2> QED
    BY <1>2, <2>1, <2>2, <2>3, <2>4
<1>4. DepthCounts'
    BY <1>2 DEF DepthCounts
<1> QED
    BY <1>2, <1>3, <1>4

\* The key of a member.
LEMMA KeyInv == ASSUME IInv, Key PROVE IInv'
<1> USE DEF IInv
<1>1. /\ stack # <<>> /\ toks # <<>>
      /\ last.str # Broken /\ GetToken /\ pc' = "colon"
      /\ arg' = arg /\ ret' = ret /\ cb' = cb /\ depth' = depth
    BY DEF Key, AtItem, TypeOK
<1>2. PICK V : stack \in Seq(Frame(V))
    BY DEF TypeOK
<1>3. Len(stack) \in DOMAIN stack /\ Len(stack) \in Nat \ {0} /\ Top \in Frame(V)
    BY <1>1, <1>2, EmptySeq, LenProperties, ElementOfSeq DEF Top
<1>4. PICK answer \in Answers(Top.keep /\ cb) :
        /\ stack' = [stack EXCEPT ![Len(stack)].key = last.str,
                                  ![Len(stack)].tag = Top.keep /\ answer]
        /\ Ask(Top.keep /\ cb, answer, depth, Len(stack))
    BY DEF Key
<1> DEFINE f == [Top EXCEPT !.key = last.str, !.tag = Top.keep /\ answer]
<1>5. stack' = [stack EXCEPT ![Len(stack)] = f]
    BY <1>3, <1>4 DEF Top
<1>6. /\ AskedOnce' /\ (~Skipping' => ~Skipping) /\ answer \in BOOLEAN
      /\ told' = IF Top.keep /\ cb THEN [depth |-> depth, level |-> Len(stack)] ELSE told
  <2>1. depth \in Int /\ Len(stack) \in Int /\ (Top.keep /\ cb) \in BOOLEAN
    BY <1>3 DEF TypeOK
  <2> QED
    BY <1>1, <1>4, <2>1, Asked
<1>7. f \in Frame(V) /\ f.keep = Top.keep /\ f.result = Top.result
  <2>1. last.str \in Keys \cup {NoKey, Broken} /\ (Top.keep /\ answer) \in BOOLEAN
    BY <1>1, LastToken
  <2> HIDE DEF Top, last, IInv
  <2> QED
    BY <1>3, <2>1 DEF Frame
<1>8. ~Skipping' => told'.depth = told'.level
    BY <1>6 DEF DepthCounts
<1>9. /\ \E W : stack' \in Seq(Frame(W))
      /\ stack' # <<>> /\ SkippedIsEmpty' /\ DepthCounts'
  <2> HIDE DEF f
  <2> QED
    BY <1>1, <1>5, <1>6, <1>7, <1>8, AssignInv
<1>10. TypeOK'
  <2>1. toks' \in Seq(Tokens) /\ toks' # <<>>
    BY <1>1, Got
  <2> QED
    BY <1>1, <1>3, <1>6, <1>9, <2>1 DEF TypeOK
<1> QED
    BY <1>1, <1>6, <1>9, <1>10 DEF ArgIsKeep

\* The value that a call returned is put into the container that called.
LEMMA TakeInv == ASSUME IInv, Take PROVE IInv'
<1> USE DEF IInv
<1>1. /\ pc = "take" /\ stack # <<>> /\ toks # <<>> /\ pc' \in {"next", "close"}
      /\ UNCHANGED <<toks, arg, ret, cb, depth, said, told>>
    BY DEF Take, TypeOK
<1>2. PICK V : stack \in Seq(Frame(V))
    BY DEF TypeOK
<1>3. Len(stack) \in DOMAIN stack /\ Len(stack) \in Nat \ {0} /\ Top \in Frame(V)
    BY <1>1, <1>2, EmptySeq, LenProperties, ElementOfSeq DEF Top
<1> DEFINE w == Stored(Top, ret)
           f == [Top EXCEPT !.result = w]
<1>4. stack' = [stack EXCEPT ![Len(stack)] = f]
    BY <1>3 DEF Take, Top
<1>5. AskedOnce' /\ (~Skipping' => ~Skipping)
    BY <1>1, NotAsked
<1>6. f \in Frame({w}) /\ f.keep = Top.keep /\ f.result = w
  <2> HIDE DEF w, Top, IInv
  <2> QED
    BY <1>3 DEF Frame
<1>7. ~Top.keep => w = Top.result
  <2> HIDE DEF Top, IInv
  <2> QED
    BY DEF Stored
<1>8. ~Skipping' => told'.depth = told'.level
    BY <1>1, <1>5 DEF DepthCounts
<1>9. /\ \E W : stack' \in Seq(Frame(W))
      /\ stack' # <<>> /\ SkippedIsEmpty' /\ DepthCounts'
  <2> HIDE DEF f, w
  <2> QED
    BY <1>1, <1>4, <1>5, <1>6, <1>7, <1>8, AssignInv
<1>10. TypeOK'
    BY <1>1, <1>9 DEF TypeOK
<1> QED
    BY <1>1, <1>5, <1>9, <1>10 DEF ArgIsKeep

\* A step that leaves the containers as they are disturbs nothing about them.
LEMMA StackStays ==
    ASSUME IInv, UNCHANGED <<stack, cb, depth>>, ~Skipping' => ~Skipping,
           ~Skipping' => told'.depth = told'.level
    PROVE  /\ \E V : stack' \in Seq(Frame(V))
           /\ SkippedIsEmpty' /\ DepthCounts'
<1>1. \E V : stack' \in Seq(Frame(V))
    BY DEF IInv, TypeOK
<1>2. SkippedIsEmpty'
    BY DEF IInv, SkippedIsEmpty
<1>3. DepthCounts'
    BY DEF IInv, DepthCounts
<1> QED
    BY <1>1, <1>2, <1>3

\* The steps between the containers that ask the callback nothing.
LEMMA QuietInv ==
    ASSUME IInv, Parse \/ Comma \/ Colon \/ Element \/ Finish \/ Throw \/ UNCHANGED vars
    PROVE  IInv'
<1> USE DEF IInv
<1>1. /\ UNCHANGED <<stack, cb, depth, said, told>>
      /\ GetToken \/ (toks' = toks)
    BY DEF Parse, Comma, Colon, Element, Finish, Throw, vars
<1>2. AskedOnce' /\ (~Skipping' => ~Skipping)
    BY <1>1, NotAsked
<1>3. ~Skipping' => told'.depth = told'.level
    BY <1>1, <1>2 DEF DepthCounts
<1>4. /\ \E V : stack' \in Seq(Frame(V))
      /\ SkippedIsEmpty' /\ DepthCounts'
  <2> HIDE DEF IInv
  <2> QED
    BY <1>1, <1>2, <1>3, StackStays
<1>5. \A V : stack # <<>> /\ stack \in Seq(Frame(V)) => Top.keep \in BOOLEAN
  <2> TAKE V
  <2> HAVE stack # <<>> /\ stack \in Seq(Frame(V))
  <2>1. Top \in Frame(V)
    BY EmptySeq, ElementOfSeq, LenProperties DEF Top
  <2> QED
    BY <2>1 DEF Frame
<1>6. stack # <<>> => Top.keep \in BOOLEAN
    BY <1>5 DEF TypeOK
<1>7. toks' \in Seq(Tokens) /\ (GetToken => toks' # <<>>) /\ (~GetToken => toks' = toks)
    BY <1>1, Got DEF TypeOK
<1>8. /\ pc' # "start" => toks' # <<>>
      /\ pc' \in {"start", "call", "first", "item", "next", "colon", "take", "close", "done",
                  "thrown"}
      /\ arg' \in BOOLEAN
      /\ pc' \in {"first", "item", "next", "colon", "close"} => stack # <<>>
      /\ pc' = "start" => stack = <<>>
      /\ pc' = "call" => arg' = (stack = <<>> \/ Top.keep)
  <2>1. CASE Parse
    BY <2>1, <1>7 DEF Parse, TypeOK
  <2>2. CASE Comma
    BY <2>2, <1>7 DEF Comma, TypeOK
  <2>3. CASE Colon
    BY <2>3, <1>6, <1>7 DEF Colon, TypeOK
  <2>4. CASE Element
    BY <2>4, <1>6, <1>7 DEF Element, AtItem, TypeOK
  <2>5. CASE Finish \/ Throw
    <3>1. pc # "start"
      BY <2>5 DEF Finish, Throw, Unexpected, AtItem
    <3>2. toks' = toks /\ arg' = arg /\ pc' \in {"done", "thrown"}
      BY <2>5 DEF Finish, Throw
    <3> QED
      BY <3>1, <3>2 DEF TypeOK
  <2>6. CASE UNCHANGED vars
    BY <2>6 DEF vars, TypeOK, ArgIsKeep
  <2> QED
    BY <2>1, <2>2, <2>3, <2>4, <2>5, <2>6
<1>9. TypeOK'
    BY <1>1, <1>4, <1>7, <1>8 DEF TypeOK
<1>10. ArgIsKeep'
    BY <1>1, <1>8 DEF ArgIsKeep, Top
<1> QED
    BY <1>2, <1>4, <1>9, <1>10

\* A scalar: the callback is asked about it with the depth of its container.
LEMMA ScalarInv == ASSUME IInv, Scalar PROVE IInv'
<1> USE DEF IInv
<1>1. /\ pc = "call" /\ toks # <<>> /\ GetToken /\ pc' = "take" /\ arg \in BOOLEAN
      /\ UNCHANGED <<arg, stack, cb, depth>>
    BY DEF Scalar, TypeOK
<1>2. PICK V : stack \in Seq(Frame(V))
    BY DEF TypeOK
<1>3. Len(stack) \in Nat /\ DOMAIN stack = 1..Len(stack)
    BY <1>2, LenProperties
<1>4. PICK answer \in Answers(arg /\ cb) : Ask(arg /\ cb, answer, depth, Len(stack))
    BY DEF Scalar
<1>5. /\ AskedOnce' /\ (~Skipping' => ~Skipping)
      /\ told' = IF arg /\ cb THEN [depth |-> depth, level |-> Len(stack)] ELSE told
  <2>1. depth \in Int /\ Len(stack) \in Int /\ (arg /\ cb) \in BOOLEAN
    BY <1>3 DEF TypeOK
  <2> QED
    BY <1>1, <1>4, <2>1, Asked
<1>6. ~Skipping' => told'.depth = told'.level
    BY <1>5 DEF DepthCounts
<1>7. /\ \E W : stack' \in Seq(Frame(W))
      /\ SkippedIsEmpty' /\ DepthCounts'
  <2> HIDE DEF IInv
  <2> QED
    BY <1>1, <1>5, <1>6, StackStays
<1>8. TypeOK'
  <2>1. toks' \in Seq(Tokens) /\ toks' # <<>>
    BY <1>1, Got
  <2> QED
    BY <1>1, <1>3, <1>5, <1>7, <2>1 DEF TypeOK
<1> QED
    BY <1>1, <1>5, <1>7, <1>8 DEF ArgIsKeep

\* The end of a container is asked about wherever nothing is skipped.
LEMMA EndInv == ASSUME IInv, Empty \/ Close PROVE IInv'
<1>1. stack # <<>> /\ toks # <<>>
    BY DEF IInv, TypeOK, Empty, Close
<1>2. PICK V : stack \in Seq(Frame(V))
    BY DEF IInv, TypeOK
<1>3. Len(stack) \in DOMAIN stack /\ Top \in Frame(V)
    BY <1>1, <1>2, EmptySeq, LenProperties, ElementOfSeq DEF Top
<1>4. Top.keep \in BOOLEAN /\ cb \in BOOLEAN
    BY <1>3 DEF Frame, IInv, TypeOK
<1>5. ~Skipping => Top.keep
    BY <1>3 DEF IInv, DepthCounts, Top
<1>6. CASE Empty
  <2>1. Leave(cb /\ (Top.keep \/ Top.kind = "array"))
    BY <1>6 DEF Empty
  <2>2. (cb /\ (Top.keep \/ Top.kind = "array")) \in BOOLEAN
    BY <1>4
  <2> QED
    BY <1>1, <1>5, <2>1, <2>2, LeaveInv
<1>7. CASE Close
  <2>1. Leave(cb /\ Top.keep) /\ (cb /\ Top.keep) \in BOOLEAN
    BY <1>4, <1>7 DEF Close
  <2> QED
    BY <1>1, <1>5, <2>1, LeaveInv
<1> QED
    BY <1>6, <1>7

-----------------------------------------------------------------------------
\* No step of the parser breaks the invariant.
LEMMA StepInv == IInv /\ [Next]_vars => IInv'
<1> SUFFICES ASSUME IInv, [Next]_vars PROVE IInv'
    OBVIOUS
<1>1. CASE Parse \/ Comma \/ Colon \/ Element \/ Finish \/ Throw \/ UNCHANGED vars
    BY <1>1, QuietInv
<1>2. CASE Begin("object", "begin_object")
    BY <1>2, BeginInv DEF Begins
<1>3. CASE Begin("array", "begin_array")
    BY <1>3, BeginInv DEF Begins
<1>4. CASE Empty \/ Close
    BY <1>4, EndInv
<1>5. CASE Key
    BY <1>5, KeyInv
<1>6. CASE Scalar
    BY <1>6, ScalarInv
<1>7. CASE Take
    BY <1>7, TakeInv
<1> QED
    BY <1>1, <1>2, <1>3, <1>4, <1>5, <1>6, <1>7 DEF Next

\* The invariant holds of every text and every callback.
LEMMA Invariant == Spec => []IInv
<1>1. Init => IInv
    BY InitInv
<1>2. IInv /\ [Next]_vars => IInv'
    BY StepInv
<1> QED
    BY <1>1, <1>2, PTL DEF Spec

\* The depth that parse_internal tells the callback is the number of containers
\* around the value, up to the first container that the callback refuses.
THEOREM DepthIsTrue == Spec => []ToldTrueDepth
<1>1. IInv => ToldTrueDepth
    BY DEF IInv, DepthCounts, ToldTrueDepth
<1> QED
    BY <1>1, Invariant, PTL

\* Inside of a refused object or array parse_internal keeps nothing: no value is
\* stored in it or in a container within it, whatever the callback says of those.
THEOREM RefusedStaysEmpty == Spec => []SkippedIsEmpty
<1>1. IInv => SkippedIsEmpty
    BY DEF IInv
<1> QED
    BY <1>1, Invariant, PTL

=============================================================================
