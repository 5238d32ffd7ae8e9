----------------------------- MODULE JsonParser -----------------------------
(***************************************************************************)
(* The recursive descent parser of include/json.h with its callback. The   *)
(* C++ stack of parse_internal is the variable stack; tokens come from the *)
(* lexer one at a time and are chosen freely, and so are the answers of    *)
(* the callback. A scalar's payload is the position of its token, so that  *)
(* no two of them are the same; what text it has is JsonLexer's subject.   *)
(***************************************************************************)
EXTENDS Integers, Sequences

CONSTANTS
    Keys,         \* the strings that occur
    Literals,     \* the other scalars that occur
    MaxTokens     \* bound: a text has this many tokens at most

ASSUME BoundAssumption == MaxTokens \in Nat
ASSUME LiteralAssumption ==
    Literals \subseteq {"value_number", "literal_null", "literal_true", "literal_false"}

VARIABLES
    toks,     \* the tokens read so far; the last one is last_token
    pc,       \* where parse_internal is
    arg,      \* the keep that parse_internal is called with
    stack,    \* its callers' and its own locals, for containers
    ret,      \* what it returned
    cb,       \* whether there is a callback
    depth,    \* the member that is passed to the callback
    said,     \* the callback's answers, by the token they are about
    told      \* the depth the last call was given, and the true one

vars == <<toks, pc, arg, stack, ret, cb, depth, said, told>>

Token(type, str) == [type |-> type, str |-> str]
NoKey  == ""
Broken == "broken"     \* a string get_string throws for

Begins  == {"begin_object", "begin_array"}
Fixed   == Begins \cup {"end_object", "end_array", "name_separator", "value_separator",
                        "end_of_input", "parse_error"}
Scalars == Literals \cup {"value_string"}

Tokens == {Token(t, NoKey) : t \in Fixed \cup Literals}
          \cup {Token("value_string", k) : k \in Keys \cup {Broken}}

Available == IF Len(toks) < MaxTokens THEN Tokens ELSE {Token("end_of_input", NoKey)}

last == toks[Len(toks)]

\* Values are pairs of their type and what they hold.
Discarded == <<"discarded", 0>>
Null      == <<"literal_null", 0>>
Container(kind) == IF kind = "object" THEN <<"object", [k \in {} |-> 0]>> ELSE <<"array", <<>> >>
EndOf(kind)     == IF kind = "object" THEN "end_object" ELSE "end_array"

Top  == stack[Len(stack)]
Pop  == SubSeq(stack, 1, Len(stack) - 1)

\* get_token.
GetToken == \E t \in Available : toks' = Append(toks, t)

\* What the callback may say, if it is asked, and that it was asked with depth d.
Answers(asked) == IF asked THEN BOOLEAN ELSE {TRUE}
Ask(asked, answer, d, level) ==
    IF asked
    THEN /\ said' = [i \in DOMAIN said \cup {Len(toks)} |->
                        IF i = Len(toks) THEN answer ELSE said[i]]
         /\ told' = [depth |-> d, level |-> level]
    ELSE UNCHANGED <<said, told>>

-----------------------------------------------------------------------------
(* The steps.                                                              *)

Init ==
    /\ toks = <<>> /\ pc = "start" /\ arg = TRUE /\ stack = <<>> /\ ret = Discarded
    /\ cb \in BOOLEAN /\ depth = 0 /\ said = <<>> /\ told = [depth |-> 0, level |-> 0]

\* parse: the first token, and the call of parse_internal.
Parse ==
    /\ pc = "start"
    /\ GetToken
    /\ pc' = "call" /\ arg' = TRUE
    /\ UNCHANGED <<stack, ret, cb, depth, said, told>>

\* The beginning of an object or an array: the callback is asked only in a
\* container that is kept, and depth grows only then.
Begin(kind, type) ==
    /\ pc = "call" /\ last.type = type
    /\ \E answer \in Answers(arg /\ cb) :
          LET keep == arg /\ answer IN
          /\ stack' = Append(stack, [kind |-> kind, keep |-> keep, key |-> NoKey, tag |-> FALSE,
                                     result |-> IF keep THEN Container(kind) ELSE Discarded])
          /\ Ask(arg /\ cb, answer, depth, Len(stack))
    /\ depth' = IF arg /\ cb THEN depth + 1 ELSE depth
    /\ GetToken
    /\ pc' = "first"
    /\ UNCHANGED <<arg, ret, cb>>

\* A slip of Leave: depth is passed but not decremented.
Leave_NoDecrement(asked) ==
    /\ GetToken
    /\ \E answer \in Answers(asked) :
          /\ ret' = IF answer THEN Top.result ELSE Discarded
          /\ Ask(asked, answer, depth - 1, Len(stack) - 1)
    /\ stack' = Pop
    /\ pc' = "take"
    /\ UNCHANGED <<arg, cb, depth>>

\* A container ends: the callback may discard it.
Leave(asked) ==
    /\ GetToken
    /\ depth' = IF asked THEN depth - 1 ELSE depth
    /\ \E answer \in Answers(asked) :
          /\ ret' = IF answer THEN Top.result ELSE Discarded
          /\ Ask(asked, answer, depth - 1, Len(stack) - 1)
    /\ stack' = Pop
    /\ pc' = "take"
    /\ UNCHANGED <<arg, cb>>

\* An empty container; an array asks the callback even if it is not kept.
Empty ==
    /\ pc = "first" /\ last.type = EndOf(Top.kind)
    /\ Leave(cb /\ (Top.keep \/ Top.kind = "array"))

\* A further turn of the loop, behind a comma.
Comma ==
    /\ pc = "next"
    /\ GetToken
    /\ pc' = "item"
    /\ UNCHANGED <<arg, stack, ret, cb, depth, said, told>>

\* What may begin a turn of the loop: no comma the first time.
AtItem == pc = "item" \/ (pc = "first" /\ last.type \notin {EndOf(Top.kind), "value_separator"})

\* The key of a member.
Key ==
    /\ AtItem /\ Top.kind = "object"
    /\ last.type = "value_string" /\ last.str # Broken
    /\ \E answer \in Answers(Top.keep /\ cb) :
          /\ stack' = [stack EXCEPT ![Len(stack)].key = last.str,
                                    ![Len(stack)].tag = Top.keep /\ answer]
          /\ Ask(Top.keep /\ cb, answer, depth, Len(stack))
    /\ GetToken
    /\ pc' = "colon"
    /\ UNCHANGED <<arg, ret, cb, depth>>

\* The colon, and the call for the member's value.
Colon ==
    /\ pc = "colon" /\ last.type = "name_separator"
    /\ GetToken
    /\ pc' = "call" /\ arg' = Top.keep
    /\ UNCHANGED <<stack, ret, cb, depth, said, told>>

\* The call for an element of an array.
Element ==
    /\ AtItem /\ Top.kind = "array"
    /\ pc' = "call" /\ arg' = Top.keep
    /\ UNCHANGED <<toks, stack, ret, cb, depth, said, told>>

\* A literal, a number or a string, which get_string may throw for.
Scalar ==
    /\ pc = "call" /\ last.type \in Scalars /\ last.str # Broken
    /\ GetToken
    /\ \E answer \in Answers(arg /\ cb) :
          /\ ret' = IF answer THEN <<last.type, Len(toks)>> ELSE Discarded
          /\ Ask(arg /\ cb, answer, depth, Len(stack))
    /\ pc' = "take"
    /\ UNCHANGED <<arg, stack, cb, depth>>

\* A slip of Stored: a key that is there already is not assigned.
Stored_First(f, value) ==
    IF f.kind = "array"
    THEN IF f.keep /\ value # Discarded THEN <<"array", Append(f.result[2], value)>> ELSE f.result
    ELSE IF f.keep /\ f.tag /\ value # Discarded /\ f.key \notin DOMAIN f.result[2]
         THEN <<"object", [k \in DOMAIN f.result[2] \cup {f.key} |->
                              IF k = f.key THEN value ELSE f.result[2][k]]>>
         ELSE f.result

\* A container with the value put into it: push_back or result[key] = value.
Stored(f, value) ==
    IF f.kind = "array"
    THEN IF f.keep /\ value # Discarded THEN <<"array", Append(f.result[2], value)>> ELSE f.result
    ELSE IF f.keep /\ f.tag /\ value # Discarded
         THEN <<"object", [k \in DOMAIN f.result[2] \cup {f.key} |->
                              IF k = f.key THEN value ELSE f.result[2][k]]>>
         ELSE f.result

\* A call returns into the loop of its caller.
Take ==
    /\ pc = "take" /\ stack # <<>>
    /\ stack' = [stack EXCEPT ![Len(stack)].result = Stored(Top, ret)]
    /\ pc' = IF last.type = "value_separator" THEN "next" ELSE "close"
    /\ UNCHANGED <<toks, arg, ret, cb, depth, said, told>>

\* The end of a container with something in it.
Close ==
    /\ pc = "close" /\ last.type = EndOf(Top.kind)
    /\ Leave(cb /\ Top.keep)

\* parse returns: a discarded value becomes null.
Finish ==
    /\ pc = "take" /\ stack = <<>> /\ last.type = "end_of_input"
    /\ ret' = IF ret = Discarded THEN Null ELSE ret
    /\ pc' = "done"
    /\ UNCHANGED <<toks, arg, stack, cb, depth, said, told>>

\* The places where expect, unexpect or get_string throws.
Unexpected ==
    \/ pc = "call"  /\ (last.type \notin Begins \cup Scalars \/ last.str = Broken)
    \/ pc = "first" /\ last.type = "value_separator"
    \/ AtItem       /\ Top.kind = "object" /\ (last.type # "value_string" \/ last.str = Broken)
    \/ pc = "colon" /\ last.type # "name_separator"
    \/ pc = "close" /\ last.type # EndOf(Top.kind)
    \/ pc = "take"  /\ stack = <<>> /\ last.type # "end_of_input"

Throw ==
    /\ Unexpected
    /\ pc' = "thrown"
    /\ UNCHANGED <<toks, arg, stack, ret, cb, depth, said, told>>

Next ==
    \/ Parse \/ Begin("object", "begin_object") \/ Begin("array", "begin_array")
    \/ Empty \/ Comma \/ Key \/ Colon \/ Element \/ Scalar \/ Take \/ Close \/ Finish \/ Throw

Spec == Init /\ [][Next]_vars

-----------------------------------------------------------------------------
(* Properties.                                                             *)

\* Whether the callback said no to the beginning of a container.
Skipping == \E i \in DOMAIN said : toks[i].type \in Begins /\ ~said[i]

\* As long as the callback skips no container, the depth it is told is the true
\* one, which the comment on parser_callback_t states without the condition.
ToldTrueDepth == ~Skipping => told.depth = told.level

=============================================================================
