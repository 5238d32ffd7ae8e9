----------------------------- MODULE JsonGrammar ----------------------------
(***************************************************************************)
(* What JsonParser should do, stated apart from it: the grammar of RFC     *)
(* 7159 over tokens, the value a text stands for under the answers of a    *)
(* callback, and dump, whose output must stand for the value it came from. *)
(***************************************************************************)
EXTENDS JsonParser, SequencesExt

-----------------------------------------------------------------------------
(* dump, as the tokens it writes. A token carries the scalar it stands for. *)

Mark(type, id) == [type |-> type, str |-> NoKey, id |-> id]
Word(type)     == Mark(type, 0)

\* A comma before every part but the first.
Separated(parts) ==
    FlattenSeq([i \in DOMAIN parts |->
                   IF i = 1 THEN parts[i] ELSE <<Word("value_separator")>> \o parts[i]])

Bracketed(kind, parts) ==
    <<Word("begin_" \o kind)>> \o Separated(parts) \o <<Word("end_" \o kind)>>

RECURSIVE Dump(_)
Dump(v) ==
    CASE v[1] = "array"  -> Bracketed("array", [i \in DOMAIN v[2] |-> Dump(v[2][i])])
      [] v[1] = "object" ->
            LET keys == SetToSeq(DOMAIN v[2]) IN
            Bracketed("object", [i \in DOMAIN keys |->
                <<[Word("value_string") EXCEPT !.str = keys[i]], Word("name_separator")>>
                \o Dump(v[2][keys[i]])])
      [] OTHER           -> <<Mark(v[1], v[2])>>

-----------------------------------------------------------------------------
(* The texts of the grammar, by their number of tokens.                    *)

W(type) == <<Token(type, NoKey)>>
Concat(A, B) == {a \o b : a \in A, b \in B}

\* The texts with n tokens, given those with fewer: the values, and what may be
\* between the brackets of an array and of an object.
Longer(shorter, n) ==
    LET Value(k)  == shorter[k + 1].value
        Member(k) == IF k < 3 THEN {} ELSE
                     {<<Token("value_string", key)>> \o W("name_separator") \o v :
                          key \in Keys, v \in shorter[k - 1].value}
        Between(open, inner, close) == Concat(Concat({W(open)}, inner), {W(close)})
        values == IF n = 1 THEN {<<t>> : t \in {u \in Tokens : u.type \in Scalars /\ u.str # Broken}}
                  ELSE Between("begin_array", shorter[n - 1].elements, "end_array") \cup
                       Between("begin_object", shorter[n - 1].members, "end_object")
        \* One part, a comma and the others.
        Several(One(_), Others(_)) ==
            UNION {Concat(Concat(One(k), {W("value_separator")}), Others(n - k - 1)) :
                       k \in 1..(n - 2)}
    IN [value    |-> values,
        elements |-> values \cup Several(Value, LAMBDA k : shorter[k + 1].elements),
        members  |-> Member(n) \cup Several(Member, LAMBDA k : shorter[k + 1].members)]

Grammar ==
    LET none == [value |-> {}, elements |-> {<<>>}, members |-> {<<>>}]
        all  == FoldLeft(LAMBDA shorter, n : Append(shorter, Longer(shorter, n)), <<none>>,
                         [n \in 1..MaxTokens |-> n])
    IN UNION {all[n + 1].value : n \in 1..MaxTokens}

\* All beginnings of texts, each with the end of input.
Beginnings ==
    UNION {{SubSeq(t \o W("end_of_input"), 1, n) : n \in 0..(Len(t) + 1)} : t \in Grammar}

-----------------------------------------------------------------------------
(* The value of a text, in which Keep(i) is the answer about its i-th token. *)

Invalid == <<"invalid", 0>>

Meaning(ts, Keep(_)) ==
    LET Nested(a, b) == Cardinality({k \in a..b : ts[k].type \in Begins})
                        - Cardinality({k \in a..b : ts[k].type \in {"end_object", "end_array"}})
        \* The places before, between and behind the parts of a container.
        Cuts(i, j) == SetToSortSeq({i, j} \cup {k \in (i + 1)..(j - 1) :
                          ts[k].type = "value_separator" /\ Nested(i + 1, k - 1) = 0}, <)
        value[i \in 1..Len(ts), j \in 1..Len(ts)] ==
            LET cuts  == Cuts(i, j)
                parts == IF j = i + 1 THEN {} ELSE 1..(Len(cuts) - 1)
                From(p) == cuts[p] + 1
                To(p)   == cuts[p + 1] - 1
                Elem(p) == IF From(p) <= To(p) THEN value[From(p), To(p)] ELSE Invalid
                Named(p) == /\ From(p) + 2 <= To(p)
                            /\ ts[From(p)].type = "value_string" /\ ts[From(p)].str # Broken
                            /\ ts[From(p) + 1].type = "name_separator"
                Memb(p) == IF Named(p) THEN value[From(p) + 2, To(p)] ELSE Invalid
                Whole(v) == IF Keep(i) /\ Keep(j) THEN v ELSE Discarded
            IN
            IF i > j THEN Invalid
            ELSE IF i = j
            THEN IF ts[i].type \in Scalars /\ ts[i].str # Broken
                 THEN IF Keep(i) THEN <<ts[i].type, ts[i].id>> ELSE Discarded
                 ELSE Invalid
            ELSE IF ts[i].type = "begin_array" /\ ts[j].type = "end_array"
            THEN IF \E p \in parts : Elem(p) = Invalid THEN Invalid
                 ELSE LET all == IF parts = {} THEN <<>> ELSE [p \in parts |-> Elem(p)] IN
                      Whole(<<"array", SelectSeq(all, LAMBDA v : v # Discarded)>>)
            ELSE IF ts[i].type = "begin_object" /\ ts[j].type = "end_object"
            THEN IF \E p \in parts : Memb(p) = Invalid THEN Invalid
                 ELSE LET kept == {p \in parts : Keep(From(p)) /\ Memb(p) # Discarded}
                          With(k) == {p \in kept : ts[From(p)].str = k}
                      IN Whole(<<"object", [k \in {ts[From(p)].str : p \in kept} |->
                                               Memb(Max(With(k)))]>>)
            ELSE Invalid
    IN value[1, Len(ts)]

Text == [i \in 1..(Len(toks) - 1) |-> [type |-> toks[i].type, str |-> toks[i].str, id |-> i]]
Said(i) == i \in DOMAIN said => said[i]
Always(i) == TRUE

-----------------------------------------------------------------------------
(* Properties.                                                             *)

\* parse throws only for what no continuation could make a text of the grammar,
\* and what it returns is the value of a text: members in order, the last of
\* equal keys, and nothing that the callback said no to. Parsing what dump writes
\* of that value gives it again.
ParsesTheGrammar ==
    /\ pc = "thrown" => toks \notin Beginnings
    /\ pc = "done" =>
          LET v == Meaning(Text, Said) IN
          /\ v # Invalid /\ ret = IF v = Discarded THEN Null ELSE v
          /\ Meaning(Dump(ret), Always) = ret
=============================================================================
