--------------------------- MODULE MCJsonDocument ---------------------------
(* Finite instances of JsonDocument for TLC.                               *)
EXTENDS JsonDocument

\* Keys: a, 0, and those that must be escaped, ~1 and /.
KeyA == <<97>>
Zero0 == <<48>>
Tilde1 == <<126, 49>>
Slash1 == <<47>>

Nothing == Object([k \in {} |-> Null])

\* Arrays whose indices are not in the order of their texts, one in the other, and
\* objects in which 0 is the first key or comes after another.
Eleven(part) == Array([i \in 1..11 |-> IF i = 2 THEN part ELSE Unsigned(i)])
Twelve == Array([i \in 1..12 |-> IF i = 12 THEN Object(KeyA :> Null) ELSE Integer(-i)])
Long == {Eleven(Null), Eleven(Array(<<>>)), Eleven(Twelve), Object(KeyA :> Twelve @@ Tilde1 :> Unsigned(1))}
FirstZero == {Object(Zero0 :> v @@ k :> Unsigned(1)) :
                v \in {Unsigned(1), Array(<<Null, Unsigned(1)>>), Object(KeyA :> Null)},
                k \in {KeyA, <<>>, <<33>>, <<48, 33>>, <<49>>, <<50>>, <<49, 48>>, Slash1}}

\* Documents of depth two: arrays of up to three and objects of up to two parts.
Leaves == {Null, Unsigned(1), Integer(1), String(KeyA)}
Flat == {Array(s) : s \in UNION {[1..n -> {Unsigned(1), Null}] : n \in 0..2}} \cup
        {Object(f) : f \in UNION {[ks -> {Unsigned(1), Null}] : ks \in {{}, {KeyA}, {Tilde1}, {Zero0, Slash1}}}}
Parts == {Null, Unsigned(1), Array(<<>>), Array(<<Null, Unsigned(1)>>), Nothing,
          Object(KeyA :> Unsigned(1)), Object(Tilde1 :> Null @@ Slash1 :> Unsigned(1))}
Deep == {Array(s) : s \in UNION {[1..n -> Parts] : n \in 1..2} \cup [1..3 -> {Null, Unsigned(1), Nothing}]} \cup
        {Object(f) : f \in UNION {[ks -> Parts] : ks \in {{KeyA}, {Tilde1, Slash1}, {KeyA, Zero0}}}}
MCDocuments == Leaves \cup Flat \cup Deep \cup Long \cup FirstZero

\* Operations: every path into documents of depth two, proper or not.
Paths == {<<>>, <<47, 97>>, <<47, 48>>, <<47, 49>>, <<47, 50>>, <<47, 45>>, <<47, 48, 49>>, <<47, 48, 97>>, <<97>>,
          <<47, 126>>, <<47, 126, 48, 49>>, <<47, 126, 49>>, <<47, 97, 47, 97>>, <<47, 97, 47, 48>>, <<47, 48, 47, 49>>, <<47, 48, 47, 97>>,
          <<47, 97, 47, 97, 47, 97>>, Missing, NotAString}
FewPaths == {<<>>, <<47, 97>>, <<47, 48>>, <<47, 49>>, <<47, 45>>, <<47, 97, 47, 48>>, <<47, 48, 47, 97>>, <<47, 126, 48, 49>>}
Operations ==
    {Operation(op, p, Missing, v) : op \in {"add", "replace", "test"}, p \in Paths, v \in {Unsigned(1), Nothing, NoValue}} \cup
    {Operation("remove", p, Missing, NoValue) : p \in Paths} \cup
    {Operation(op, p, f, NoValue) : op \in {"move", "copy"}, p \in Paths, f \in FewPaths \cup {Missing, <<47, 126>>}} \cup
    {Operation(op, p, Missing, NoValue) : op \in {"not an object", "not a string", "invalid"}, p \in {<<>>, Missing}}
MCPatched == {Null, Unsigned(1), Nothing, Array(<<>>), Array(<<Unsigned(1), Null>>),
                 Array(<<Array(<<Unsigned(1)>>), Object(KeyA :> Null)>>),
                 Object(KeyA :> Array(<<Unsigned(1), Null>>)), Object(KeyA :> Object(KeyA :> Unsigned(1)) @@ Zero0 :> Null),
                 Object(Tilde1 :> Unsigned(1) @@ Slash1 :> Null)}
MCPatches == {<<o>> : o \in Operations} \cup
           {<<o, Operation("add", p, Missing, Array(<<>>))>> :
                o \in {x \in Operations : x.path \in FewPaths /\ x.op \in {"add", "remove", "move"}}, p \in FewPaths}

\* Numbers at the edges of the widths that the formats have.
Edges == {0, 1, 23, 24, 31, 32, 33, 127, 128, 129, 255, 256, 32767, 32768, 65535, 65536, 16777216, 2147483647}
Eight(a, b) == <<a, b, b, b, b, b, b, b>>
Big == {Eight(0, 255), Eight(127, 255), Eight(128, 0), Eight(255, 255), <<0, 0, 0, 1, 0, 0, 0, 0>>, <<0, 0, 0, 0, 255, 255, 255, 255>>,
        <<255, 255, 255, 255, 128, 0, 0, 0>>, <<255, 255, 255, 255, 127, 255, 255, 255>>, <<0, 0, 0, 0, 128, 0, 0, 0>>}
Half1 == <<63, 224, 0, 0, 0, 0, 0, 0>>                 \* 0.5
Numbers == {Unsigned(n) : n \in Edges} \cup {Integer(n) : n \in Edges} \cup {Integer(-n) : n \in Edges} \cup
           {<<t, b>> : t \in {"number_unsigned", "number_integer"}, b \in Big} \cup
           {<<"number_float", b>> : b \in {Zeroes(8), Eight(128, 0), Half1, <<191, 240, 0, 0, 0, 0, 0, 0>>, <<64, 8, 0, 0, 0, 0, 0, 1>>}}
Lengths == {0, 1, 15, 16, 23, 24, 31, 32, 255, 256}
MCWritten == Numbers \cup Leaves \cup Deep \cup {Boolean(TRUE), Boolean(FALSE)} \cup
           {String([i \in 1..n |-> 97]) : n \in Lengths \cup {65535, 65536}} \cup
           {Array([i \in 1..n |-> Null]) : n \in Lengths} \cup
           {Object([k \in {<<i>> : i \in 0..(n - 1)} |-> Null]) : n \in Lengths}

\* Bytes of other writers: what either format's first bytes say, before up to eight
\* bytes and an end.
MCSent == {<<b>> \o t : b \in 0..255,
                      t \in {<<>>, <<0>>, <<1, 97>>, <<60, 0>>, <<124, 1>>, <<97, 97, 255>>, <<96, 246, 255>>, <<246, 192, 255>>,
                             <<0, 0, 1, 97>>, <<63, 128, 0, 0>>, <<0, 0, 0, 1>>, <<255, 255, 255, 254, 0, 0, 0, 1>>,
                             <<0, 0, 0, 0, 0, 0, 0, 1, 97>>}}

MCCompared == {Null, Boolean(FALSE), Boolean(TRUE), String(<<>>), String(KeyA), String(Zero0), Nothing, Array(<<>>),
             Array(<<Null>>), Array(<<Unsigned(1)>>), Object(KeyA :> Null), Object(KeyA :> Integer(-1)), Object(Zero0 :> Null)} \cup
            {v \in Numbers : v[1] = "number_float"} \cup {Unsigned(n) : n \in {0, 1, 3}} \cup {Integer(n) : n \in {-3, -1, 0, 1}} \cup
            {<<"number_unsigned", Eight(128, 0)>>, <<"number_integer", Eight(128, 0)>>, <<"number_unsigned", Eight(255, 255)>>}
=============================================================================
