---------------------------- MODULE JsonDocument ----------------------------
(***************************************************************************)
(* What include/json.h does with a whole document: the patch that diff     *)
(* makes and patch applies operation by operation (RFC 6902), flatten and  *)
(* unflatten, and the way through a binary format, of whose bytes the last *)
(* ones may be lost.                                                       *)
(***************************************************************************)
EXTENDS JsonPointer, JsonBinary

CONSTANTS
    Documents,       \* values to make diffs of and to flatten
    Patched, Patches, \* values, and the patches for them
    Written,         \* values to write in a binary format
    Sent,            \* bytes that others wrote
    Compared,        \* values to compare
    Lost             \* how many bytes may be missing at the end, 0 among them

ASSUME LostAssumption == 0 \in Lost /\ Lost \subseteq Nat

VARIABLES
    input,           \* [task, source, target, rest]: what a caller does with which document;
                     \* rest is the patch, bytes from elsewhere, or a third value to compare
    doc,             \* result of patch, flatten, unflatten, from_cbor and from_msgpack
    script,          \* the operations of the patch that are still to come
    vec,             \* [format, bytes, whole]: what was written
    outcome          \* "running", "done", or what was thrown

vars == <<input, doc, script, vec, outcome>>

\* An operation of a patch. A member may be missing, and a path no string.
Missing    == <<-1>>
NotAString == <<-2>>
NoValue    == <<"missing", 0>>
Operation(op, path, from, value) == [op |-> op, path |-> path, from |-> from, value |-> value]

-----------------------------------------------------------------------------
(* diff.                                                                   *)

\* A slip of Removals: elements are removed from the first to the last.
Removals_Forward(path, from, to) ==
    [j \in 1..(to - from) |-> Operation("remove", path \o <<Slash>> \o Digits(from + j - 1), Missing, NoValue)]

\* The elements of an array that go, each inserted before those of lower index.
Removals(path, from, to) ==
    [j \in 1..(to - from) |-> Operation("remove", path \o <<Slash>> \o Digits(to - j), Missing, NoValue)]

RECURSIVE Diff(_, _, _)
Diff(source, target, path) ==
    LET below(token) == path \o <<Slash>> \o token
        Common == IF Len(source[2]) < Len(target[2]) THEN Len(source[2]) ELSE Len(target[2])
        OfKey(k) == IF k \in DOMAIN target[2] THEN Diff(source[2][k], target[2][k], below(Escape(k)))
                    ELSE <<Operation("remove", below(Escape(k)), Missing, NoValue)>>
        New == Sorted(DOMAIN target[2] \ DOMAIN source[2])
    IN CASE Equal(source, target) -> <<>>
         [] ~Equal(source, target) /\ source[1] = "array" /\ target[1] = "array" ->
                FlattenSeq([i \in 1..Common |-> Diff(source[2][i], target[2][i], below(Digits(i - 1)))])
                \o Removals(path, Common, Len(source[2]))
                \o [j \in 1..(Len(target[2]) - Common) |->
                        Operation("add", below(Digits(Common + j - 1)), Missing, target[2][Common + j])]
         [] ~Equal(source, target) /\ source[1] = "object" /\ target[1] = "object" ->
                FlattenSeq([i \in DOMAIN SortedKeys(source[2]) |-> OfKey(SortedKeys(source[2])[i])])
                \o [i \in DOMAIN New |-> Operation("add", below(Escape(New[i])), Missing, target[2][New[i]])]
         [] OTHER -> <<Operation("replace", path, Missing, target)>>

-----------------------------------------------------------------------------
(* The operations of patch.                                                *)

\* get_value, and the pointer that a string member is.
Text(member) == IF member \in {Missing, NotAString} THEN Fail("invalid_argument") ELSE Ok(member)
Pointer(member) == IF Text(member).ok THEN Split(member) ELSE Text(member)
Value(op) == IF op.value = NoValue THEN Fail("invalid_argument") ELSE Ok(op.value)

\* What result[ptr] refers to when it can be followed: what is there, or a new null.
There(d, ptr) == IF At(d, ptr).ok THEN At(d, ptr).value ELSE Null

\* The parent with a value added to it.
AddTo(parent, token, value) ==
    LET i == StoI(token) IN
    CASE parent[1] \in {"null", "object"} -> Ok(SetKey(WithKey(parent, token), token, value))
      [] parent[1] = "array" /\ token = Minus -> Ok(PushBack(parent, value))
      [] parent[1] = "array" /\ token # Minus ->
            IF ~i.ok THEN i
            ELSE IF i.value > Len(parent[2]) THEN Fail("out_of_range")
            ELSE Ok(InsertIndex(parent, i.value, value))
      [] OTHER -> Fail("assertion")

OperationAdd(d, ptr, value) ==
    LET top    == At(d, <<ptr[1]>>)
        opened == Assign(d, Front(ptr), There(d, Front(ptr)), FALSE)
        added  == AddTo(There(d, Front(ptr)), Last(ptr), value)
    IN IF ptr = <<>> THEN Ok(value)
       ELSE IF Len(ptr) > 1 /\ ~top.ok THEN top
       ELSE IF ~opened.ok THEN opened
       ELSE IF ~added.ok THEN added
       ELSE Assign(d, Front(ptr), added.value, FALSE)

\* A slip of OperationRemove: an element is overwritten and not erased.
OperationRemove_Nulls(d, ptr) ==
    IF ptr = <<>> THEN Fail("domain_error") ELSE IF At(d, ptr).ok THEN Assign(d, ptr, Null, FALSE) ELSE At(d, ptr)

OperationRemove(d, ptr) ==
    LET parent == At(d, Front(ptr))
        i      == StoI(Last(ptr))
        left   == CASE parent.value[1] = "object" ->
                          IF Last(ptr) \in DOMAIN parent.value[2] THEN Ok(EraseKey(parent.value, Last(ptr)))
                          ELSE Fail("out_of_range")
                    [] parent.value[1] = "array"  -> IF i.ok THEN EraseIndex(parent.value, i.value) ELSE i
                    [] OTHER -> parent
    IN IF ptr = <<>> THEN Fail("domain_error")
       ELSE IF ~parent.ok THEN parent
       ELSE IF ~left.ok THEN left
       ELSE Assign(d, Front(ptr), left.value, FALSE)

-----------------------------------------------------------------------------
(* patch.                                                                  *)

\* What a caller starts with.
Begin(task, source, target, rest) ==
    /\ input = [task |-> task, source |-> source, target |-> target, rest |-> rest]
    /\ doc = source
    /\ script = CASE task = "diff"  -> Diff(source, target, <<>>)
                [] task = "patch" -> rest
                [] OTHER -> <<>>
    /\ vec = [format |-> "", bytes |-> <<>>, whole |-> TRUE]
    /\ outcome = "running"

Init ==
    \/ \E s \in Documents, t \in Documents : Begin("diff", s, t, <<>>)
    \/ \E s \in Patched, p \in Patches : Begin("patch", s, Null, p)
    \/ \E s \in Documents : Begin("flatten", s, Null, <<>>)
    \/ \E s \in Written : Begin("binary", s, Null, <<>>)
    \/ \E b \in Sent : Begin("bytes", Null, Null, b)
    \/ \E s, t, u \in Compared : Begin("compare", s, t, u)

\* An operation ends with a document, or throws and ends the patch.
Result(r) ==
    /\ outcome' = IF r.ok THEN "running" ELSE r.what
    /\ doc' = IF r.ok THEN r.value ELSE doc
    /\ script' = Tail(script)
    /\ UNCHANGED <<input, vec>>

PtrOf == Pointer(Head(script).path)

\* The next operation is op, and its path is a pointer.
Executes(op) ==
    /\ outcome = "running" /\ input.task \in {"diff", "patch"} /\ script # <<>>
    /\ Head(script).op = op /\ PtrOf.ok

\* No object, no operation, no path: thrown before there is anything to do.
Malformed ==
    /\ outcome = "running" /\ input.task \in {"diff", "patch"} /\ script # <<>>
    /\ \/ Head(script).op \in {"not an object", "not a string"} /\ Result(Fail("invalid_argument"))
       \/ Head(script).op \notin {"not an object", "not a string"} /\ ~PtrOf.ok /\ Result(PtrOf)
       \/ Head(script).op = "invalid" /\ PtrOf.ok /\ Result(Fail("invalid_argument"))

AddOp ==
    /\ Executes("add")
    /\ LET v == Value(Head(script)) IN
       Result(IF v.ok THEN OperationAdd(doc, PtrOf.value, v.value) ELSE v)

RemoveOp == Executes("remove") /\ Result(OperationRemove(doc, PtrOf.value))

\* Both sides of an assignment and of a comparison may throw, in either order.
ReplaceOp ==
    /\ Executes("replace")
    /\ LET v == Value(Head(script))  at == At(doc, PtrOf.value) IN
       \/ ~v.ok /\ Result(v)
       \/ ~at.ok /\ Result(at)
       \/ v.ok /\ at.ok /\ Result(Assign(doc, PtrOf.value, v.value, FALSE))

MoveOp ==
    /\ Executes("move")
    /\ LET from    == Pointer(Head(script).from)
           v       == At(doc, from.value)
           removed == OperationRemove(doc, from.value)
       IN Result(IF ~from.ok THEN from
                 ELSE IF ~v.ok THEN v
                 ELSE IF ~removed.ok THEN removed
                 ELSE OperationAdd(removed.value, PtrOf.value, v.value))

\* result[ptr] may make what is not there before or after the value is read.
CopyOp ==
    /\ Executes("copy")
    /\ LET from == Pointer(Head(script).from)
           open == Assign(doc, PtrOf.value, There(doc, PtrOf.value), FALSE)
           Assigned(d, ptr) ==
               LET v == At(d, from.value) IN
               IF v.ok THEN Assign(d, ptr, v.value, FALSE) ELSE v
       IN \/ ~from.ok /\ Result(from)
          \/ from.ok /\ Result(Assigned(doc, PtrOf.value))
          \/ from.ok /\ Result(IF open.ok THEN Assigned(open.value, Resolved(open.value, PtrOf.value)) ELSE open)

TestOp ==
    /\ Executes("test")
    /\ LET v == Value(Head(script))  at == At(doc, PtrOf.value)
           Unsuccessful == Fail(IF at.ok \/ at.what = "out_of_range" THEN "domain_error" ELSE at.what)
       IN \/ ~v.ok /\ Result(v)
          \/ ~at.ok /\ Result(Unsuccessful)
          \/ v.ok /\ at.ok /\ Result(IF Equal(at.value, v.value) THEN Ok(doc) ELSE Unsuccessful)

\* Every operation was executed.
Finish ==
    /\ outcome = "running" /\ input.task \in {"diff", "patch"} /\ script = <<>>
    /\ outcome' = "done"
    /\ UNCHANGED <<input, doc, script, vec>>

-----------------------------------------------------------------------------
(* flatten and unflatten, and the binary formats.                          *)

FlattenIt ==
    /\ outcome = "running" /\ input.task = "flatten"
    /\ doc' = Flatten(doc) /\ outcome' = "flat"
    /\ UNCHANGED <<input, script, vec>>

UnflattenIt ==
    /\ outcome = "flat"
    /\ LET r == Unflatten(doc) IN
       /\ outcome' = IF r.ok THEN "done" ELSE r.what
       /\ doc' = IF r.ok THEN r.value ELSE doc
    /\ UNCHANGED <<input, script, vec>>

Write ==
    /\ outcome = "running" /\ input.task = "binary"
    /\ \E format \in Formats, n \in Lost :
          LET bytes == ToBinary(format, doc) IN
          /\ n < Len(bytes)
          /\ vec' = [format |-> format, bytes |-> SubSeq(bytes, 1, Len(bytes) - n), whole |-> n = 0]
    /\ outcome' = "written"
    /\ UNCHANGED <<input, doc, script>>

\* Bytes that come from somewhere else.
Receive ==
    /\ outcome = "running" /\ input.task = "bytes"
    /\ \E format \in Formats : vec' = [format |-> format, bytes |-> input.rest, whole |-> TRUE]
    /\ outcome' = "written"
    /\ UNCHANGED <<input, doc, script>>

Read ==
    /\ outcome = "written"
    /\ LET r == FromBinary(vec.format, vec.bytes, 0) IN
       /\ outcome' = IF r.ok THEN "done" ELSE r.what
       /\ doc' = r.value
    /\ UNCHANGED <<input, script, vec>>

Next ==
    \/ Malformed \/ AddOp \/ RemoveOp \/ ReplaceOp \/ MoveOp \/ CopyOp \/ TestOp \/ Finish
    \/ FlattenIt \/ UnflattenIt \/ Write \/ Receive \/ Read

Spec == Init /\ [][Next]_vars

-----------------------------------------------------------------------------
(* Properties.                                                             *)

\* The invariant of diff's documentation, source.patch(diff(source, target)) ==
\* target: no operation of a diff throws, and after all of them the document
\* equals the target, whatever the order of removals and the keys.
PatchOfDiff ==
    input.task = "diff" => /\ outcome \in {"running", "done"}
                           /\ outcome = "done" => Equal(doc, input.target)

\* RFC 6902 of a pointer that has a parent: e is d with the value w added (how is
\* "add"), or w in the place of what is there ("replace").
RECURSIVE Changed(_, _, _, _, _)
Changed(how, d, ptr, w, e) ==
    LET k == ptr[1]
        i == StoI(k).value
        last == Len(ptr) = 1
    IN CASE ptr = <<>> -> e = w
         [] ptr # <<>> /\ d[1] = "object" ->
              /\ e[1] = "object"
              /\ DOMAIN e[2] = DOMAIN d[2] \cup (IF last THEN {k} ELSE {})
              /\ \A x \in DOMAIN e[2] \ {k} : e[2][x] = d[2][x]
              /\ IF last THEN e[2][k] = w ELSE Changed(how, d[2][k], Tail(ptr), w, e[2][k])
         [] ptr # <<>> /\ d[1] = "array" /\ last /\ how = "add" ->
              LET at == IF k = Minus THEN Len(d[2]) ELSE i IN
              /\ e[1] = "array" /\ Len(e[2]) = Len(d[2]) + 1
              /\ e[2] = SubSeq(d[2], 1, at) \o <<w>> \o SubSeq(d[2], at + 1, Len(d[2]))
         [] ptr # <<>> /\ d[1] = "array" /\ ~(last /\ how = "add") ->
              /\ e[1] = "array" /\ Len(e[2]) = Len(d[2])
              /\ \A x \in DOMAIN e[2] \ {i + 1} : e[2][x] = d[2][x]
              /\ IF last THEN e[2][i + 1] = w ELSE Changed(how, d[2][i + 1], Tail(ptr), w, e[2][i + 1])
         [] OTHER -> FALSE

\* A pointer as RFC 6901 has them: an array's elements go by numbers without a
\* leading zero. stoi and the patch take others for the number they start with.
Proper(ptr) == \A j \in DOMAIN ptr : ptr[j] # <<>> /\ IsDigit(ptr[j][1]) => AllDigits(ptr[j]) /\ ~LeadingZero(ptr[j])
HasParent(d, ptr) == ptr = <<>> \/ (At(d, Front(ptr)).ok /\ IsContainer(At(d, Front(ptr)).value))

\* e is d with w assigned to the place that a pointer names, there or not: what is
\* missing on the way is made, with null for the elements before it, and so is
\* a null on the way; what is not on the way stays as it is.
RECURSIVE Created(_, _, _, _)
Created(d, ptr, w, e) ==
    LET k  == ptr[1]
        at == IF k = Minus THEN Len(d[2]) + 1 ELSE StoI(k).value + 1
        IsIndex == k = Minus \/ (k # <<>> /\ IsDigit(k[1]))
        Old(x) == IF x \in DOMAIN d[2] THEN d[2][x] ELSE Null
    IN CASE ptr = <<>> -> e = w
         [] ptr # <<>> /\ d[1] = "null" ->
              \/ IsIndex /\ Created(Array(<<>>), ptr, w, e)
              \/ Created(Object([x \in {} |-> Null]), ptr, w, e)
         [] ptr # <<>> /\ d[1] = "object" ->
              /\ e[1] = "object" /\ DOMAIN e[2] = DOMAIN d[2] \cup {k}
              /\ \A x \in DOMAIN e[2] \ {k} : e[2][x] = d[2][x]
              /\ Created(Old(k), Tail(ptr), w, e[2][k])
         [] ptr # <<>> /\ d[1] = "array" ->
              /\ IsIndex
              /\ e[1] = "array" /\ DOMAIN e[2] = DOMAIN d[2] \cup 1..at
              /\ \A x \in DOMAIN e[2] \ {at} : e[2][x] = Old(x)
              /\ Created(Old(at), Tail(ptr), w, e[2][at])
         [] OTHER -> FALSE

\* Where a value is added: before the element a pointer names, or, if the pointer
\* has no parent yet, in one that is made for it, which RFC 6902 forbids.
Added(d, ptr, w, e) == IF HasParent(d, ptr) THEN Changed("add", d, ptr, w, e) ELSE Created(d, ptr, w, e)

\* What an operation that succeeds does to the document d. It is what RFC 6902 says
\* but for three things: a missing parent is made by add, move and copy; a remove
\* below a scalar does nothing; a copy overwrites the element of an array that
\* RFC 6902 would shift, and fills up with null to one far behind the end.
\* Nothing is said of a copy into the value that is copied, or of one that is only
\* made by following the pointer to the target: those depend on the compiler.
Required(op, d, ptr, e) ==
    CASE op.op = "add"     -> Added(d, ptr, op.value, e)
      [] op.op = "remove"  -> IF HasParent(d, ptr) THEN At(d, ptr).ok /\ Changed("add", e, ptr, At(d, ptr).value, d)
                              ELSE e = d
      [] op.op = "replace" -> At(d, ptr).ok /\ Changed("replace", d, ptr, op.value, e)
      [] op.op = "copy"    -> \A v \in {At(d, Split(op.from).value)} :
                                v.ok /\ ~IsPrefix(Split(op.from).value, ptr) => Created(d, ptr, v.value, e)
      [] op.op = "move"    -> \E v \in {At(d, Split(op.from).value)} :
                                \E left \in {OperationRemove(d, Split(op.from).value).value} :
                                   /\ v.ok /\ Changed("add", left, Split(op.from).value, v.value, d)
                                   /\ Added(left, ptr, v.value, e)
      [] op.op = "test"    -> At(d, ptr).ok /\ Equal(At(d, ptr).value, op.value) /\ e = d
      [] OTHER -> TRUE

\* Each operation of a patch that succeeds, with pointers that RFC 6901 has, makes
\* the one change that Required names and none anywhere else in the document,
\* however it went through erase, insert, operator[] and the nulls on the way; and
\* what remove and move take out can be added back in its place.
PatchSteps ==
    [][ LET op == Head(script)  ptr == Pointer(op.path) IN
        (/\ input.task \in {"diff", "patch"} /\ script # <<>> /\ outcome' = "running"
         /\ Proper(ptr.value)
         /\ op.op \in {"move", "copy"} => Proper(Split(op.from).value))
        => Required(op, doc, ptr.value, doc') ]_vars

\* The value with null for its empty containers, which is what flatten makes of them.
RECURSIVE Emptied(_)
Emptied(v) ==
    CASE IsContainer(v) /\ DOMAIN v[2] = {} -> Null
      [] v[1] = "array"  -> Array([i \in DOMAIN v[2] |-> Emptied(v[2][i])])
      [] v[1] = "object" -> Object([k \in DOMAIN v[2] |-> Emptied(v[2][k])])
      [] OTHER -> v

\* No object in a value has "0" as its first key once they are escaped, which
\* unflatten would take for the start of an array.
RECURSIVE Restorable(_)
Restorable(v) ==
    /\ IsContainer(v) => \A x \in DOMAIN v[2] : Restorable(v[2][x])
    /\ v[1] = "object" /\ <<Zero>> \in DOMAIN v[2] =>
          \E l \in DOMAIN v[2] : BytesLess(Escape(l), <<Zero>>)

\* What is left of a value when unflatten succeeds all the same: an object with the
\* key "0" may have become an array, its parts at the numbers that their keys
\* start with, of which one may have taken the place of another.
RECURSIVE Regained(_, _)
Regained(v, e) ==
    LET Parts == DOMAIN v[2]
        Place(k) == StoI(k).value + 1
    IN \/ Equal(Emptied(v), e)
       \/ /\ IsContainer(v) /\ Parts # {} /\ e[1] = v[1] /\ DOMAIN e[2] = Parts
          /\ \A x \in Parts : Regained(v[2][x], e[2][x])
       \/ /\ v[1] = "object" /\ e[1] = "array" /\ <<Zero>> \in Parts
          /\ \A k \in Parts : StoI(k).ok /\ Place(k) \in DOMAIN e[2]
          /\ \A i \in DOMAIN e[2], k \in Parts :
                {l \in Parts : Place(l) = i} = {k} => Regained(v[2][k], e[2][i])

\* A value in which no object begins with the key "0" is restored from its flat form,
\* but for empty containers, which come back as null: keys are escaped, and an array of
\* eleven elements or more finds its order again, filled up with null on the
\* way, although the keys come in the order of their texts (/10 before /2). Of any
\* other value nothing is lost but where two of an object's keys start with one
\* number. And ptr == json_pointer(ptr.to_string()) (to_string's documentation)
\* of every path of an operation.
PointersRestore ==
    /\ input.task = "flatten" /\ Restorable(input.source) =>
          /\ outcome \in {"running", "flat", "done"}
          /\ outcome = "done" => Equal(doc, Emptied(input.source))
    /\ input.task = "flatten" /\ outcome = "done" => Regained(input.source, doc)
    /\ script # <<>> /\ Text(Head(script).path).ok /\ PtrOf.ok =>
          Split(PointerText(PtrOf.value)) = PtrOf

\* What is written in a binary format and read again equals what it was, at every
\* width of a number or a length; a document that lost its last bytes is refused,
\* and nothing outside of the vector is read for it; and what other writers may
\* send (indefinite lengths, short floats, wider numbers than needed) becomes a
\* value that both formats can carry again.
BinaryFaithful ==
    /\ input.task = "binary" /\ vec.whole /\ outcome # "running" =>
          /\ outcome \in {"written", "done"}
          /\ outcome = "done" => Equal(doc, input.source)
    /\ ~vec.whole => outcome \in {"written", "out_of_range"}
    /\ input.task = "bytes" /\ outcome = "done" /\ Equal(doc, doc) =>
          \A format \in Formats :
              LET r == FromBinary(format, ToBinary(format, doc), 0) IN r.ok /\ Equal(r.value, doc)

\* Of two values one is less or both are equal, and less is transitive as long as
\* no unsigned number is 2^63 or more: those are compared as if they were negative.
Wide(v) == v[1] = "number_unsigned" /\ Negative(v[2])
ValuesOrdered ==
    input.task = "compare" =>
        LET v == input.source  w == input.target  x == input.rest IN
        /\ Cardinality({r \in {"<", "=", ">"} : CASE r = "<" -> Less(v, w) [] r = "=" -> Equal(v, w) [] r = ">" -> Less(w, v)}) = 1
        /\ ~Wide(v) /\ ~Wide(w) /\ ~Wide(x) /\ ~Less(v, w) /\ ~Less(w, x) => ~Less(v, x)
=============================================================================
