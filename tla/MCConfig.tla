------------------------------ MODULE MCConfig ------------------------------
(* Finite instances of Config for TLC.                                     *)
EXTENDS Config, TLC

\* The other classes have the bits the class that applies has not.
MCNode(kind, uid, gid, bits) ==
    [kind |-> kind, uid |-> uid, gid |-> gid,
     mode |-> [c \in Class |->
         IF c = (IF uid THEN "USR" ELSE IF gid THEN "GRP" ELSE "OTH")
         THEN bits ELSE Bit \ bits]]

MCTop(r) == MCNode("dir", r, r, {"R", "X"} \cup (IF r THEN {"W"} ELSE {}))
MCMissing == MCNode("none", FALSE, FALSE, {})
MCSpecial == MCNode("other", FALSE, FALSE, Bit)
MCOurs    == MCNode("dir", TRUE, TRUE, Bit)

MCOwners == {<<TRUE, FALSE>>, <<FALSE, TRUE>>, <<FALSE, FALSE>>}
MCNodes(kind) == {MCNode(kind, o[1], o[2], b) : o \in MCOwners, b \in SUBSET Bit}

\* Two directories below "/", in every state, and three and two missing ones below a
\* "/" that is ours, so that the first, the last or one between them fails.
MCPaths(r) ==
    {<<MCOurs, MCMissing, MCMissing>>, <<MCOurs, MCMissing, MCMissing, MCMissing>>} \cup {<<MCTop(r), n, MCMissing>> :
        n \in MCNodes("file") \cup MCNodes("dir") \cup {MCMissing, MCSpecial}}
    \cup {<<MCTop(r), n, m>> : n \in MCNodes("dir"),
            m \in MCNodes("file") \cup MCNodes("dir") \cup {MCSpecial}}

MCGoodDirs == [p \in PathName |-> <<MCTop(FALSE), MCOurs, MCOurs>>]
MCAllDirs(r) == {[MCGoodDirs EXCEPT ![p] = d] :
                       p \in {"geocity", "socket", "lock"}, d \in MCPaths(r)}

MCText(v) == [e \in LogElement |-> v]

\* config.xml, with a time_update.
MCFull == [regular |-> TRUE, xml |-> TRUE, root |-> TRUE, id |-> TRUE,
           mongo |-> TRUE, mongo_log |-> TRUE, server |-> TRUE,
           paths |-> PathName, children |-> {1}, time_update |-> {<<0, 10, 30>>},
           cookie |-> {CookieField}, log |-> {MCText({"0"})}]

MCFiles ==
    {MCFull, [MCFull EXCEPT !.regular = FALSE], [MCFull EXCEPT !.log = {}],
     [MCFull EXCEPT !.xml = FALSE], [MCFull EXCEPT !.root = FALSE],
     [MCFull EXCEPT !.id = FALSE], [MCFull EXCEPT !.mongo = FALSE],
     [MCFull EXCEPT !.mongo_log = FALSE], [MCFull EXCEPT !.server = FALSE],
     [MCFull EXCEPT !.children = {}], [MCFull EXCEPT !.children = {0}],
     [MCFull EXCEPT !.time_update = {}], [MCFull EXCEPT !.time_update = {<<>>}],
     [MCFull EXCEPT !.log = {MCText({})}],
     [MCFull EXCEPT !.log = {[MCText({"1"}) EXCEPT !["ip"] = {}]}],
     [MCFull EXCEPT !.log = {[MCText({"0"}) EXCEPT !["commands"] = {"1"}]}]}
    \cup {[MCFull EXCEPT !.paths = PathName \ {p}] : p \in PathName}
    \cup {[MCFull EXCEPT !.cookie = {c}] : c \in SUBSET CookieField}
    \cup {[MCFull EXCEPT !.cookie = {}]}

\* Every file on a good disk, and a good file on every disk.
MCInputs ==
    [file : MCFiles, option : Option, dirs : {MCGoodDirs}, root : {FALSE}]
    \cup UNION {[file : {MCFull}, option : {""}, dirs : MCAllDirs(r), root : {r}] :
                    r \in BOOLEAN}
=============================================================================
