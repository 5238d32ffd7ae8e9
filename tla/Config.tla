------------------------------- MODULE Config -------------------------------
(***************************************************************************)
(* Config::Load (src/Config.cpp) and what main does with its result: the   *)
(* elements of the file in the order they are read, the files touched on   *)
(* the way, the ways the process ends, and the fields that stay unset.     *)
(* A field of type int or bool that has not been assigned is {}; one that  *)
(* has is a set with its value.                                            *)
(***************************************************************************)
EXTENDS BoostHelpers, FiniteSets

CONSTANT Inputs   \* what a launch meets: see Input

PathName == {"geocity", "geocountry", "socket", "lock", "pid"}
CookieField == {"name", "domain", "path"}
Option == {"-t", "-p", ""}

\* The elements of <log> and the flags they set; "0" stands for a text that
\* begins below '1', "1" for any other, {} for no element or no text.
LogFlag == {"coretime", "outsize", "ip", "country", "region", "cookie",
            "context", "search", "informerId", "location", "monitor"}
LogElement == LogFlag \cup {"commands"}

\* What is in the file.  time_update is {} or {<<h, m, s>>}, or {<<>>} for a
\* text that is no time; cookie is {} without a <cookie>.
File == [regular : BOOLEAN, xml : BOOLEAN, root : BOOLEAN, id : BOOLEAN,
         mongo : BOOLEAN, mongo_log : BOOLEAN, server : BOOLEAN,
         paths : SUBSET PathName, children : SUBSET Int,
         time_update : SUBSET Seq(Nat), cookie : SUBSET SUBSET CookieField,
         log : SUBSET [LogElement -> SUBSET {"0", "1"}]]

\* A file, a command line, the directories of every path, and the user.
Input == [file : File, option : Option, dirs : [PathName -> Seq(Node)],
          root : BOOLEAN]

\* The directories of a path on a disk: "/" is one, and what is not below a
\* directory is not there.
InPlace(d) ==
    /\ Len(d) > 1 /\ d[1].kind = "dir"
    /\ \A k \in 2..Len(d) : d[k].kind # "none" => d[k - 1].kind = "dir"

ASSUME ConfigAssumption ==
    \A i \in Inputs :
        /\ i.option \in Option /\ i.root \in BOOLEAN
        /\ i.file.paths \subseteq PathName /\ i.file.children \subseteq Int
        /\ Cardinality(i.file.children) <= 1 /\ Cardinality(i.file.log) <= 1
        /\ Cardinality(i.file.cookie) <= 1
        /\ Cardinality(i.file.time_update) <= 1
        /\ i.dirs \in [PathName -> Seq(Node)]
        /\ \A p \in PathName : InPlace(i.dirs[p])

VARIABLES
    file, option, root, \* the input
    dirs,               \* the directories of every path
    socketFile,         \* something is at the socket path
    pc,                 \* the element Load is at, then where main is
    mIsInited,          \* what Load returned
    passed,             \* the paths checkPath returned true for
    server_children_, time_update_, flags,
    cookie_             \* the cookie_..._ strings that are not empty

fields == <<server_children_, time_update_, flags, cookie_>>
input  == <<file, option, root>>
disk   == <<dirs, socketFile>>
vars   == <<input, disk, pc, mIsInited, passed, fields>>

Init ==
    /\ \E i \in Inputs : file = i.file /\ option = i.option /\ dirs = i.dirs
                       /\ root = i.root
    /\ socketFile \in BOOLEAN
    /\ pc = "open" /\ mIsInited = FALSE /\ passed = {}
    /\ server_children_ = {} /\ time_update_ = {} /\ cookie_ = {}
    /\ flags = [f \in LogFlag |-> {}]

Exit      == pc' = "exited"
Terminate == pc' = "terminated"   \* an exception nobody catches, or a crash

-----------------------------------------------------------------------------
(* Slips a change to this code could make; see the mutation runs.          *)

\* The path of the cookie is optional.
Cookie_NoPath ==
    /\ pc = "cookie"
    /\ IF file.cookie \in {{}, {CookieField}, {CookieField \ {"path"}}}
       THEN pc' = "log" /\ cookie_' = UNION file.cookie
       ELSE Exit /\ UNCHANGED cookie_
    /\ UNCHANGED <<input, disk, mIsInited, passed,
                   server_children_, time_update_, flags>>

\* A path that is refused is kept, as the socket's is.
Path_KeepsRefused(p, checkWrite, next) ==
    /\ pc = p
    /\ IF p \notin file.paths THEN pc' = next /\ UNCHANGED <<dirs, passed>>
       ELSE \E mkdir \in [Missing(dirs[p]) -> Mkdir] :
            LET c == CheckPath(root, dirs[p], checkWrite, mkdir) IN
            /\ dirs' = [dirs EXCEPT ![p] = c.dirs]
            /\ passed' = IF c.verdict = "true" THEN passed \cup {p} ELSE passed
            /\ IF c.verdict = "throw" THEN Terminate ELSE pc' = next
    /\ UNCHANGED <<input, socketFile, mIsInited, fields>>

-----------------------------------------------------------------------------
(* Load.                                                                   *)

\* Up to the root element.  A file that is not there is only reported.
Open ==
    /\ pc = "open"
    /\ IF ~file.regular THEN pc' = "main"
       ELSE IF ~file.xml \/ ~file.root THEN Exit
       ELSE IF ~file.id THEN Terminate   \* atoi(NULL)
       ELSE pc' = "mongo"
    /\ UNCHANGED <<input, disk, mIsInited, passed, fields>>

Mongo ==
    /\ pc = "mongo"
    /\ IF file.mongo /\ file.mongo_log /\ file.server THEN pc' = "geocity" ELSE Exit
    /\ UNCHANGED <<input, disk, mIsInited, passed, fields>>

\* An element with a path: checked, and the process ends when it is refused.
Path(p, checkWrite, next) ==
    /\ pc = p
    /\ IF p \notin file.paths THEN pc' = next /\ UNCHANGED <<dirs, passed>>
       ELSE \E mkdir \in [Missing(dirs[p]) -> Mkdir] :
            LET c == CheckPath(root, dirs[p], checkWrite, mkdir) IN
            /\ dirs' = [dirs EXCEPT ![p] = c.dirs]
            /\ passed' = IF c.verdict = "true" THEN passed \cup {p} ELSE passed
            /\ CASE c.verdict = "true"  -> pc' = next
                 [] c.verdict = "false" -> Exit
                 [] OTHER -> Terminate
    /\ UNCHANGED <<input, socketFile, mIsInited, fields>>

GeoCity == Path("geocity", FALSE, "geocountry")

\* geocountry_path is read and geocity_path is checked once more.  When that
\* one is empty, checkPath steps back from the beginning of an empty path.
GeoCountry ==
    /\ pc = "geocountry"
    /\ IF "geocountry" \in file.paths /\ "geocity" \notin file.paths
       THEN Terminate \/ pc' = "socket"
       ELSE pc' = "socket"
    /\ UNCHANGED <<input, disk, mIsInited, passed, fields>>

\* Whatever is at the socket path is unlinked, if its directory allows it.  A
\* path that is refused is kept all the same.
Socket ==
    /\ pc = "socket"
    /\ IF "socket" \notin file.paths THEN pc' = "children" /\ UNCHANGED <<disk, passed>>
       ELSE \E mkdir \in [Missing(dirs["socket"]) -> Mkdir] :
            LET c == CheckPath(root, dirs["socket"], TRUE, mkdir) IN
            /\ dirs' = [dirs EXCEPT !["socket"] = c.dirs]
            /\ socketFile' = (socketFile /\ ~(c.verdict = "true" /\ CanMake(root, Last(c.dirs))))
            /\ passed' = IF c.verdict = "true" THEN passed \cup {"socket"} ELSE passed
            /\ IF c.verdict = "throw" THEN Terminate ELSE pc' = "children"
    /\ UNCHANGED <<input, mIsInited, fields>>

Children ==
    /\ pc = "children"
    /\ server_children_' = IF file.children = {} THEN server_children_ ELSE file.children
    /\ pc' = "lock"
    /\ UNCHANGED <<input, disk, mIsInited, passed, time_update_, flags, cookie_>>

Lock == Path("lock", TRUE, "pid")
Pid  == Path("pid", TRUE, "time")

TimeUpdate ==
    /\ pc = "time"
    /\ time_update_' = IF file.time_update = {} THEN time_update_
                       ELSE {GetSeconds(t) : t \in file.time_update}
    /\ IF file.time_update # {} /\ time_update_' = {-1} THEN Exit ELSE pc' = "cookie"
    /\ UNCHANGED <<input, disk, mIsInited, passed, server_children_,
                   flags, cookie_>>

\* A <cookie> must have all three elements.
Cookie ==
    /\ pc = "cookie"
    /\ IF file.cookie \in {{}, {CookieField}}
       THEN pc' = "log" /\ cookie_' = UNION file.cookie
       ELSE Exit /\ UNCHANGED cookie_
    /\ UNCHANGED <<input, disk, mIsInited, passed,
                   server_children_, time_update_, flags>>

\* The flag an element's text gives.
On(text) == {t = "1" : t \in text}

\* monitor and commands set the same flag, commands last.
LogSection ==
    /\ pc = "log"
    /\ flags' = [f \in LogFlag |->
           IF file.log = {} THEN {FALSE}
           ELSE LET text == CHOOSE l \in file.log : TRUE IN
                IF f = "monitor" /\ text["commands"] # {} THEN On(text["commands"])
                ELSE IF text[f] # {} THEN On(text[f]) ELSE flags[f]]
    /\ mIsInited' = TRUE
    /\ pc' = "main"
    /\ UNCHANGED <<input, disk, passed, server_children_, time_update_,
                   cookie_>>

Load == \/ Open \/ Mongo \/ GeoCity \/ GeoCountry \/ Socket \/ Children
        \/ Lock \/ Pid \/ TimeUpdate \/ Cookie \/ LogSection

\* main after LoadConfig, whose result it does not look at.
Main ==
    /\ pc = "main"
    /\ pc' = CASE option = "-t" -> "Config: Ok"
               [] option = "-p" -> "pid printed"
               [] OTHER -> "serve"
    /\ UNCHANGED <<input, disk, mIsInited, passed, fields>>

Next == Load \/ Main

Spec == Init /\ [][Next]_vars

-----------------------------------------------------------------------------
(* Properties.                                                             *)

\* No mkdir of this path meets a full disk or another launch.
Untroubled(d) == [k \in Missing(d) |-> "done"]

\* checkPath makes the missing directories one by one and takes none of them back.
\* When it refuses a path, it has left some behind only if the disk or another
\* launch stopped it at a directory below them, never because of permissions or of
\* what is on the path, and has touched nothing that was there; and the launch that
\* tries again when the trouble is over has the verdict it would have had if the
\* first one had never been.
RefusalCanBeRetried ==
    \A p \in PathName, write \in BOOLEAN :
        \A mkdir \in [Missing(dirs[p]) -> Mkdir] :
            LET d == dirs[p]  c == CheckPath(root, d, write, mkdir) IN
            c.verdict # "true" =>
                /\ \A k \in DOMAIN d : c.dirs[k] # d[k] =>
                      /\ write /\ k \in Missing(d)
                      /\ \E j \in Missing(d) : j >= k /\ mkdir[j] # "done"
                /\ CheckPath(root, c.dirs, write, Untroubled(d)).verdict
                   = CheckPath(root, d, write, Untroubled(d)).verdict

\* main does not look at what LoadConfig returns and goes on, to serve, to print the
\* pid file or to say that the configuration is good. It does so with a file that
\* was read to its end, whose database and server it knows and whose checked paths
\* were all accepted, or with none at all and nothing set: never with a half of one.
GoesOnWithAllOrNothing ==
    pc \in {"main", "serve", "pid printed", "Config: Ok"} =>
        \/ /\ mIsInited
           /\ file.xml /\ file.root /\ file.id
           /\ file.mongo /\ file.mongo_log /\ file.server
           /\ file.paths \cap {"geocity", "lock", "pid"} \subseteq passed
        \/ /\ ~mIsInited /\ ~file.regular /\ passed = {}
           /\ server_children_ = {} /\ time_update_ = {} /\ cookie_ = {}
           /\ \A f \in LogFlag : flags[f] = {}

\* When Load succeeds, a number or a flag is unset only because the file has no
\* element for it, neither a missing <log> nor one that is incomplete leaving
\* other flags unset; the cookie's name, domain and path are all set or none; and,
\* when the socket's directory can be written, nothing is left at the socket path
\* for CgiService() to trip over.
LoadedIsComplete ==
    mIsInited =>
        /\ server_children_ = {} => file.children = {}
        /\ time_update_ = {} => file.time_update = {}
        /\ \A f \in LogFlag : flags[f] = {} => \E l \in file.log : l[f] = {}
        /\ cookie_ \in {{}, CookieField}
        /\ "socket" \in passed /\ CanMake(root, Last(dirs["socket"])) => ~socketFile
=============================================================================
