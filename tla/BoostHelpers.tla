---------------------------- MODULE BoostHelpers ----------------------------
(***************************************************************************)
(* The helpers of src/BoostHelpers.cpp that Config::Load uses, as          *)
(* operators.  A path is the sequence of the directories that lead to a    *)
(* file, "/" first; a directory that is missing is a node too.             *)
(***************************************************************************)
EXTENDS Integers, Sequences, SequencesExt

Bit   == {"R", "W", "X"}
Class == {"USR", "GRP", "OTH"}
Kind  == {"none", "file", "dir", "other"}

\* uid, gid: whether the node's owner or group is the process's own.
Node == [kind : Kind, uid : BOOLEAN, gid : BOOLEAN, mode : [Class -> SUBSET Bit]]

\* The mode bits that apply: the owner's, else the group's, else the others'.
Bits(n) == n.mode[IF n.uid THEN "USR" ELSE IF n.gid THEN "GRP" ELSE "OTH"]

\* What the kernel grants: looking a name up, and making one, in a directory.
\* It asks for no mode bits when the process runs as root.
CanSearch(root, n) == n.kind = "dir" /\ (root \/ "X" \in Bits(n))
CanMake(root, n)   == CanSearch(root, n) /\ (root \/ "W" \in Bits(n))

\* A directory create_directories makes.
NewDir == [kind |-> "dir", uid |-> TRUE, gid |-> TRUE,
           mode |-> [c \in Class |-> IF c = "OTH" THEN {"R", "X"} ELSE Bit]]

\* What checkPath accepts of a node that exists: one of two bits is enough.
Accepts(n) == CASE n.kind = "file" -> Bits(n) \cap {"R", "W"} # {}
                [] n.kind = "dir"  -> Bits(n) \cap {"R", "X"} # {}
                [] OTHER -> FALSE

\* What becomes of a mkdir the permissions allow: it is done, another launch has
\* made the directory since exists() was asked, or the disk has an error (it is
\* full, over quota, read-only).
Mkdir == {"done", "exists", "error"}

\* The directories of a path that are not there, the only ones it is called for.
Missing(dirs) == {k \in DOMAIN dirs : dirs[k].kind = "none"}

\* A slip of Visit: the loop goes on after a refusal.
Visit_MakeFirst(root, checkWrite, mkdir, s, k) ==
    LET n == s.dirs[k]  up == s.dirs[k - 1] IN
    IF n.kind = "none" /\ checkWrite /\ CanMake(root, up) /\ mkdir[k] = "done"
    THEN [s EXCEPT !.dirs[k] = NewDir]
    ELSE IF s.verdict = "true" /\ Accepts(n) THEN s
    ELSE [s EXCEPT !.verdict = "false"]

\* One turn of checkPath's loop.  exists() throws when the directory above may
\* not be searched; below a regular file it finds nothing.  create_directories
\* fails where mkdir does, on what exists and is no directory, and says false of
\* a directory it did not make itself: a refusal, all of them.
Visit(root, checkWrite, mkdir, s, k) ==
    LET n == s.dirs[k]  up == s.dirs[k - 1] IN
    IF s.verdict # "true" THEN s
    ELSE IF up.kind = "dir" /\ ~CanSearch(root, up) THEN [s EXCEPT !.verdict = "throw"]
    ELSE IF n.kind # "none" THEN
        [s EXCEPT !.verdict = IF Accepts(n) THEN "true" ELSE "false"]
    ELSE IF ~checkWrite \/ ~CanMake(root, up) \/ mkdir[k] = "error"
    THEN [s EXCEPT !.verdict = "false"]
    ELSE [verdict |-> IF mkdir[k] = "exists" THEN "false" ELSE "true",
          dirs    |-> [s.dirs EXCEPT ![k] = NewDir]]

\* checkPath for a file: its verdict and the directories as it leaves them.
\* The file that is opened and unlinked at the end has no say in the verdict.
CheckPath(root, dirs, checkWrite, mkdir) ==
    FoldLeftDomain(LAMBDA s, k : IF k = 1 THEN s
                                ELSE Visit(root, checkWrite, mkdir, s, k),
                   [verdict |-> "true", dirs |-> dirs], dirs)

\* getSeconds: the second group of (\d+):(\d+):(\d+), or -1 without a match.
GetSeconds(hms) == IF hms = <<>> THEN -1 ELSE hms[2]
=============================================================================
