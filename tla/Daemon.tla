------------------------------- MODULE Daemon -------------------------------
(***************************************************************************)
(* How the program becomes a daemon (src/main.cpp, src/Server.cpp), seen   *)
(* across several launches of it on one machine: each launch is a process  *)
(* that loads the configuration, forks a child and waits for its verdict;  *)
(* the child looks at the lock file, at the process table, tells its       *)
(* parent, writes the pid file and opens the socket.  The launches share   *)
(* the lock file, the pid file and the socket path, and nothing but the    *)
(* order of their system calls coordinates them.                           *)
(***************************************************************************)
EXTENDS Naturals

CONSTANTS
    Launches,     \* bound: the invocations of the program
    Kinds,        \* what they are: see Kind
    Faults,       \* the failures that may happen: see Fault
    Nobody,       \* no launch
    Torn          \* a pid file that names none of them

\* A plain start, one made by init itself, one with -t or -p.
Kind == {"serve", "init", "query"}

\* A bad configuration or path, a failed fork, open, write of the pid file or
\* CgiService(), a kill.
Fault == {"config", "fork", "lock", "pid", "write", "service", "kill"}

ASSUME DaemonAssumption ==
    /\ Nobody \notin Launches /\ Torn \notin Launches
    /\ Kinds \subseteq Kind /\ Faults \subseteq Fault

VARIABLES
    kind,        \* what each launch is
    parent,      \* the process that was started: where it is, or its status
    child,       \* the process that becomes the daemon
    getppid,     \* whether a child has its parent's pid from getppid, to signal it
    usr1,        \* the parents that SIGUSR1 is pending for
    found,       \* the launches whose processes getProcIdByName saw
    lock,        \* the lock file exists
    pidFile,     \* whose pid the pid file holds
    unwritten,   \* history: who wrote to it last, if not all was written
    socket,      \* who has bound the socket the path leads to
    overlapped   \* history: a launch began while another was starting up

files == <<lock, pidFile, unwritten, socket>>
vars  == <<kind, parent, child, getppid, usr1, found, files, overlapped>>

ParentAlive(l) == parent[l] \in {"load", "fork", "waiting"}

Starting == {"start", "stat", "scan", "remove", "open", "signal", "pid", "bind"}

ChildAlive(l) == child[l] \in Starting \cup {"serving"}

\* The launches with a process in /proc that child l takes for another one:
\* the scan leaves out getpid(), and nothing else.
Seen(l) ==
    {m \in Launches : ParentAlive(m) \/ (m # l /\ ChildAlive(m))}

\* Neither process of the launch is on its way any more.
Settled(l) == ~ParentAlive(l) /\ child[l] \notin Starting

Init ==
    /\ kind \in [Launches -> Kinds]
    /\ parent = [l \in Launches |-> "none"]
    /\ child = [l \in Launches |-> "none"]
    /\ getppid = [l \in Launches |-> FALSE]
    /\ usr1 = {}
    /\ found = [l \in Launches |-> {}]
    /\ lock = FALSE /\ pidFile = Nobody /\ unwritten = Nobody /\ socket = Nobody
    /\ overlapped = FALSE

-----------------------------------------------------------------------------
(* Slips a change to this code could make; see the mutation runs.          *)

\* The parent's own entry in /proc is left out as well.
Scan_NotParent(l) ==
    /\ child[l] = "scan"
    /\ found' = [found EXCEPT ![l] = Seen(l) \ {l}]
    /\ child' = [child EXCEPT ![l] = IF Seen(l) \ {l} # {} THEN "refused" ELSE "remove"]
    /\ getppid' = [getppid EXCEPT ![l] = Seen(l) \ {l} = {} /\ getppid[l]]
    /\ UNCHANGED <<kind, parent, usr1, files, overlapped>>

\* The file is opened whether it is there or not.
Stat_Ignored(l) ==
    /\ child[l] = "stat"
    /\ child' = [child EXCEPT ![l] = "open"]
    /\ UNCHANGED <<kind, parent, getppid, usr1, found, files, overlapped>>

\* The process table is searched whether there is a lock file or not.
Stat_AlwaysScan(l) ==
    /\ child[l] = "stat"
    /\ child' = [child EXCEPT ![l] = "scan"]
    /\ UNCHANGED <<kind, parent, getppid, usr1, found, files, overlapped>>

-----------------------------------------------------------------------------
(* The process that was started: main, then Server::Server up to pause().  *)

Launch(l) ==
    /\ parent[l] = "none"
    /\ parent' = [parent EXCEPT ![l] = "load"]
    /\ overlapped' = (overlapped \/ \E m \in Launches : ~Settled(m))
    /\ UNCHANGED <<kind, child, getppid, usr1, found, files>>

\* Config::Load unlinks the socket path of whoever is serving; -t and -p exit
\* after it; a process whose parent is init is already a daemon and serves
\* itself, past every check of Server::Server.
LoadConfig(l) ==
    /\ parent[l] = "load"
    /\ socket' = Nobody
    /\ parent' = [parent EXCEPT ![l] = CASE kind[l] = "query" -> "success"
                                         [] kind[l] = "init"  -> "daemon"
                                         [] kind[l] = "serve" -> "fork"]
    /\ child' = IF kind[l] = "init" THEN [child EXCEPT ![l] = "bind"] ELSE child
    /\ UNCHANGED <<kind, getppid, usr1, found, lock, pidFile, unwritten, overlapped>>

\* Config::exit, or a path checkPath refuses; before or after the unlink.
LoadConfigExits(l) ==
    /\ parent[l] = "load" /\ "config" \in Faults
    /\ socket' \in {socket, Nobody}
    /\ parent' = [parent EXCEPT ![l] = "failure"]
    /\ UNCHANGED <<kind, child, getppid, usr1, found, lock, pidFile, unwritten, overlapped>>

Fork(l) ==
    /\ parent[l] = "fork"
    /\ parent' = [parent EXCEPT ![l] = "waiting"]
    /\ child' = [child EXCEPT ![l] = "start"]
    /\ UNCHANGED <<kind, getppid, usr1, found, files, overlapped>>

ForkFails(l) ==
    /\ parent[l] = "fork" /\ "fork" \in Faults
    /\ parent' = [parent EXCEPT ![l] = "failure"]
    /\ UNCHANGED <<kind, child, getppid, usr1, found, files, overlapped>>

\* child_handler in the parent.  The two seconds of alarm may pass before the
\* child has done anything.
Usr1(l) ==
    /\ parent[l] = "waiting" /\ l \in usr1
    /\ parent' = [parent EXCEPT ![l] = "success"]
    /\ usr1' = usr1 \ {l}
    /\ UNCHANGED <<kind, child, getppid, found, files, overlapped>>

Alarm(l) ==
    /\ parent[l] = "waiting"
    /\ parent' = [parent EXCEPT ![l] = "failure"]
    /\ usr1' = usr1 \ {l}
    /\ UNCHANGED <<kind, child, getppid, found, files, overlapped>>

Chld(l) ==
    /\ parent[l] = "waiting" /\ ~ChildAlive(l)
    /\ parent' = [parent EXCEPT ![l] = "failure"]
    /\ usr1' = usr1 \ {l}
    /\ UNCHANGED <<kind, child, getppid, found, files, overlapped>>

-----------------------------------------------------------------------------
(* The child: the rest of Server::Server, then CgiService().               *)

GetParent(l) ==
    /\ child[l] = "start"
    /\ getppid' = [getppid EXCEPT ![l] = ParentAlive(l)]
    /\ child' = [child EXCEPT ![l] = "stat"]
    /\ UNCHANGED <<kind, parent, usr1, found, files, overlapped>>

Stat(l) ==
    /\ child[l] = "stat"
    /\ child' = [child EXCEPT ![l] = IF lock THEN "scan" ELSE "open"]
    /\ UNCHANGED <<kind, parent, getppid, usr1, found, files, overlapped>>

\* "another process running?": exit, or remove the stale file.
Scan(l) ==
    /\ child[l] = "scan"
    /\ found' = [found EXCEPT ![l] = Seen(l)]
    /\ child' = [child EXCEPT ![l] = IF Seen(l) # {} THEN "refused" ELSE "remove"]
    /\ getppid' = [getppid EXCEPT ![l] = Seen(l) = {} /\ getppid[l]]
    /\ UNCHANGED <<kind, parent, usr1, files, overlapped>>

Remove(l) ==
    /\ child[l] = "remove"
    /\ lock' = FALSE
    /\ child' = [child EXCEPT ![l] = "open"]
    /\ UNCHANGED <<kind, parent, getppid, usr1, found, pidFile, unwritten, socket, overlapped>>

\* O_CREAT without O_EXCL: a file that has come meanwhile is opened too.
Open(l) ==
    /\ child[l] = "open"
    /\ lock' = TRUE
    /\ child' = [child EXCEPT ![l] = "signal"]
    /\ UNCHANGED <<kind, parent, getppid, usr1, found, pidFile, unwritten, socket, overlapped>>

\* kill(parent, SIGUSR1), lost on one that has ended: the parent's success is
\* decided here.
Signal(l) ==
    /\ child[l] = "signal"
    /\ getppid' = [getppid EXCEPT ![l] = FALSE]
    /\ usr1' = IF getppid[l] /\ ParentAlive(l) THEN usr1 \cup {l} ELSE usr1
    /\ child' = [child EXCEPT ![l] = "pid"]
    /\ UNCHANGED <<kind, parent, found, files, overlapped>>

\* A write that fails or is short is logged and nothing else; the file is opened
\* without O_TRUNC, so it keeps what it held, or holds a part of each.
WritePid(l) ==
    /\ child[l] = "pid"
    /\ \/ pidFile' = l /\ unwritten' = Nobody
       \/ /\ "write" \in Faults
          /\ pidFile' \in {pidFile, Torn}
          /\ unwritten' = l
    /\ child' = [child EXCEPT ![l] = "bind"]
    /\ UNCHANGED <<kind, parent, getppid, usr1, found, lock, socket, overlapped>>

\* FCGX_OpenSocket unlinks the path and binds it anew.
Bind(l) ==
    /\ child[l] = "bind"
    /\ socket' = l
    /\ child' = [child EXCEPT ![l] = "serving"]
    /\ UNCHANGED <<kind, parent, getppid, usr1, found, lock, pidFile, unwritten, overlapped>>

\* exit(EXIT_FAILURE) at open, in writePid and in CgiService(), and a kill:
\* no file is cleaned up.
ChildDies(l) ==
    /\ \/ child[l] = "open" /\ "lock" \in Faults
       \/ child[l] = "pid" /\ "pid" \in Faults
       \/ child[l] = "bind" /\ "service" \in Faults
       \/ ChildAlive(l) /\ "kill" \in Faults
    /\ child' = [child EXCEPT ![l] = "dead"]
    /\ getppid' = [getppid EXCEPT ![l] = FALSE]
    /\ UNCHANGED <<kind, parent, usr1, found, files, overlapped>>

-----------------------------------------------------------------------------
ParentStep(l) == LoadConfig(l) \/ Fork(l) \/ Usr1(l) \/ Alarm(l) \/ Chld(l)

ChildStep(l) ==
    \/ GetParent(l) \/ Stat(l) \/ Scan(l) \/ Remove(l) \/ Open(l)
    \/ Signal(l) \/ WritePid(l) \/ Bind(l)

Next == \E l \in Launches :
    \/ Launch(l) \/ ParentStep(l) \/ ChildStep(l)
    \/ LoadConfigExits(l) \/ ForkFails(l) \/ ChildDies(l)

Spec == Init /\ [][Next]_vars

\* A process that can run does; the alarm is a timer and always comes.
Fairness == \A l \in Launches : WF_vars(ParentStep(l)) /\ WF_vars(ChildStep(l))

FairSpec == Spec /\ Fairness

-----------------------------------------------------------------------------
\* The types of the variables; a parent's end is its exit status.
TypeOK ==
    /\ kind \in [Launches -> Kinds]
    /\ parent \in [Launches -> {"none", "load", "fork", "waiting", "daemon",
                                "success", "failure"}]
    /\ child \in [Launches -> Starting \cup {"none", "serving", "refused", "dead"}]
    /\ getppid \in [Launches -> BOOLEAN] /\ usr1 \subseteq Launches
    /\ found \in [Launches -> SUBSET Launches]
    /\ lock \in BOOLEAN /\ pidFile \in Launches \cup {Nobody, Torn}
    /\ unwritten \in Launches \cup {Nobody}
    /\ socket \in Launches \cup {Nobody} /\ overlapped \in BOOLEAN

\* Past the lock file: what the check is there to allow one process only.
Daemons == {l \in Launches :
    kind[l] = "serve" /\ child[l] \in {"signal", "pid", "bind", "serving"}}

\* What "another process running?" (Server.cpp:91) asks for. Launches that overlap
\* both find no lock file and break it.
OneDaemon == \A l, m \in Daemons : l = m

\* Launches that are not started into each other never make two daemons, whatever
\* died or was killed before, and while one runs its lock file exists: neither a
\* launch that is refused nor one that clears a stale file removes it.
SingleInstance ==
    ~overlapped => OneDaemon /\ (Daemons # {} => lock)

\* As long as no launches overlap, the pid file names the daemon that serves, which
\* a launch that is refused does not touch. A daemon serves as well when it could not
\* write the file; then the process the file may still name is dead, and never one
\* that is up. And a later launch may unlink the socket of the daemon, as
\* Config::Load does, but never binds its own in its place: only a process started
\* by init, which is past all checks, does.
ServingOwnsItsFiles ==
    ~overlapped => \A l \in Launches :
        kind[l] = "serve" /\ child[l] = "serving" =>
            /\ \/ pidFile = l
               \/ unwritten = l /\ (pidFile \in Launches => child[pidFile] = "dead")
            /\ socket \in {l, Nobody} \cup {m \in Launches : kind[m] = "init"}

\* A parent reports success only for a child that got past the lock, and a stale
\* lock file is cleared only by a child whose parent has already given up on it:
\* the scan takes a waiting parent for another daemon, so a restart after a crash
\* either fails or is reported as a failure.
ParentReportsTruly ==
    \A l \in Launches :
        /\ kind[l] = "serve" /\ parent[l] = "success" =>
              child[l] \notin {"start", "stat", "scan", "remove", "open", "refused"}
        /\ child[l] = "remove" => parent[l] = "failure"

\* With no lock file and no other launch under way, a launch ends up serving
\* unless it fails or is killed, or another one begins in the meantime.
CleanStartServes ==
    \A l \in Launches :
        child[l] = "stat" /\ ~lock /\ ~overlapped
            ~> child[l] \in {"serving", "dead"} \/ overlapped

\* "another process running?": a child that finds a lock file gives up only
\* when the process it saw belongs to another launch.
RefusedForAnother ==
    \A l \in Launches : child[l] = "refused" => \E m \in found[l] : m # l
=============================================================================
