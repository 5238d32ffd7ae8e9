---------------------------- MODULE DaemonProofs -----------------------------
(***************************************************************************)
(* Theorems about Daemon for any number of launches, of any kinds and with *)
(* any faults.                                                             *)
(***************************************************************************)
EXTENDS Daemon, TLAPS

\* What the place of one process of a launch says of the other: the child comes
\* from the fork or is the launched process itself, only a start has one that
\* passes the lock file, SIGUSR1 is sent after that, a child that found no other
\* process has lost its own parent, and only a child past the lock has written its
\* pid.
Family == \A l \in Launches :
    /\ parent[l] \in {"none", "load", "fork"} => child[l] = "none"
    /\ parent[l] = "fork" => kind[l] = "serve"
    /\ parent[l] = "daemon" => kind[l] = "init"
    /\ kind[l] = "query" => child[l] = "none"
    /\ kind[l] = "init" => child[l] \in {"none", "bind", "serving", "dead"}
    /\ l \in usr1 => child[l] \in {"pid", "bind", "serving", "dead"}
    /\ kind[l] = "serve" /\ parent[l] = "success" =>
          child[l] \in {"pid", "bind", "serving", "dead"}
    /\ child[l] = "remove" => parent[l] = "failure"
    /\ pidFile = l => kind[l] = "serve" /\ child[l] \in {"bind", "serving", "dead"}

\* Without an overlap only one launch is on its way, no daemon is there when it
\* has decided to make the lock file, and the files are those of the daemon.
Alone == ~overlapped =>
    /\ \A l, m \in Launches : ~Settled(l) /\ ~Settled(m) => l = m
    /\ OneDaemon
    /\ Daemons # {} => lock
    /\ \A l \in Launches : child[l] \in {"remove", "open"} => Daemons = {}
    /\ \A l \in Launches : kind[l] = "serve" /\ child[l] \in {"bind", "serving"} =>
          pidFile = l \/ unwritten = l
    /\ \A l \in Launches : kind[l] = "serve" /\ child[l] = "serving" =>
          socket \in {l, Nobody} \cup {m \in Launches : kind[m] = "init"}

IInv == TypeOK /\ Family /\ Alone

-----------------------------------------------------------------------------
\* Nothing has happened yet (Init).
LEMMA InitInv == Init => IInv
<1> SUFFICES ASSUME Init PROVE IInv
    OBVIOUS
<1> USE DaemonAssumption DEF Init
<1>1. TypeOK
    BY DEF TypeOK, Starting, Kind
<1>2. Family
    BY DEF Family
<1>3. Alone
    BY DEF Alone, OneDaemon, Daemons, Settled, ParentAlive, Starting
<1> QED
    BY <1>1, <1>2, <1>3 DEF IInv

\* The types are kept by every step.
LEMMA TypeStep == TypeOK /\ [Next]_vars => TypeOK'
<1> SUFFICES ASSUME TypeOK, [Next]_vars PROVE TypeOK'
    OBVIOUS
<1> USE DaemonAssumption DEF TypeOK, files, Starting, Kind
<1>1. ASSUME NEW l \in Launches, Launch(l) PROVE TypeOK'
    BY <1>1 DEF Launch
<1>2. ASSUME NEW l \in Launches, ParentStep(l) PROVE TypeOK'
  <2>1. CASE LoadConfig(l)
    BY <2>1 DEF LoadConfig
  <2>2. CASE Fork(l)
    BY <2>2 DEF Fork
  <2>3. CASE Usr1(l)
    BY <2>3 DEF Usr1
  <2>4. CASE Alarm(l)
    BY <2>4 DEF Alarm
  <2>5. CASE Chld(l)
    BY <2>5 DEF Chld
  <2> QED
    BY <1>2, <2>1, <2>2, <2>3, <2>4, <2>5 DEF ParentStep
<1>3. ASSUME NEW l \in Launches, GetParent(l) PROVE TypeOK'
  <2>1. ParentAlive(l) \in BOOLEAN
    BY DEF ParentAlive
  <2> QED
    BY <1>3, <2>1 DEF GetParent
<1>4. ASSUME NEW l \in Launches, Scan(l) PROVE TypeOK'
    BY <1>4 DEF Scan, Seen
<1>5. ASSUME NEW l \in Launches, Signal(l) \/ WritePid(l) \/ Bind(l) PROVE TypeOK'
  <2>1. CASE Signal(l)
    BY <2>1 DEF Signal
  <2>2. CASE WritePid(l)
    BY <2>2 DEF WritePid
  <2>3. CASE Bind(l)
    BY <2>3 DEF Bind
  <2> QED
    BY <1>5, <2>1, <2>2, <2>3
<1>6. ASSUME NEW l \in Launches, LoadConfigExits(l) \/ ForkFails(l) \/ ChildDies(l) PROVE TypeOK'
  <2>1. CASE LoadConfigExits(l)
    BY <2>1 DEF LoadConfigExits
  <2>2. CASE ForkFails(l)
    BY <2>2 DEF ForkFails
  <2>3. CASE ChildDies(l)
    BY <2>3 DEF ChildDies
  <2> QED
    BY <1>6, <2>1, <2>2, <2>3
<1>7. ASSUME NEW l \in Launches, Stat(l) \/ Remove(l) \/ Open(l) PROVE TypeOK'
  <2>1. CASE Stat(l)
    BY <2>1 DEF Stat
  <2>2. CASE Remove(l)
    BY <2>2 DEF Remove
  <2>3. CASE Open(l)
    BY <2>3 DEF Open
  <2> QED
    BY <1>7, <2>1, <2>2, <2>3
<1>8. CASE UNCHANGED vars
    BY <1>8 DEF vars
<1> QED
    BY <1>1, <1>2, <1>3, <1>4, <1>5, <1>6, <1>7, <1>8 DEF Next, ChildStep

\* What a process knows of the other of its launch is kept by every step.
LEMMA FamilyStep == TypeOK /\ Family /\ [Next]_vars => Family'
<1> SUFFICES ASSUME TypeOK, Family, [Next]_vars PROVE Family'
    OBVIOUS
<1> USE DaemonAssumption DEF TypeOK, Family, files, Kind
<1>1. ASSUME NEW l \in Launches, Launch(l) PROVE Family'
    BY <1>1 DEF Launch
<1>2. ASSUME NEW l \in Launches, LoadConfig(l) PROVE Family'
    BY <1>2 DEF LoadConfig
<1>3. ASSUME NEW l \in Launches, Fork(l) PROVE Family'
    BY <1>3 DEF Fork
<1>4. ASSUME NEW l \in Launches, Usr1(l) \/ Alarm(l) \/ Chld(l) PROVE Family'
    BY <1>4 DEF Usr1, Alarm, Chld
<1>5. ASSUME NEW l \in Launches, GetParent(l) \/ Stat(l) \/ Remove(l) \/ Open(l) PROVE Family'
    BY <1>5 DEF GetParent, Stat, Remove, Open
\* A parent that has not given up is in the process table itself.
<1>6. ASSUME NEW l \in Launches, Scan(l) PROVE Family'
    BY <1>6 DEF Scan, Seen, ParentAlive
<1>7. ASSUME NEW l \in Launches, Signal(l) \/ WritePid(l) \/ Bind(l) PROVE Family'
  <2>1. CASE Signal(l)
    BY <2>1 DEF Signal
  <2>2. CASE WritePid(l)
    BY <2>2, ZenonT(40) DEF WritePid
  <2>3. CASE Bind(l)
    BY <2>3 DEF Bind
  <2> QED
    BY <1>7, <2>1, <2>2, <2>3
<1>8. ASSUME NEW l \in Launches, LoadConfigExits(l) \/ ForkFails(l) PROVE Family'
    BY <1>8 DEF LoadConfigExits, ForkFails
<1>9. ASSUME NEW l \in Launches, ChildDies(l) PROVE Family'
    BY <1>9 DEF ChildDies, ChildAlive, Starting
<1>10. CASE UNCHANGED vars
    BY <1>10 DEF vars
<1> QED
    BY <1>1, <1>2, <1>3, <1>4, <1>5, <1>6, <1>7, <1>8, <1>9, <1>10
       DEF Next, ParentStep, ChildStep

-----------------------------------------------------------------------------
\* Without an overlap every step keeps the daemon, its lock and its files.
LEMMA AloneStep == TypeOK /\ Family /\ Alone /\ [Next]_vars => Alone'
<1> SUFFICES ASSUME TypeOK, Family, Alone, [Next]_vars, ~overlapped' PROVE Alone'
    BY DEF Alone
<1>1. ~overlapped
    BY DEF Next, vars, TypeOK, Launch, ParentStep, LoadConfig, Fork, Usr1, Alarm, Chld,
           ChildStep, GetParent, Stat, Scan, Remove, Open, Signal, WritePid, Bind,
           LoadConfigExits, ForkFails, ChildDies
<1> USE <1>1 DEF TypeOK, Alone, OneDaemon, Daemons, files, Kind
\* All other launches are settled, or overlapped would be set.
<1>2. ASSUME NEW l \in Launches, Launch(l) PROVE Alone'
  <2>1. /\ parent' = [parent EXCEPT ![l] = "load"] /\ child' = child /\ kind' = kind
        /\ lock' = lock /\ pidFile' = pidFile /\ unwritten' = unwritten
        /\ socket' = socket
        /\ \A m \in Launches : Settled(m)
    BY <1>2 DEF Launch
  <2>2. Daemons' = Daemons
    BY <2>1
  <2>3. \A k \in Launches : ~Settled(k)' => k = l
    BY <2>1 DEF Settled, ParentAlive
  <2> QED
    BY <1>1, <2>1, <2>2, <2>3
<1>3. ASSUME NEW l \in Launches, LoadConfig(l) PROVE Alone'
    BY <1>3, DaemonAssumption DEF LoadConfig, Settled, ParentAlive, Starting, Family
<1>4. ASSUME NEW l \in Launches,
             Fork(l) \/ Usr1(l) \/ Alarm(l) \/ Chld(l) \/ LoadConfigExits(l) \/ ForkFails(l)
      PROVE  Alone'
    BY <1>4 DEF Fork, Usr1, Alarm, Chld, LoadConfigExits, ForkFails, Settled, ParentAlive,
                Starting, Family
<1>5. ASSUME NEW l \in Launches, GetParent(l) PROVE Alone'
    BY <1>5 DEF GetParent, Settled, ParentAlive, Starting
<1>6. ASSUME NEW l \in Launches, Stat(l) PROVE Alone'
    BY <1>6 DEF Stat, Settled, ParentAlive, Starting
\* A daemon would have been seen.
<1>7. ASSUME NEW l \in Launches, Scan(l) PROVE Alone'
    BY <1>7 DEF Scan, Seen, ChildAlive, Settled, ParentAlive, Starting
<1>8. ASSUME NEW l \in Launches, Remove(l) PROVE Alone'
    BY <1>8 DEF Remove, Settled, ParentAlive, Starting
<1>9. ASSUME NEW l \in Launches, Open(l) PROVE Alone'
    BY <1>9 DEF Open, Settled, ParentAlive, Starting
<1>10. ASSUME NEW l \in Launches, Signal(l) PROVE Alone'
    BY <1>10 DEF Signal, Settled, ParentAlive, Starting, Family
<1>11. ASSUME NEW l \in Launches, WritePid(l) PROVE Alone'
  <2>1. /\ child[l] = "pid" /\ kind[l] = "serve"
        /\ child' = [child EXCEPT ![l] = "bind"] /\ (pidFile' = l \/ unwritten' = l)
        /\ kind' = kind /\ parent' = parent /\ lock' = lock /\ socket' = socket
        /\ overlapped' = overlapped
    BY <1>11, DaemonAssumption DEF WritePid, Family
  <2>2. Daemons' = Daemons
    BY <2>1
  <2>3. \A k, m \in Launches : ~Settled(k)' /\ ~Settled(m)' => k = m
    BY <2>1 DEF Settled, ParentAlive, Starting
  \* Another child past the lock would be a second one.
  <2>4. \A k \in Launches : kind[k] = "serve" /\ child'[k] \in {"bind", "serving"} => k = l
    BY <2>1
  <2> QED
    BY <1>1, <2>1, <2>2, <2>3, <2>4
<1>12. ASSUME NEW l \in Launches, Bind(l) PROVE Alone'
  <2>1. /\ child[l] = "bind" /\ kind[l] \in {"serve", "init"}
        /\ child' = [child EXCEPT ![l] = "serving"] /\ socket' = l
        /\ kind' = kind /\ parent' = parent /\ lock' = lock /\ pidFile' = pidFile
        /\ overlapped' = overlapped /\ unwritten' = unwritten
    BY <1>12, DaemonAssumption DEF Bind, Family
  <2>2. Daemons' = Daemons
    BY <2>1
  <2>3. \A k, m \in Launches : ~Settled(k)' /\ ~Settled(m)' => k = m
    BY <2>1 DEF Settled, ParentAlive, Starting
  <2>4. \A k \in Launches : kind[k] = "serve" /\ child'[k] \in {"bind", "serving"} =>
           pidFile = k \/ unwritten = k
    BY <2>1
  \* Another daemon that serves would be a second one past the lock.
  <2>5. ASSUME NEW k \in Launches, kind[k] = "serve", child'[k] = "serving"
        PROVE  l \in {k, Nobody} \cup {m \in Launches : kind[m] = "init"}
    BY <2>1, <2>5
  <2> QED
    BY <1>1, <2>1, <2>2, <2>3, <2>4, <2>5
<1>13. ASSUME NEW l \in Launches, ChildDies(l) PROVE Alone'
  <2>1. /\ child' = [child EXCEPT ![l] = "dead"]
        /\ kind' = kind /\ parent' = parent /\ lock' = lock /\ pidFile' = pidFile
        /\ socket' = socket /\ overlapped' = overlapped /\ unwritten' = unwritten
    BY <1>13 DEF ChildDies
  <2>2. Daemons' \subseteq Daemons
    BY <2>1
  <2>3. \A k, m \in Launches : ~Settled(k)' /\ ~Settled(m)' => k = m
    BY <2>1 DEF Settled, ParentAlive, Starting
  <2>4. /\ \A k \in Launches : child'[k] \in {"remove", "open"} => Daemons = {}
        /\ \A k \in Launches :
              kind[k] = "serve" /\ child'[k] \in {"bind", "serving"} =>
              pidFile = k \/ unwritten = k
        /\ \A k \in Launches : kind[k] = "serve" /\ child'[k] = "serving" =>
              socket \in {k, Nobody} \cup {m \in Launches : kind[m] = "init"}
    BY <2>1
  <2> QED
    BY <1>1, <2>1, <2>2, <2>3, <2>4
<1>14. CASE UNCHANGED vars
    BY <1>14 DEF vars, Settled, ParentAlive
<1> QED
    BY <1>2, <1>3, <1>4, <1>5, <1>6, <1>7, <1>8, <1>9, <1>10, <1>11, <1>12, <1>13, <1>14
       DEF Next, ParentStep, ChildStep

\* No step of any launch leads out of the invariant.
LEMMA StepInv == IInv /\ [Next]_vars => IInv'
BY TypeStep, FamilyStep, AloneStep DEF IInv

\* The invariant holds whatever the launches and their failures.
LEMMA Invariant == Spec => []IInv
BY InitInv, StepInv, PTL DEF Spec

-----------------------------------------------------------------------------
\* Server::Server keeps its types for any number of launches.
THEOREM TypeCorrect == Spec => []TypeOK
<1>1. IInv => TypeOK
    BY DEF IInv
<1> QED
    BY Invariant, <1>1, PTL

\* However many launches there are one after the other, whatever they are and
\* whatever fails or is killed, there is one daemon and its lock file is there.
THEOREM OneDaemonOnly == Spec => []SingleInstance
<1>1. IInv => SingleInstance
    BY DEF IInv, Alone, SingleInstance
<1> QED
    BY Invariant, <1>1, PTL

\* The exit status of main, with launches overlapping in any way.
THEOREM ReportIsTrue == Spec => []ParentReportsTruly
<1>1. ASSUME IInv, NEW l \in Launches
      PROVE  /\ kind[l] = "serve" /\ parent[l] = "success" =>
                    child[l] \notin {"start", "stat", "scan", "remove", "open", "refused"}
             /\ child[l] = "remove" => parent[l] = "failure"
    BY <1>1 DEF IInv, Family
<1>2. IInv => ParentReportsTruly
    BY <1>1 DEF ParentReportsTruly
<1> QED
    BY Invariant, <1>2, PTL

\* The pid file and the socket path belong to the daemon that serves; a pid file it
\* could not write names no other process that is up.
THEOREM FilesAreTheDaemons == Spec => []ServingOwnsItsFiles
<1>1. ASSUME IInv, ~overlapped, NEW l \in Launches, kind[l] = "serve", child[l] = "serving"
      PROVE  /\ \/ pidFile = l
                \/ unwritten = l /\ (pidFile \in Launches => child[pidFile] = "dead")
             /\ socket \in {l, Nobody} \cup {m \in Launches : kind[m] = "init"}
  \* The launch the file names is past the lock as well, if it is not dead.
  <2>1. ASSUME pidFile \in Launches, pidFile # l PROVE child[pidFile] = "dead"
    BY <1>1, <2>1 DEF IInv, Family, Alone, OneDaemon, Daemons
  <2> QED
    BY <1>1, <2>1 DEF IInv, Alone
<1>2. IInv => ServingOwnsItsFiles
    BY <1>1 DEF ServingOwnsItsFiles
<1> QED
    BY Invariant, <1>2, PTL
=============================================================================
