------------------------------ MODULE BaseCore ------------------------------
(***************************************************************************)
(* The status page (src/BaseCore.cpp), served by any worker at any time:   *)
(* requests per second since the previous page and since the start.  The   *)
(* request counter, the time of the last page and the count it showed are  *)
(* plain variables that all the workers share, so every access to one of   *)
(* them is a step.  Arithmetic has C++'s widths: milliseconds are cut to   *)
(* an int, the quotient is one of unsigned longs.                          *)
(***************************************************************************)
EXTENDS Integers, FiniteSets

CONSTANTS
    Workers,      \* the threads of CgiService
    Second,       \* clock ticks per second: 1000 in the code
    IntMod,       \* 2^32
    ULongMod,     \* 2^64
    MaxTime,      \* bound: the last tick
    MaxRequests,  \* bound: requests counted
    MaxPages      \* bound: pages served

ASSUME BaseCoreAssumption ==
    /\ Second \in Nat \ {0} /\ {MaxTime, MaxRequests, MaxPages} \subseteq Nat
    /\ IntMod \in Nat /\ IntMod % 2 = 0 /\ IntMod > 1
    /\ ULongMod \in Nat /\ ULongMod > IntMod
    /\ MaxRequests * Second < ULongMod

VARIABLES
    clock,                        \* local time
    request_processed_,           \* the shared counter
    last_time_accessed,           \* static local of Status
    last_time_request_processed,
    server_name,                  \* CgiService::server_name: "empty" or "host"
    pc,                           \* what each worker is doing
    reg,                          \* the register of a ++
    page,                         \* the locals of Status and what it printed
    pages,                        \* pages begun
    previous,                     \* history: the page shown last
    seen,                         \* history: the counter's values in a page
    raced                         \* history: two pages or two ++ overlapped

shared  == <<request_processed_, last_time_accessed,
             last_time_request_processed, server_name>>
history == <<previous, seen, raced>>
vars    == <<clock, shared, pc, reg, page, pages, history>>

\* BaseCore() takes the time in whole seconds; the clock is read in ticks.
time_service_started_ == 0

NotADateTime == -1
NotLoaded    == -1

\* A value stored in an int, and an int used as an unsigned long.
ToInt(n)   == ((n + IntMod \div 2) % IntMod) - IntMod \div 2
ToULong(n) == n % ULongMod

\* count * 1000 / ms, or 0 when no time has passed.
PerSecond(count, ms) ==
    IF ms = 0 THEN 0
    ELSE ToInt(ToULong(ToULong(count) * Second) \div ToULong(ms))

Blank == [now |-> 0, sinceAccess |-> 0, sinceStart |-> 0,
          requests |-> NotLoaded, last |-> NotLoaded, current |-> 0,
          average |-> 0, shown |-> 0, name |-> "empty"]

InPage == {"name", "first", "init", "now", "since", "current", "average",
           "access", "count", "render", "rendered"}

Goto(w, p) == pc' = [pc EXCEPT ![w] = p]

\* The compiler may keep a value it has loaded or load it again.
Reread(w) == {request_processed_} \cup ({page[w].requests} \ {NotLoaded})

\* history: the pages in progress see the counter's new value.
See(v) == seen' = [w \in Workers |-> IF pc[w] \in InPage THEN seen[w] \cup {v}
                                                         ELSE seen[w]]

Init ==
    /\ clock \in 0..(Second - 1)
    /\ request_processed_ = 0 /\ last_time_request_processed = 0
    /\ last_time_accessed = NotADateTime /\ server_name = "empty"
    /\ pc = [w \in Workers |-> "idle"] /\ reg = [w \in Workers |-> 0]
    /\ page = [w \in Workers |-> Blank] /\ pages = 0
    /\ previous = [time |-> time_service_started_, requests |-> 0, quiet |-> TRUE]
    /\ seen = [w \in Workers |-> {}] /\ raced = FALSE

-----------------------------------------------------------------------------
(* Slips a change to this code could make; see the mutation runs.          *)

\* The difference is taken the other way round.
Current_Swapped(w) ==
    LET p == page[w] IN
    /\ pc[w] = "current"
    /\ p.sinceAccess = 0 \/ NotLoaded \notin {p.requests, p.last}
    /\ page' = [page EXCEPT ![w].current =
                    PerSecond(p.last - p.requests, p.sinceAccess)]
    /\ Goto(w, "average")
    /\ UNCHANGED <<clock, shared, reg, pages, history>>

\* The average is taken over the time since the last page.
Average_SinceAccess(w) ==
    /\ pc[w] = "average"
    /\ \E c \in Reread(w) :
          page' = [page EXCEPT ![w].average = PerSecond(c, page[w].sinceAccess)]
    /\ Goto(w, "access")
    /\ UNCHANGED <<clock, shared, reg, pages, history>>

-----------------------------------------------------------------------------
(* Core::ProcessSaveResults on any worker: request_processed_++.           *)

CountLoad(w) ==
    /\ pc[w] = "idle" /\ request_processed_ < MaxRequests
    /\ reg' = [reg EXCEPT ![w] = request_processed_]
    /\ Goto(w, "store")
    /\ raced' = (raced \/ \E v \in Workers : pc[v] = "store")
    /\ UNCHANGED <<clock, shared, page, pages, previous, seen>>

CountStore(w) ==
    /\ pc[w] = "store"
    /\ request_processed_' = ToULong(reg[w] + 1)
    /\ reg' = [reg EXCEPT ![w] = 0]
    /\ Goto(w, "idle")
    /\ See(request_processed_')
    /\ UNCHANGED <<clock, last_time_accessed, last_time_request_processed,
                   server_name, page, pages, previous, raced>>

Tick ==
    /\ clock < MaxTime
    /\ clock' = clock + 1
    /\ UNCHANGED <<shared, pc, reg, page, pages, history>>

-----------------------------------------------------------------------------
(* ProcessRequest of a request with show=status, and Status.               *)

Enter(w) ==
    /\ pc[w] = "idle" /\ pages < MaxPages
    /\ pages' = pages + 1
    /\ seen' = [seen EXCEPT ![w] = {request_processed_}]
    /\ Goto(w, "name")
    /\ raced' = (raced \/ \E v \in Workers : pc[v] \in InPage)
    /\ UNCHANGED <<clock, shared, reg, page, previous>>

\* server_name is filled from the first request that carries SERVER_NAME.
Name(w) ==
    /\ pc[w] = "name"
    /\ \E param \in {"empty", "host"} :
          server_name' = IF server_name = "empty" THEN param ELSE server_name
    /\ Goto(w, "first")
    /\ UNCHANGED <<clock, request_processed_, last_time_accessed,
                   last_time_request_processed, reg, page, pages, history>>

First(w) ==
    /\ pc[w] = "first"
    /\ Goto(w, IF last_time_accessed = NotADateTime THEN "init" ELSE "now")
    /\ UNCHANGED <<clock, shared, reg, page, pages, history>>

InitAccess(w) ==
    /\ pc[w] = "init"
    /\ last_time_accessed' = time_service_started_
    /\ Goto(w, "now")
    /\ UNCHANGED <<clock, request_processed_, last_time_request_processed,
                   server_name, reg, page, pages, history>>

Now(w) ==
    /\ pc[w] = "now"
    /\ page' = [page EXCEPT ![w].now = clock]
    /\ Goto(w, "since")
    /\ UNCHANGED <<clock, shared, reg, pages, history>>

Since(w) ==
    /\ pc[w] = "since"
    /\ page' = [page EXCEPT
                   ![w].sinceAccess = ToInt(page[w].now - last_time_accessed),
                   ![w].sinceStart  = ToInt(page[w].now - time_service_started_)]
    /\ Goto(w, "current")
    /\ UNCHANGED <<clock, shared, reg, pages, history>>

\* The operands of the difference are loaded in either order.
LoadRequests(w) ==
    /\ pc[w] = "current" /\ page[w].sinceAccess # 0
    /\ page[w].requests = NotLoaded
    /\ page' = [page EXCEPT ![w].requests = request_processed_]
    /\ UNCHANGED <<clock, shared, pc, reg, pages, history>>

LoadLast(w) ==
    /\ pc[w] = "current" /\ page[w].sinceAccess # 0
    /\ page[w].last = NotLoaded
    /\ page' = [page EXCEPT ![w].last = last_time_request_processed]
    /\ UNCHANGED <<clock, shared, pc, reg, pages, history>>

Current(w) ==
    LET p == page[w] IN
    /\ pc[w] = "current"
    /\ p.sinceAccess = 0 \/ NotLoaded \notin {p.requests, p.last}
    /\ page' = [page EXCEPT ![w].current =
                    PerSecond(p.requests - p.last, p.sinceAccess)]
    /\ Goto(w, "average")
    /\ UNCHANGED <<clock, shared, reg, pages, history>>

Average(w) ==
    /\ pc[w] = "average"
    /\ \E c \in Reread(w) :
          page' = [page EXCEPT ![w].average = PerSecond(c, page[w].sinceStart)]
    /\ Goto(w, "access")
    /\ UNCHANGED <<clock, shared, reg, pages, history>>

SaveAccess(w) ==
    /\ pc[w] = "access"
    /\ last_time_accessed' = page[w].now
    /\ Goto(w, "count")
    /\ UNCHANGED <<clock, request_processed_, last_time_request_processed,
                   server_name, reg, page, pages, history>>

SaveCount(w) ==
    /\ pc[w] = "count"
    /\ last_time_request_processed' \in Reread(w)
    /\ Goto(w, "render")
    /\ UNCHANGED <<clock, request_processed_, last_time_accessed,
                   server_name, reg, page, pages, history>>

Render(w) ==
    /\ pc[w] = "render"
    /\ page' = [page EXCEPT ![w].shown = request_processed_,
                   ![w].name = IF server_name = "empty" THEN server_name
                                                   ELSE "unknown"]
    /\ Goto(w, "rendered")
    /\ UNCHANGED <<clock, shared, reg, pages, history>>

\* Response sends the page and Status's locals are gone.
Respond(w) ==
    /\ pc[w] = "rendered"
    /\ previous' = [time |-> page[w].now, requests |-> page[w].shown,
                    quiet |-> Cardinality(seen[w]) = 1]
    /\ page' = [page EXCEPT ![w] = Blank]
    /\ seen' = [seen EXCEPT ![w] = {}]
    /\ Goto(w, "idle")
    /\ UNCHANGED <<clock, shared, reg, pages, raced>>

Status(w) ==
    \/ Enter(w) \/ Name(w) \/ First(w) \/ InitAccess(w) \/ Now(w) \/ Since(w)
    \/ LoadRequests(w) \/ LoadLast(w) \/ Current(w) \/ Average(w)
    \/ SaveAccess(w) \/ SaveCount(w) \/ Render(w) \/ Respond(w)

Next == Tick \/ \E w \in Workers : CountLoad(w) \/ CountStore(w) \/ Status(w)

Spec == Init /\ [][Next]_vars

-----------------------------------------------------------------------------
(* Properties.                                                             *)

\* Requests per second, and that the time and the rate fit the ints they are stored in.
Rate(count, ms) == IF ms = 0 THEN 0 ELSE (count * Second) \div ms
FitsInt(count, ms) == {ms, Rate(count, ms)} \subseteq 0..(IntMod \div 2 - 1)

\* The average on a page is that of a count the counter really had while the
\* page was being made, over the whole time the service has been up, whatever
\* the other workers do, as long as the milliseconds and the rate fit an int
\* (BaseCore.cpp:45, 53-55).
AverageHonest ==
    \A w \in Workers :
        LET up == page[w].now - time_service_started_ IN
        pc[w] = "rendered" /\ (\A c \in seen[w] : FitsInt(c, up)) =>
            \E c \in seen[w] : page[w].average = Rate(c, up)

\* Unless two pages or two increments overlap, the current rate makes sense: it is
\* not negative and not more than all the requests there were in the time since
\* the last page, although a request may be counted while the page is made, in
\* whatever order the page loads what it subtracts. When none is, neither during
\* this page nor the one before it, as is always so with one worker, the rate is
\* exactly the requests between the two pages over the time between them: every
\* request is in the rate of one page only, and the first page starts with the
\* service. All this as long as the milliseconds and the rate fit an int.
CurrentHonest ==
    ~raced => \A w \in Workers :
        LET ms == page[w].now - previous.time IN
        pc[w] = "rendered" /\ FitsInt(page[w].shown, ms) =>
            /\ page[w].current >= 0
            /\ page[w].current * ms <= page[w].shown * Second
            /\ previous.quiet /\ Cardinality(seen[w]) = 1 =>
                  page[w].current = Rate(page[w].shown - previous.requests, ms)
=============================================================================
