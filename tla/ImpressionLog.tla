--------------------------- MODULE ImpressionLog ----------------------------
(***************************************************************************)
(* What the service promises of the impression collection, whatever        *)
(* threads, connections, crashes and restarts there are: the offers of a   *)
(* loggable request are appended one after the other, each at most once    *)
(* and in their order, until the request is closed; nothing else is ever   *)
(* appended, and documents leave only from the old end of a full           *)
(* collection.                                                             *)
(***************************************************************************)
EXTENDS Params

CONSTANTS Requests, Inputs, CapMax, LoggableInput(_)

VARIABLES
    input,     \* what each request contains
    log,       \* the collection, oldest document first
    written,   \* how many documents of each request were appended so far
    closed     \* the requests that get no further document

vars == <<input, log, written, closed>>

Init ==
    /\ input \in [Requests -> Inputs]
    /\ log = <<>>
    /\ written = [r \in Requests |-> 0]
    /\ closed = {}

\* The next offer of r is logged; a full capped collection drops its oldest
\* document for it.
Log(r) ==
    /\ r \notin closed /\ LoggableInput(input[r])
    /\ written[r] < Len(Offers(input[r]))
    /\ written' = [written EXCEPT ![r] = @ + 1]
    /\ \E t \in TestModes(input[r]) :
          LET d == [req |-> r, item |-> written[r] + 1, test |-> t] IN
          \/ log' = Append(log, d)
          \/ Len(log) >= CapMax /\ log' = Append(Tail(log), d)
    /\ UNCHANGED <<input, closed>>

\* Requests are closed when they are done, when their batch cannot be saved
\* (refused, not convertible, a failed insert) and when the process ends.
Close(R) ==
    /\ R \subseteq Requests \ closed /\ R # {}
    /\ closed' = closed \cup R
    /\ written' = [r \in Requests |-> IF r \in R THEN 0 ELSE written[r]]
    /\ UNCHANGED <<input, log>>

Next == (\E r \in Requests : Log(r)) \/ (\E R \in SUBSET Requests : Close(R))

Spec == Init /\ [][Next]_vars
=============================================================================
