----------------------------- MODULE CgiService -----------------------------
(***************************************************************************)
(* The impression logger of src/CgiService.cpp and src/Core.cpp as one     *)
(* process: the main thread that constructs and destroys CgiService, the   *)
(* server_children_ threads that run Serve, the FastCGI socket they share, *)
(* the MongoDB client pool, the unsynchronised statistics counters and the *)
(* impression collection, which is all that survives the process.          *)
(*                                                                         *)
(* One action is one stretch of a thread without a shared access another   *)
(* thread could notice: the accept mutex, the pool, each half of a counter *)
(* increment and each inserted document are steps of their own.            *)
(***************************************************************************)
EXTENDS Params, FiniteSets

CONSTANTS
    Workers,     \* the threads Serve runs on (server_children_)
    Requests,    \* the requests web clients make, each at most once
    Inputs,      \* what those requests can contain
    PoolSize,    \* clients mongocxx::pool hands out at a time
    RecycleAt,   \* the request count at which Serve replaces its Core
    CapMax,      \* options.max of the capped impression collection
    MaxStarts,   \* bound: how often the process is started
    Faults,      \* the failures of the environment that may happen
    Main,        \* the main thread, as a holder of a pooled client
    Nobody       \* no request: a null FCGX_Request or Core::params

Fault == {"db", "socket", "thread", "init", "accept", "stream", "insert", "kill"}

ASSUME InputsAssumption == Inputs \subseteq Input
ASSUME BoundsAssumption ==
    /\ PoolSize \in Nat \ {0} /\ CapMax \in Nat \ {0}
    /\ RecycleAt \in Nat /\ MaxStarts \in Nat
    /\ Faults \subseteq Fault
ASSUME NamesAssumption == Main \notin Workers /\ Nobody \notin Workers \cup Requests
ASSUME FiniteAssumption == IsFiniteSet(Workers) /\ Workers # {}

VARIABLES
    svc,           \* where the main thread is, or "dead"
    starts,        \* how often the process has been started
    collection,    \* the impression collection: absent, capped or plain
    impressions,   \* its documents, oldest first
    input,         \* what each request contains
    conn,          \* each request's connection
    queue,         \* the listening socket's backlog
    reply,         \* the responses written for each request
    accept_mutex,  \* the worker that holds it, or Nobody
    inUse,         \* the threads that hold a client of the pool
    counter,       \* request_processed_, offer_processed_, ...
    tally,         \* history: the increments of each that were completed
    pc,            \* where each worker is
    req,           \* the request its FCGX_Request describes
    params,        \* the request Core::params was filled from
    test_mode,     \* Params::test_mode of that object
    count_req,     \* Serve's local counter
    it,            \* the offer or document its loop has reached
    documents,     \* the local vector of ProcessSaveResults
    todo,          \* the counters it is about to increment
    reg            \* the counter's value it has loaded

process == <<svc, starts, accept_mutex, inUse>>
store   == <<collection, impressions>>
clients == <<conn, queue, reply>>
status  == <<counter, tally>>
core    == <<params, test_mode>>
saving  == <<it, documents, todo, reg>>
locals  == <<pc, req, core, count_req, saving>>
vars    == <<process, store, input, clients, status, locals>>

-----------------------------------------------------------------------------
Counter == {"request", "offer", "social", "retargeting"}

Document == [req : Requests, item : Nat \ {0}, test : BOOLEAN]

Creating  == {"check", "socket", "create"}
Listening == {"create", "join", "deleted"}
Phase     == {"dead", "join", "deleted"} \cup Creating

\* A worker holds a client from pool.acquire to the end of that scope.
Saving == {"count", "store", "params", "offer", "insert", "unwind"}

Place == {"none", "init", "lock", "accept", "process", "respond", "acquire",
          "loop", "exited"} \cup Saving

\* What ProcessRequest answers: an XHR gets Core::Process's JSON or a 503,
\* anything else the status page or an empty 200.
Answer(in) == CASE in.xhr /\ CookieThrows(in) -> "503"
                [] in.xhr /\ ~CookieThrows(in) -> "OK"
                [] ~in.xhr /\ in.show -> "page"
                [] OTHER -> "200"

Answers == {"503", "OK", "page", "200"}

\* A slip of Increments: a social offer is counted as social instead of as shown.
Increments_SocialApart(o) ==
    IF o.campaign_social = "true" THEN <<"social">>
    ELSE IF o.retargeting = "true" THEN <<"retargeting">> ELSE <<"offer">>

\* The counters one offer increments after its document is pushed, in order.
Increments(o) ==
    <<IF o.retargeting = "true" THEN "retargeting" ELSE "offer">>
        \o (IF o.campaign_social = "true" THEN <<"social">> ELSE <<>>)

\* External: MongoDB drops the oldest document of a capped collection to make room.
Insert(log, d) ==
    IF collection = "capped" /\ Len(log) >= CapMax
    THEN Append(Tail(log), d) ELSE Append(log, d)

Up == svc \in Listening

Goto(w, p) == pc' = [pc EXCEPT ![w] = p]

Release(c) == inUse' = inUse \ {c}

\* exit(), an exception nobody catches, or a kill: everything in memory is
\* gone, every connection is closed, the collection keeps what it has.
Die ==
    /\ svc' = "dead" /\ accept_mutex' = Nobody /\ inUse' = {} /\ queue' = <<>>
    /\ conn' = [r \in Requests |->
                    IF conn[r] \in {"queued", "open"} THEN "finished" ELSE conn[r]]
    /\ counter' = [c \in Counter |-> 0] /\ tally' = [c \in Counter |-> 0]
    /\ pc' = [w \in Workers |-> "none"] /\ req' = [w \in Workers |-> Nobody]
    /\ params' = [w \in Workers |-> Nobody]
    /\ test_mode' = [w \in Workers |-> FALSE]
    /\ count_req' = [w \in Workers |-> 0] /\ it' = [w \in Workers |-> 0]
    /\ documents' = [w \in Workers |-> <<>>]
    /\ todo' = [w \in Workers |-> <<>>] /\ reg' = [w \in Workers |-> 0]
    /\ UNCHANGED <<starts, store, input, reply>>

-----------------------------------------------------------------------------
Init ==
    /\ svc = "dead" /\ starts = 0
    /\ collection \in {"absent", "capped", "plain"} /\ impressions = <<>>
    /\ input \in [Requests -> Inputs]
    /\ conn = [r \in Requests |-> "none"] /\ queue = <<>>
    /\ reply = [r \in Requests |-> <<>>]
    /\ accept_mutex = Nobody /\ inUse = {}
    /\ counter = [c \in Counter |-> 0] /\ tally = [c \in Counter |-> 0]
    /\ pc = [w \in Workers |-> "none"] /\ req = [w \in Workers |-> Nobody]
    /\ params = [w \in Workers |-> Nobody]
    /\ test_mode = [w \in Workers |-> FALSE]
    /\ count_req = [w \in Workers |-> 0] /\ it = [w \in Workers |-> 0]
    /\ documents = [w \in Workers |-> <<>>]
    /\ todo = [w \in Workers |-> <<>>] /\ reg = [w \in Workers |-> 0]

-----------------------------------------------------------------------------
(* Slips a change to this code could make.  Nothing below uses them: each  *)
(* takes the place of the action it is named after in a mutation run.      *)

\* What CheckLogDatabase throws is caught and logged, as in ProcessRequest, and
\* the service goes on without its collection.
CheckLogDatabaseThrows_Logged ==
    /\ svc = "check" /\ "db" \in Faults
    /\ svc' = "socket"
    /\ UNCHANGED <<starts, accept_mutex, inUse, store, input, clients, status, locals>>

\* FCGX_Accept_r without the mutex.
Lock_Unguarded(w) ==
    /\ Up /\ pc[w] = "lock"
    /\ accept_mutex' = w
    /\ conn' = [r \in Requests |-> IF r = req[w] THEN "finished" ELSE conn[r]]
    /\ req' = [req EXCEPT ![w] = Nobody]
    /\ Goto(w, "accept")
    /\ UNCHANGED <<svc, starts, inUse, store, input, queue, reply, status, core,
                   count_req, saving>>

\* The FCGX_Request is initialised again instead of being finished.
Lock_NoFinish(w) ==
    /\ Up /\ pc[w] = "lock" /\ accept_mutex = Nobody
    /\ accept_mutex' = w
    /\ req' = [req EXCEPT ![w] = Nobody]
    /\ Goto(w, "accept")
    /\ UNCHANGED <<svc, starts, inUse, store, input, clients, status, core,
                   count_req, saving>>

\* Core keeps the Params it already has.
ProcessRequest_KeepParams(w) ==
    LET in == input[req[w]] IN
    /\ Up /\ pc[w] = "process" /\ in.addr /\ in.script
    /\ IF Answer(in) = "OK" /\ params[w] = Nobody
       THEN /\ params' = [params EXCEPT ![w] = req[w]]
            /\ \E t \in TestModes(in) : test_mode' = [test_mode EXCEPT ![w] = t]
       ELSE UNCHANGED core
    /\ Goto(w, "respond")
    /\ UNCHANGED <<process, store, input, clients, status, req, count_req, saving>>

\* Response flushes and leaves the Finish to the next accept.
Response_NoFinish(w) ==
    /\ Up /\ pc[w] = "respond"
    /\ reply' = [reply EXCEPT ![req[w]] = Append(@, Answer(input[req[w]]))]
    /\ Goto(w, IF Answer(input[req[w]]) = "OK" THEN "acquire" ELSE "loop")
    /\ UNCHANGED <<process, store, input, conn, queue, status, req, core, count_req,
                   saving>>

\* Every counter of an offer is added the number of counters left.
Store_Batch(w) ==
    LET c == Head(todo[w]) IN
    /\ Up /\ pc[w] = "store"
    /\ counter' = [counter EXCEPT ![c] = reg[w] + Len(todo[w])]
    /\ tally' = [tally EXCEPT ![c] = @ + 1]
    /\ todo' = [todo EXCEPT ![w] = Tail(@)]
    /\ reg' = [reg EXCEPT ![w] = 0]
    /\ Goto(w, IF Len(todo[w]) > 1 THEN "count"
               ELSE IF it[w] = 0 THEN "params" ELSE "offer")
    /\ UNCHANGED <<process, store, input, clients, req, core, count_req,
                   it, documents>>

\* Offers are numbered from zero.
BuildOffer_FromZero(w) ==
    LET offers == Offers(input[params[w]])
        o      == offers[it[w]]
        d      == [req |-> params[w], item |-> it[w] - 1, test |-> test_mode[w]]
    IN
    /\ Up /\ pc[w] = "offer" /\ it[w] <= Len(offers)
    /\ documents' = IF Builds(o) THEN [documents EXCEPT ![w] = Append(@, d)]
                                 ELSE documents
    /\ IF Builds(o) /\ Counts(o)
       THEN /\ todo' = [todo EXCEPT ![w] = Increments(o)]
            /\ it' = [it EXCEPT ![w] = @ + 1]
            /\ Goto(w, "count")
       ELSE Goto(w, "unwind") /\ UNCHANGED <<todo, it>>
    /\ UNCHANGED <<process, store, input, clients, status, req, core, count_req, reg>>

\* A failed insert_many is tried again from its first document.
InsertThrows_Retry(w) ==
    /\ Up /\ pc[w] = "insert" /\ "insert" \in Faults
    /\ it' = [it EXCEPT ![w] = 1]
    /\ UNCHANGED <<process, store, input, clients, status, pc, req, core, count_req,
                   documents, todo, reg>>

\* The client is not a scoped object: an exception leaks it.
Unwind_Leak(w) ==
    /\ Up /\ pc[w] = "unwind"
    /\ documents' = [documents EXCEPT ![w] = <<>>]
    /\ it' = [it EXCEPT ![w] = 0]
    /\ Goto(w, "loop")
    /\ UNCHANGED <<process, store, input, clients, status, req, core, count_req,
                   todo, reg>>

\* The save is inside the try whose handler answers 503.
Unwind_503(w) ==
    /\ Up /\ pc[w] = "unwind"
    /\ inUse' = inUse \ {w}
    /\ reply' = [reply EXCEPT ![req[w]] = Append(@, "503")]
    /\ documents' = [documents EXCEPT ![w] = <<>>]
    /\ it' = [it EXCEPT ![w] = 0]
    /\ Goto(w, "loop")
    /\ UNCHANGED <<svc, starts, accept_mutex, store, input, conn, queue, status, req,
                   core, count_req, todo, reg>>

-----------------------------------------------------------------------------
(* The main thread: CgiService(), run() and ~CgiService().                 *)

\* main reaches CgiService(); Config::Load has zeroed the counters.
Start ==
    /\ svc = "dead" /\ starts < MaxStarts
    /\ svc' = "check" /\ starts' = starts + 1 /\ inUse' = {Main}
    /\ UNCHANGED <<accept_mutex, store, input, clients, status, locals>>

CheckLogDatabase ==
    /\ svc = "check"
    /\ svc' = "socket"
    /\ collection' = IF collection = "absent" THEN "capped" ELSE collection
    /\ UNCHANGED <<starts, accept_mutex, inUse, impressions, input, clients,
                   status, locals>>

\* Nothing catches what has_collection or create_collection throws.
CheckLogDatabaseThrows == svc = "check" /\ "db" \in Faults /\ Die

OpenSocket ==
    /\ svc = "socket"
    /\ svc' = "create"
    /\ UNCHANGED <<starts, accept_mutex, inUse, store, input, clients, status, locals>>

OpenSocketFails == svc = "socket" /\ "socket" \in Faults /\ Die

CreateThread(w) ==
    /\ svc = "create" /\ pc[w] = "none"
    /\ Goto(w, "init")
    /\ UNCHANGED <<process, store, input, clients, status, req, core, count_req, saving>>

\* exit(1), with the workers created so far already serving.
CreateThreadFails ==
    /\ svc = "create" /\ "thread" \in Faults
    /\ \E w \in Workers : pc[w] = "none"
    /\ Die

\* The constructor returns: its own client goes back to the pool, run() does
\* nothing and the destructor starts joining.
EndConstructor ==
    /\ svc = "create" /\ \A w \in Workers : pc[w] # "none"
    /\ svc' = "join" /\ Release(Main)
    /\ UNCHANGED <<starts, accept_mutex, store, input, clients, status, locals>>

\* The last pthread_join returns, bcore and the pool are destroyed.
Destroy ==
    /\ svc = "join" /\ \A w \in Workers : pc[w] = "exited"
    /\ svc' = "deleted"
    /\ UNCHANGED <<starts, accept_mutex, inUse, store, input, clients, status, locals>>

Exit == svc = "deleted" /\ Die

\* "As a rule the processes are simply killed" (include/BaseCore.h).
Kill == svc # "dead" /\ "kill" \in Faults /\ Die

-----------------------------------------------------------------------------
(* A web client connects while the socket listens.                         *)

Arrive(r) ==
    /\ Up /\ conn[r] = "none" /\ Len(queue) < 4 * Cardinality(Workers)
    /\ conn' = [conn EXCEPT ![r] = "queued"]
    /\ queue' = Append(queue, r)
    /\ UNCHANGED <<process, store, input, reply, status, locals>>

-----------------------------------------------------------------------------
(* Serve.                                                                  *)

InitRequest(w) ==
    /\ Up /\ pc[w] = "init"
    /\ Goto(w, "lock")
    /\ UNCHANGED <<process, store, input, clients, status, req, core, count_req, saving>>

InitRequestFails(w) ==
    /\ Up /\ pc[w] = "init" /\ "init" \in Faults
    /\ Goto(w, "exited")
    /\ UNCHANGED <<process, store, input, clients, status, req, core, count_req, saving>>

\* pthread_mutex_lock, then the FCGX_Finish_r with which FCGX_Accept_r starts:
\* only here is a request closed that ProcessRequest left without an answer.
Lock(w) ==
    /\ Up /\ pc[w] = "lock" /\ accept_mutex = Nobody
    /\ accept_mutex' = w
    /\ conn' = [r \in Requests |-> IF r = req[w] THEN "finished" ELSE conn[r]]
    /\ req' = [req EXCEPT ![w] = Nobody]
    /\ Goto(w, "accept")
    /\ UNCHANGED <<svc, starts, inUse, store, input, queue, reply, status, core,
                   count_req, saving>>

Accept(w) ==
    /\ Up /\ pc[w] = "accept" /\ queue # <<>>
    /\ req' = [req EXCEPT ![w] = Head(queue)]
    /\ queue' = Tail(queue)
    /\ conn' = [conn EXCEPT ![Head(queue)] = "open"]
    /\ accept_mutex' = Nobody
    /\ Goto(w, "process")
    /\ UNCHANGED <<svc, starts, inUse, store, input, reply, status, core,
                   count_req, saving>>

AcceptFails(w) ==
    /\ Up /\ pc[w] = "accept" /\ "accept" \in Faults
    /\ accept_mutex' = Nobody
    /\ Goto(w, "exited")
    /\ UNCHANGED <<svc, starts, inUse, store, input, clients, status, req, core,
                   count_req, saving>>

\* After ProcessRequest: a new Core at the RecycleAt-th request, whose params
\* is unset.
Loop(w) ==
    /\ Up /\ pc[w] = "loop"
    /\ params' = IF count_req[w] = RecycleAt THEN [params EXCEPT ![w] = Nobody]
                                             ELSE params
    /\ count_req' = [count_req EXCEPT ![w] = @ + 1]
    /\ Goto(w, "lock")
    /\ UNCHANGED <<process, store, input, clients, status, req, test_mode, saving>>

-----------------------------------------------------------------------------
(* ProcessRequest.                                                         *)

\* The early returns: nothing is written and the connection stays open.
GiveUp(w) ==
    /\ Up /\ pc[w] = "process"
    /\ \/ "stream" \in Faults
       \/ ~input[req[w]].addr
       \/ ~input[req[w]].script
    /\ Goto(w, "loop")
    /\ UNCHANGED <<process, store, input, clients, status, req, core, count_req, saving>>

\* The request is read and, for an XHR whose cookie can be converted, handed
\* to Core::Process, which keeps a pointer to the Params on this stack.
ProcessRequest(w) ==
    LET in == input[req[w]] IN
    /\ Up /\ pc[w] = "process" /\ in.addr /\ in.script
    /\ IF Answer(in) = "OK"
       THEN /\ params' = [params EXCEPT ![w] = req[w]]
            /\ \E t \in TestModes(in) : test_mode' = [test_mode EXCEPT ![w] = t]
       ELSE UNCHANGED core
    /\ Goto(w, "respond")
    /\ UNCHANGED <<process, store, input, clients, status, req, count_req, saving>>

\* Whatever Response did, the results are saved only after Process.
AfterResponse(w) == IF Answer(input[req[w]]) = "OK" THEN "acquire" ELSE "loop"

Response(w) ==
    /\ Up /\ pc[w] = "respond"
    /\ reply' = [reply EXCEPT ![req[w]] = Append(@, Answer(input[req[w]]))]
    /\ conn' = [conn EXCEPT ![req[w]] = "finished"]
    /\ Goto(w, AfterResponse(w))
    /\ UNCHANGED <<process, store, input, queue, status, req, core, count_req, saving>>

\* FCGX_GetError: Response logs a warning and returns without Finish.
ResponseFails(w) ==
    /\ Up /\ pc[w] = "respond" /\ "stream" \in Faults
    /\ Goto(w, AfterResponse(w))
    /\ UNCHANGED <<process, store, input, clients, status, req, core, count_req, saving>>

-----------------------------------------------------------------------------
(* pool.acquire and Core::ProcessSaveResults.                              *)

\* acquire blocks until the pool has a client to give.
Acquire(w) ==
    /\ Up /\ pc[w] = "acquire" /\ Cardinality(inUse) < PoolSize
    /\ inUse' = inUse \cup {w}
    /\ todo' = [todo EXCEPT ![w] = <<"request">>]
    /\ Goto(w, "count")
    /\ UNCHANGED <<svc, starts, accept_mutex, store, input, clients, status, req,
                   core, count_req, it, documents, reg>>

\* counter++ on a plain unsigned long shared by every thread: a load ...
Load(w) ==
    /\ Up /\ pc[w] = "count"
    /\ reg' = [reg EXCEPT ![w] = counter[Head(todo[w])]]
    /\ Goto(w, "store")
    /\ UNCHANGED <<process, store, input, clients, status, req, core, count_req,
                   it, documents, todo>>

\* ... and a store, which forgets the increments others made in between.
Store(w) ==
    LET c == Head(todo[w]) IN
    /\ Up /\ pc[w] = "store"
    /\ counter' = [counter EXCEPT ![c] = reg[w] + 1]
    /\ tally' = [tally EXCEPT ![c] = @ + 1]
    /\ todo' = [todo EXCEPT ![w] = Tail(@)]
    /\ reg' = [reg EXCEPT ![w] = 0]
    /\ Goto(w, IF Len(todo[w]) > 1 THEN "count"
               ELSE IF it[w] = 0 THEN "params" ELSE "offer")
    /\ UNCHANGED <<process, store, input, clients, req, core, count_req,
                   it, documents>>

ReadParams(w) ==
    /\ Up /\ pc[w] = "params"
    /\ it' = [it EXCEPT ![w] = 1]
    /\ Goto(w, IF ParamsConvert(input[params[w]]) THEN "offer" ELSE "unwind")
    /\ UNCHANGED <<process, store, input, clients, status, req, core, count_req,
                   documents, todo, reg>>

\* The document is pushed before the conversions that choose the counters.
BuildOffer(w) ==
    LET offers == Offers(input[params[w]])
        o      == offers[it[w]]
        d      == [req |-> params[w], item |-> it[w], test |-> test_mode[w]]
    IN
    /\ Up /\ pc[w] = "offer" /\ it[w] <= Len(offers)
    /\ documents' = IF Builds(o) THEN [documents EXCEPT ![w] = Append(@, d)]
                                 ELSE documents
    /\ IF Builds(o) /\ Counts(o)
       THEN /\ todo' = [todo EXCEPT ![w] = Increments(o)]
            /\ it' = [it EXCEPT ![w] = @ + 1]
            /\ Goto(w, "count")
       ELSE Goto(w, "unwind") /\ UNCHANGED <<todo, it>>
    /\ UNCHANGED <<process, store, input, clients, status, req, core, count_req, reg>>

EndOffers(w) ==
    /\ Up /\ pc[w] = "offer" /\ it[w] > Len(Offers(input[params[w]]))
    /\ it' = [it EXCEPT ![w] = 1]
    /\ Goto(w, "insert")
    /\ UNCHANGED <<process, store, input, clients, status, req, core, count_req,
                   documents, todo, reg>>

\* insert_many, document by document, in order; MongoDB creates a collection
\* that does not exist, without a cap.
InsertOne(w) ==
    /\ Up /\ pc[w] = "insert" /\ it[w] <= Len(documents[w])
    /\ impressions' = Insert(impressions, documents[w][it[w]])
    /\ collection' = IF collection = "absent" THEN "plain" ELSE collection
    /\ it' = [it EXCEPT ![w] = @ + 1]
    /\ UNCHANGED <<process, input, clients, status, pc, req, core, count_req,
                   documents, todo, reg>>

\* The insert fails after any prefix of the documents.
InsertThrows(w) ==
    /\ Up /\ pc[w] = "insert" /\ "insert" \in Faults
    /\ Goto(w, "unwind")
    /\ UNCHANGED <<process, store, input, clients, status, req, core, count_req, saving>>

\* Leaving the scope of client and documents.
Leave(w) ==
    /\ Release(w)
    /\ documents' = [documents EXCEPT ![w] = <<>>]
    /\ it' = [it EXCEPT ![w] = 0]
    /\ Goto(w, "loop")
    /\ UNCHANGED <<svc, starts, accept_mutex, store, input, clients, status, req,
                   core, count_req, todo, reg>>

EndSave(w) == Up /\ pc[w] = "insert" /\ it[w] > Len(documents[w]) /\ Leave(w)

\* The catch around acquire: the exception is logged and the batch is gone.
Unwind(w) == Up /\ pc[w] = "unwind" /\ Leave(w)

-----------------------------------------------------------------------------
(* Steps and failures.                                                     *)

Environment ==
    \/ Start \/ Kill \/ \E r \in Requests : Arrive(r)

\* The main thread's normal steps, and where it ends the process instead.
MainStep ==
    \/ CheckLogDatabase \/ OpenSocket
    \/ \E w \in Workers : CreateThread(w)
    \/ EndConstructor \/ Destroy \/ Exit

MainFails == CheckLogDatabaseThrows \/ OpenSocketFails \/ CreateThreadFails

\* A worker's normal steps, and the failures of the libraries it calls.
WorkerStep(w) ==
    \/ InitRequest(w) \/ Lock(w) \/ Accept(w) \/ Loop(w)
    \/ GiveUp(w) \/ ProcessRequest(w) \/ Response(w)
    \/ Acquire(w) \/ Load(w) \/ Store(w) \/ ReadParams(w)
    \/ BuildOffer(w) \/ EndOffers(w) \/ InsertOne(w) \/ EndSave(w) \/ Unwind(w)

WorkerFails(w) ==
    InitRequestFails(w) \/ AcceptFails(w) \/ ResponseFails(w) \/ InsertThrows(w)

Next ==
    \/ Environment \/ MainStep \/ MainFails
    \/ \E w \in Workers : WorkerStep(w) \/ WorkerFails(w)

Spec == Init /\ [][Next]_vars

\* The scheduler runs every thread that can run; nothing makes a failure, a
\* client or a start of the process happen.
FairSpec ==
    /\ Spec
    /\ WF_vars(MainStep)
    /\ \A w \in Workers : WF_vars(WorkerStep(w))

-----------------------------------------------------------------------------
(* Properties.                                                             *)

\* The types of the variables.
TypeOK ==
    /\ svc \in Phase /\ starts \in Nat
    /\ collection \in {"absent", "capped", "plain"} /\ impressions \in Seq(Document)
    /\ input \in [Requests -> Inputs]
    /\ conn \in [Requests -> {"none", "queued", "open", "finished"}]
    /\ queue \in Seq(Requests) /\ reply \in [Requests -> Seq(Answers)]
    /\ accept_mutex \in Workers \cup {Nobody} /\ inUse \subseteq Workers \cup {Main}
    /\ counter \in [Counter -> Nat] /\ tally \in [Counter -> Nat]
    /\ pc \in [Workers -> Place]
    /\ req \in [Workers -> Requests \cup {Nobody}]
    /\ params \in [Workers -> Requests \cup {Nobody}]
    /\ test_mode \in [Workers -> BOOLEAN]
    /\ count_req \in [Workers -> Nat] /\ it \in [Workers -> Nat]
    /\ documents \in [Workers -> Seq(Document)]
    /\ todo \in [Workers -> Seq(Counter)] /\ reg \in [Workers -> Nat]

\* No two threads are ever in FCGX_Accept_r together: FCGX_Accept_r is not
\* safe to enter twice on one socket, accept_mutex is there for that, and
\* every way out of accept, the failing one too, must give it back.
AcceptExclusive == \A w \in Workers : pc[w] = "accept" <=> accept_mutex = w

\* A connection that was accepted and not finished belongs to exactly one
\* FCGX_Request, so one worker can still finish it; no two workers ever serve
\* the same request.
ConnectionOwned ==
    /\ \A r \in Requests : conn[r] = "open" => \E w \in Workers : req[w] = r
    /\ \A v, w \in Workers : req[v] = req[w] /\ req[w] # Nobody => v = w
    /\ \A w \in Workers : pc[w] \in {"process", "respond"} => conn[req[w]] = "open"

\* A client gets at most one response, whatever throws after it was sent, and
\* a client that was refused with 503 has nothing logged.
AtMostOneReply ==
    \A r \in Requests :
        /\ Len(reply[r]) <= 1
        /\ reply[r] = <<"503">> =>
              \A i \in DOMAIN impressions : impressions[i].req # r

\* What a request must be for its impressions to be saved.
Loggable(in) == in.addr /\ in.script /\ Answer(in) = "OK" /\ Convertible(in)

\* Core::params always points at the Params of the request in hand when it is
\* read, and a document carries that request's own test flag: neither a
\* recycled Core nor an earlier request on the same thread leaks in.
Attributed ==
    /\ \A w \in Workers : pc[w] \in Saving =>
          /\ params[w] = req[w] /\ params[w] # Nobody
          /\ \A k \in DOMAIN documents[w] : documents[w][k].req = req[w]
    /\ \A i \in DOMAIN impressions :
          impressions[i].test \in TestModes(input[impressions[i].req])

\* Every client of the pool that is out is held by a thread that is between
\* acquire and the end of its scope, exceptions included, and the pool never
\* hands out more than it has.
PoolConserved ==
    /\ \A w \in Workers : w \in inUse <=> pc[w] \in Saving
    /\ Main \in inUse <=> svc \in Creating
    /\ Cardinality(inUse) <= PoolSize

\* The racing increments lose counts but never invent any: what the status
\* page shows is a lower bound of what was really processed.
StatusNeverOverreports == \A c \in Counter : counter[c] <= tally[c]

\* No insert_many, by any worker of any start of the service, finds the
\* impression collection missing: MongoDB would create it on the way, without
\* the cap and the size of CheckLogDatabase, and no later start would notice.
\* Neither a failing CheckLogDatabase nor a crash anywhere near it may lead there.
NeverImplicitlyCreated ==
    [][collection = "absent" => collection' # "plain"]_vars

\* When the destructor deletes the pool every client is back in it, and the
\* exit that follows cuts off nobody who was accepted: the requests that
\* ProcessRequest left unanswered were finished too, by the accept that failed.
OrderlyEnd ==
    svc = "deleted" => inUse = {} /\ \A r \in Requests : conn[r] # "open"

\* With a single worker and a single start the status page covers the log:
\* every document that reached MongoDB was counted as a shown or a
\* retargeted offer, and social offers are among those.
StatusCoversLog ==
    LET shown == counter["offer"] + counter["retargeting"] IN
    Up => Len(impressions) <= shown /\ counter["social"] <= shown

\* Every connection in the backlog is taken, or closed by the end of the process,
\* although workers may die in accept; and unless REMOTE_ADDR or SCRIPT_NAME is
\* missing it is answered and finished without waiting for another client to come.
ClientIsServed ==
    \A r \in Requests :
        conn[r] = "queued" ~> \/ conn[r] = "finished"
                              \/ conn[r] = "open" /\ ~(input[r].addr /\ input[r].script)

\* Any accepted request is finished in the end: holds with one worker, where
\* the next accept cannot be blocked by another thread's.
EveryOpenIsFinished == \A r \in Requests : conn[r] = "open" ~> conn[r] = "finished"

\* Every offer of an accepted batch that converts reaches the log, although
\* the client was answered before the save even started.
BatchIsLogged ==
    \A r \in Requests :
        conn[r] = "open" /\ Loggable(input[r]) ~>
            \A k \in DOMAIN Offers(input[r]) :
                \E i \in DOMAIN impressions :
                    impressions[i].req = r /\ impressions[i].item = k

-----------------------------------------------------------------------------
(* The promise of ImpressionLog.                                           *)

\* The worker that may still log documents of r.
Serves(w, r) ==
    /\ req[w] = r
    /\ pc[w] \in {"process", "respond", "acquire"} \cup (Saving \ {"unwind"})

Inserting(w, r) == req[w] = r /\ pc[w] = "insert"

writtenOf == [r \in Requests |->
    IF \E w \in Workers : Inserting(w, r)
    THEN it[CHOOSE w \in Workers : Inserting(w, r)] - 1
    ELSE 0]

closedOnes == {r \in Requests :
    conn[r] \in {"open", "finished"} /\ \A w \in Workers : ~Serves(w, r)}

Promise == INSTANCE ImpressionLog WITH
    log <- impressions, written <- writtenOf, closed <- closedOnes,
    LoggableInput <- Loggable

\* All the threads, crashes and restarts together never do anything to the
\* impression collection that ImpressionLog does not allow.
ImplementsImpressionLog == Promise!Spec
=============================================================================
