# Verification of worker-log

worker-log is a FastCGI daemon. Web pages that show advertising offers post a
batch of the offers they showed; the daemon answers at once and then writes one
document per offer, an *impression*, into a capped MongoDB collection. This
directory holds TLA+ models of the daemon and of the JSON library it carries in
`include/json.h`, TLC configurations that check them on small instances, and
TLAPS proofs for every size.

## Inventory

| Part | State | Operations | Interacts with | Hard about it |
|---|---|---|---|---|
| `CgiService` | socket, pool, threads, `accept_mutex` | constructor, destructor, `Serve`, `ProcessRequest`, `Response`, `CheckLogDatabase` | libfcgi, mongocxx, `Core`, `BaseCore` | N threads on one socket, early returns, nested exception handlers, kill at any time |
| `Core` | pointer to the current `Params`, result | `Process`, `ProcessSaveResults` | pool client, global counters | a batch converted offer by offer, counters bumped before the insert, `insert_many` that fails half-way |
| `Params` | parsed request | `cookie_id`, `json`, `parse` | json.h | conversions that throw, an uninitialised flag |
| counters (`Config.cpp:16-20`) | five `unsigned long` | `++` in `Core`, reads in `BaseCore::Status`, reset in `Config::Load` | all threads | data races |
| impression collection | documents, oldest first | create, `insert_many` | survives the process | cap, restart, implicit creation |
| `Server`, `main` | lock file, pid file, parent and child process | fork, signals, `writePid`, `getProcIdByName` | other launches of the program | check-then-act on files, stale lock, timeout against a slow child |
| `Config` | fields | `LoadConfig`, `Load` | file system, socket path | side effects before the lock is checked, fields left unset |
| `BaseCore` | last access to the page | `Status` | counters | arithmetic on racing values, `int` milliseconds |
| a visitor's identity | the browser's cookies | cookie read in `ProcessRequest`, id made in `Params::cookie_id`, `Set-Cookie` in `Response` | `UrlParser`, `Cookie` | lost answers, cookies of other programs, cookies without an id |
| `Log` | one static buffer, one stream buffer | `err`, `warn`, `info`, `overflow`, `sync` | syslog, all threads | shared buffers without a lock |
| json.h: lexer | buffer, `m_start`, `m_cursor`, `m_marker`, `m_limit` | `scan`, `fill_line_buffer`, `get_string`, `get_number`, `escape_string` | input stream | a generated automaton that is refilled on its way, conversions at the edge of their types |
| json.h: parser | C++ stack, `depth`, `last_token` | `parse_internal`, `dump` | lexer, callback | answers of a callback that change what later steps do |
| json.h: documents | a value | comparison, `json_pointer`, `diff`, `patch`, `flatten`, `unflatten`, CBOR, MessagePack | | operations that change what the next one means, throws half-way, ten widths of numbers |
| `UrlParser`, `Cookie`, `base64`, `BoostHelpers`, `CpuStat`, `GeoIPTools` | none shared | conversions, path checks | `CgiService`, `Config` | boundary cases of the conversions |
| `Offer`, `EBranch`, `DB`, `File` | | | not built (`Makefile.am`) | |

What makes each correct:

* `CgiService`: one thread in accept; every accepted connection can still be
  finished by exactly one thread; one answer per client; an orderly end leaves
  no client open; every connection is eventually taken and finished.
* `Core`: whole batches only, in order, never twice, attributed to the request
  they came from; the client it borrows goes back on every path; counts are
  never invented.
* the collection: made by the service with its cap, never by an insert, through
  failed starts and crashes.
* `Server`/`main`: one daemon; its lock, pid file and socket are its own; the
  exit status of the parent means something.
* `BaseCore`: the two rates on the page are rates of requests there were.
* `Config`, `BoostHelpers`: a configuration that loads is complete; the program
  goes on with all of a configuration or with none; what a refused path leaves
  behind does not spoil another try.
* the visitor: who comes with an id is answered with it; every query is parsed
  to its end.
* `Log`: a line is the text of one call.
* json.h: the longest tokens of the grammar and no others; the texts of the
  grammar and no others; a document is what its text, its patch or its bytes
  say; what has an inverse is undone by it.

## Modules

| Module | Models | Shape |
|---|---|---|
| `Params` | `src/Params.cpp`, the conversions of `include/json.h` that are used | operators only: which requests parse, which conversion throws |
| `CgiService` | `src/CgiService.cpp`, `src/Core.cpp`, the counters | state machine, extends `Params` |
| `ImpressionLog` | what the service promises of the collection | abstract state machine, implemented by `CgiService` |
| `Daemon` | `src/main.cpp`, `src/Server.cpp`, the effect of `Config::Load` on the files | state machine over several launches |
| `BaseCore` | `src/BaseCore.cpp`, and `server_name` in `src/CgiService.cpp` | state machine |
| `BoostHelpers` | `checkPath`, `getSeconds` of `src/BoostHelpers.cpp` | operators over an abstract directory tree |
| `Config` | `src/Config.cpp`, and what `main` does with the result | state machine, extends `BoostHelpers` |
| `UrlParser` | `src/UrlParser.cpp` | state machine of `parse`; `percent_decode` as an operator |
| `Cookie`, `Base64` | `src/Cookie.cpp`, `src/base64.cpp` | operators |
| `Visitor` | a browser and the identity of its user | state machine, composes `UrlParser`, `Cookie`, `Base64` |
| `Log` | `src/Log.cpp` | state machine of threads |
| `JsonLexer` | the lexer of `include/json.h` | state machine, one label of `scan` a step; conversions as operators |
| `JsonParser` | `parse_internal` and its callback | state machine with an explicit stack |
| `JsonGrammar` | what a parser should do; `dump` | reference definitions over `JsonParser` |
| `JsonValue`, `JsonPointer`, `JsonBinary` | values and comparison; pointers and flatten; CBOR and MessagePack | operators |
| `JsonDocument` | `diff`, `patch` and the life of a document | state machine, composes the three |
| `CgiServiceProofs`, `DaemonProofs`, `BaseCoreProofs`, `ConfigProofs`, `LogProofs`, `VisitorProofs`, `JsonParserProofs`, `JsonLexerProofs` | | theorems |
| `MC...` | | constants for TLC |

### Params

A JSON value is its type (booleans keep their value). A request (`Input`) is
what `ProcessRequest`, `Params` and `Core` can tell apart: whether the two CGI
variables without which `ProcessRequest` returns are set, whether it is an XHR,
the cookie, how the body's length relates to `STDIN_MAX`, and the types of the
members that are converted. `text` stands for all the members read as strings.
The copy of json.h in this repository differs from the original:
`get<std::string>` accepts null and booleans and `get<long>` accepts null, but
`get<long long>` throws on null, so a batch without `informer_id_int` is lost.
`test_mode` without a boolean `params.test` is an uninitialised read:
`TestModes` gives both values.

### CgiService

`svc` is where the main thread is (`check`, `socket`, `create` in the
constructor, `join` in the destructor, `deleted`, and `dead` for no process);
`pc[w]` is where worker `w` is in `Serve`, `ProcessRequest` and
`ProcessSaveResults`. Between two labels a thread touches nothing that another
thread could observe half done:

| Code | Actions |
|---|---|
| `CgiService()` | `Start`, `CheckLogDatabase`, `OpenSocket`, `CreateThread`, `EndConstructor`, and `CheckLogDatabaseThrows`, `OpenSocketFails`, `CreateThreadFails`, which end the process |
| `~CgiService`, return from `main` | `Destroy`, `Exit` |
| `Serve` | `InitRequest`, `Lock`, `Accept`, `Loop`, `InitRequestFails`, `AcceptFails` |
| `ProcessRequest` | `GiveUp` (the early returns), `ProcessRequest`, `Response`, `ResponseFails`, `Acquire`, `Unwind` |
| `ProcessSaveResults` | `Load`/`Store` (each `++`), `ReadParams`, `BuildOffer`, `EndOffers`, `InsertOne`, `InsertThrows`, `EndSave` |
| outside | `Arrive` (a client), `Kill` |

Points where the model follows the code closely:

* `FCGX_Accept_r` first finishes the request it is given. That is the only
  thing that closes a connection `ProcessRequest` left without an answer, so it
  is part of `Lock`.
* `Response` that meets a stream error writes and finishes nothing, and the
  batch is saved all the same.
* A `++` on a shared `unsigned long` is a load and a store. `tally` is a
  history variable: the increments that were completed.
* `BuildOffer` pushes the document and only then converts `retargeting` to
  choose a counter; if that throws, the batch is dropped although earlier
  offers were counted.
* `insert_many` inserts in order, one document at a time, and other workers'
  documents may come between. What MongoDB does with a full capped collection
  (`Insert`) is external. With an empty vector mongocxx throws; the
  handler does what the normal end does, so both are `EndSave`.
* The end of the process closes all connections and forgets everything but the
  collection. `tally` starts again with the counters.

### ImpressionLog

Per request, the next offer is appended or the request is closed for good;
only requests whose whole batch converts are ever appended; documents leave
only from the old end of a full collection. The refinement mapping reads
`written` off the worker that is inserting, and takes a request for closed when
it was accepted and no worker is still on the way to inserting it.

### Daemon

Each launch has a parent (the process that was started) and a child. They
share the lock file, the pid file and the socket path. Every system call on
one of these is a step: `stat`, the scan of `/proc`, `remove`, `open`, `kill`,
`writePid`, the bind in `CgiService()`. The alarm may fire at any time while
the parent waits, because nothing bounds how slow the child is. `Kinds` are a
normal start, a start by init (`getppid() == 1`, which skips every check) and
`-t`/`-p`, which exit after the configuration is loaded. A write of the pid file
that fails or is short is only logged, and the file is opened without `O_TRUNC`:
it then holds what it held, or text that names no launch (`Torn`; that the torn
text is by chance the number of another process is left out). `unwritten` is a
history variable: who wrote to it last, if that failed. What only a process
knows (`getppid`, a pending SIGUSR1) is forgotten when it ends. The model assumes that
`lock_file`, `pid_file` and `socket_path` are configured, as in `config.xml`.

### BaseCore

`Status` on any worker, one step per access to `last_time_accessed`,
`last_time_request_processed` or `request_processed_`, next to the increments
of `Core` as in `CgiService`. The operands of the difference may be loaded in
either order, and a value that was loaded may be used again or loaded again
(`Reread`), as a compiler is free to do with plain variables. `ToInt` and
`ToULong` are the conversions of the code: milliseconds are stored in an `int`,
the quotient is computed in `unsigned long` and stored in an `int`. `previous`,
`seen` and `raced` are history variables. `Rate` is the rate a page should show
of a number of requests and a time; the properties claim it where the time and
the rate fit in an `int` (`FitsInt`). That the milliseconds of all requests fit
in an `unsigned long` is assumed (`MaxRequests * Second < ULongMod`).

### BoostHelpers and Config

A path is the sequence of the directories that lead to the file, the root
first; a node has a kind, an owner, a group and mode bits. `CanSearch` and
`CanMake` are the kernel's rules, `Accepts` is what `checkPath` tests, and they
differ. `Visit` is one turn of its loop, including the exception of `exists()`.
Each missing directory whose making the permissions allow is made, or fails with
an error of the disk, or is there by then because another launch has made it
(`Mkdir`); `checkPath` takes the last two for a refusal, and keeps what it has
made before.
`Config` reads the elements in the order of `Load`, one action each. `File`
says which elements are there; `InPlace` is what a disk is like (what is not
below a directory is not there). A number or flag that was never assigned is the
empty set. `geocountry_path` is read but it is `geocity_path` that is checked
(again); when that is missing `checkPath` gets an empty path and decrements the
iterator at its beginning, which is undefined: the model crashes or goes on.

### UrlParser, Cookie, Base64 and Visitor

`Pair` is one turn of the loop of `parse`. Positions are `size_type` values
and `npos` is -1, as in the code, where `++pos` turns it into 0. `Visitor` is a
browser that comes several times: it sends its jar of cookies (`Request`),
`ProcessRequest` takes the header apart (`ReadCookie`; the name may be anywhere
in a part and the last hit wins), `Params::cookie_id` keeps the digits or takes
the time (`CookieId`), and `Response` sets the cookie (`Answer`), which the
browser may not get. `Forget` drops cookies, also while a request is served.
`AnswerError` is the exception for a cookie that is no UTF-8. The time has one
digit. A query's bytes and the cookie's bytes are numbers; what a browser keeps as
a cookie holds no ';' (`Cookies`).

### Log

One thread's call is a walk through its buffer: `Vsprintf` and `Syslog` go byte
by byte through the static buffer that all threads share, `Overflow` appends a
byte to `buffer_`, `Sync` sends the line and `Erase` forgets it, in two steps
as in the code. `VsprintfNull` is `err(tmp_str)` of `CgiService.cpp:296`, which
passes a null format. `alone`, `put` and `raced` are history variables.

### JsonLexer

`label` is the label of `scan` that is executed next; `Dispatch`, `StringBody`
and the other sets of edges are the transitions of the generated code, with the
labels' names. `Needs` says at which labels how many bytes are asked for
(`FillLineBuffer` is `fill_line_buffer`, which reads one more line or, at the
end, adds a zero byte and as many others as were asked for; positions count
from the beginning of the text, so that moving the rest to the front of the
buffer changes nothing). A label that would read behind `m_limit` leads to
`outside`, from where nothing goes on. `GetString`, `ToUnicode`, `GetNumber`
and `EscapeString` are operators. What `strtod` makes of a float is any float,
or null where it overflows.

### JsonParser and JsonGrammar

The calls of `parse_internal` are the variable `stack`, one frame for each
container that is open, with the locals `keep`, `key`, `keep_tag` and `result`.
Tokens come one at a time and are chosen freely, and so are the answers of the
callback. A scalar's payload is the number of its token, so that no two are the
same. `JsonGrammar` states apart from it what texts there are (`Grammar`) and
what value a text stands for under given answers (`Meaning`), and `Dump`.

### JsonValue, JsonPointer, JsonBinary and JsonDocument

A value is a pair of its type and what it holds; a number is its eight bytes,
the largest first. `JsonPointer` follows
`get_and_create`, `get_unchecked`, `get_checked`, `flatten` and `unflatten`;
`StoI` is `std::stoi`, which takes a prefix. `JsonBinary` writes and reads both
formats byte by byte; whatever would read outside of the vector is
`out_of_range`, as `check_length` makes it. In `JsonDocument` each operation of
a patch is a step on the document, and `outcome` is what was thrown when one
fails; `CopyOp` has both orders of evaluation that C++ allows, `ReplaceOp` and
`TestOp` throw for either of their sides. `Write` may lose the last bytes of
what it wrote, `Receive` takes bytes from elsewhere, `Read` reads them.

## Runs

| Run | Instance | Shows |
|---|---|---|
| `service_safety` | 2 workers, 2 requests, 4 kinds of input, pool of 2, cap 3, 2 starts, all faults | `AcceptExclusive`, `ConnectionOwned`, `AtMostOneReply`, `Attributed`, `PoolConserved`, `StatusNeverOverreports`, `OrderlyEnd`, `NeverImplicitlyCreated`; `CgiService` implements `ImpressionLog` |
| `service_single` | 1 worker, 2 requests, 10 kinds of input, all faults, fair | the page covers the log (`StatusCoversLog`); every accepted request is finished (`EveryOpenIsFinished`) |
| `service_liveness` | 2 workers, 2 requests, pool of 1, faults in accept and init, fair | `ClientIsServed`, `BatchIsLogged` |
| `daemon_launches` | 3 launches in any order, all kinds, all faults, fair | `SingleInstance` and `ServingOwnsItsFiles` without overlap, `ParentReportsTruly` always, `CleanStartServes` |
| `daemon_stalelock` | 2 launches, all faults | violation: a child refuses because of its own parent |
| `status_page` | 2 workers, 2 pages, 3 requests | what the two rates mean, with and without races |
| `config_load` | files with each element missing, empty or wrong; every state of two directories, three missing ones, any of them failing, as a user and as root | what is set after `Load` (`LoadedIsComplete`); with what `main` goes on (`GoesOnWithAllOrNothing`); what a refused path leaves behind (`RefusalCanBeRetried`) |
| `visitor` | all queries up to 5 of `? = & % 4 a` and all single bytes; jars of up to two cookies, two visits | `LastValueWins`, `QueryCarries`, `SameVisitor`, `RequestAnswered` |
| `json_lex` | numbers of up to 6 characters, strings, escapes and UTF-8 at every border, structure and lines of up to 4 bytes, in memory and as a stream | `LongestMatch`, `StringExact`, `NumberExact`, `ScanEnds` |
| `json_parse` | all texts of up to 9 tokens, all answers of the callback | `ParsesTheGrammar`, `ToldTrueDepth` |
| `json_documents` | pairs of documents of depth two, arrays of eleven and twelve elements one in the other, objects with the key 0 before and behind others; patches of one and two operations with proper and improper paths; values at the borders of all widths and every first byte; triples to compare | `PatchOfDiff`, `PatchSteps`, `PointersRestore`, `BinaryFaithful`, `ValuesOrdered` |
| `log_lines` | 2 threads, 2 calls each of 6 kinds | `LinesWhole`, `StreamConserved` |

Each property has a comment in its module that states it in full, and is also
checked to fail when the operation it depends on is replaced by a version with
a plausible slip in it (the operators named `<Operation>_<Slip>`).

Bounds, and why they are enough. Two workers are the least that can race; two
requests let one worker serve both (a recycled `Core`, a stale `Params`) or two
serve one each. `RecycleAt` is 0 (a new `Core` after every request:
`service_liveness`) or 1 (the second request meets the first one's `Core`), so
that the replacement happens between the two or not. Two batches of two offers
are four documents, one more than the cap of 3, so the oldest is dropped. A
pool of 2 is exhausted while the constructor still holds its client. Two starts
put a crash between two batches. Three launches allow a daemon, one that clears
a stale lock and a third in between; what four can do is the proofs' subject.
Launches differ in nothing but their kinds, so `MCInit` keeps one of the
assignments of kinds that are permutations of each other.
A second of the page's clock is 2 ticks, so that rates are rounded; the second
of two pages has a page before it; an `unsigned long` of 16 values holds every
product of the bounded counts, so only a difference that is negative wraps, and
an `int` of 8 values (-4 to 3) is outgrown by the four ticks of the clock.
Paths have two directories below the root in every state of kind, owner and
bits: one that exists, one that is made below it, and one of each that is
refused; four with three missing ones, so that the first, the last or the one
between them fails. The paths of a configuration are independent of each other. Five bytes
are enough for a query with two items, an empty name or value, a repeated name
or an escape that is cut short. Two visits are enough for an id that was set to
come back, or to be lost in between. The largest integers of `json_lex` are 50
and 101, so that two digits overflow and the smallest one differs from the
largest. Eleven elements
are the least of which the texts of the indices are in another order than the
indices (10 before 2). Nine tokens are an object with two members, or four nested arrays. The formatted lines of `log_lines` have three lengths,
so that a short one can follow a long one in the buffer of five cells. Workers
and requests are interchangeable, so the safety runs use symmetry; the fair
ones do not. Deadlock is not checked: an idle service waits in accept, and a
finished set of requests, launches, calls or texts leaves nothing to do.

Fairness. `FairSpec` of `CgiService` is weak fairness of each thread's normal
steps: the kernel schedules a runnable thread. Nothing is assumed of failures,
of clients, of `Kill` or of `Start`. `Lock` and `Acquire` are not taken
strongly fair, although a pthread mutex and the pool promise no order, because
with finitely many requests a waiting worker is not overtaken for ever.
`FairSpec` of `Daemon` is the same for its processes; the alarm is a timer.
The service side of `Visitor` and `scan` are single threads, which go on;
nothing makes the browser come.

`EveryOpenIsFinished` holds with one worker only. With two, a request without
`REMOTE_ADDR` stays open while the other worker sits in `FCGX_Accept_r` with
the mutex: its client waits until someone else connects. `ClientIsServed` is
what remains true.

## Findings

Shown by a run that ends in a violation:

* `daemon_stalelock`: after a crash the lock file is not cleared, because the
  child sees its own parent and takes it for "another process"; only a child
  whose parent has timed out gets past it, and that launch is reported as failed
  (`ParentReportsTruly`).

Met while modelling; the models do what the code does, and the properties are
stated with the condition under which they hold:

* `Server.cpp:89`: two launches that overlap both find no lock file and both
  become daemons; with a stale lock file, a third and a kill the file can even
  be removed while a daemon runs (`SingleInstance` is about launches that do
  not overlap).
* `Config.cpp:153`: any launch, `-t` and `-p` included, unlinks the socket of
  the daemon that serves (`ServingOwnsItsFiles`).
* `BaseCore.cpp:51`: the current rate wraps around when workers race
  (`CurrentHonest`); the same races lose processed requests from the counters,
  so that `StatusNeverOverreports` is all that holds of them.
* `BaseCore.cpp:45` stores the milliseconds since the start in an `int`: after
  2^31 ms, less than 25 days, the average is wrong.
* `BaseCore.cpp:82` prints the server's name when it is empty and "unknown"
  when it is not (`Render`).
* `CgiService.h:36-37` says that the database is first used by the first
  request; the constructor uses it (`CheckLogDatabase`).
* `main.cpp:65` ignores the result of `LoadConfig`, so `-t` prints
  `Config: Ok` of a file that does not exist (`Open`, `Main`).
* `Config.cpp:293` switches every log mode off where the message announces
  three (`LogSection`).
* `BoostHelpers.cpp:281`, "only seconds", returns the minutes (`GetSeconds`).
* `BoostHelpers.cpp:250`: `checkPath`, asked to check for writing, returns true
  when the file cannot be created (`CheckPath`; this is why `LoadedIsComplete`
  needs its condition on the socket's directory).
* `CgiService.cpp:312`: any cookie whose name or value contains the name of the
  tracking cookie is read as the tracking cookie, the last one wins, and with
  an empty name every cookie is (`CookieIn`; `SameVisitor` has the condition). `IsToken`
  leaves out names with ';' or '=', which are never found as one, and with a
  blank, which browsers also put between cookies.
* `Params.cpp:29-45`: two visitors without a cookie in one second get the same
  id; a cookie without a digit becomes an empty id once (`CookieId`).
* `Cookie.cpp`: `Expires` and `Secure` are kept and never written to the header
  (`HeaderOf`).
* `CgiService.cpp:296` logs with a null format: the line is what an earlier
  call left in the static buffer (`VsprintfNull`).
* `json.h:11122`: the depth told to a callback is too small once it has refused
  a container (`ToldTrueDepth`), which the documentation of `parser_callback_t`
  does not say.
* `json.h:6161`: unsigned numbers from 2^63 on are compared with signed ones as
  if they were negative (`ValuesOrdered`).
* `json.h:11473`: `get_and_create` takes the first key of an object for the start
  of an array when it is `0` once keys are escaped, so the object comes back from
  `unflatten` as an array, or `stoi` throws at its next key, where `json.h:12123`
  says that apart from empty objects and arrays `j == j.flatten().unflatten()`
  "is always true". `PointersRestore` says that every value without such an object
  comes back, with null for its empty containers, and what is left of the others
  (`Regained`).
* `json.h:12297`: a `remove` whose pointer leads below a number, string, boolean or
  null succeeds and removes nothing (`PatchSteps`), where `json.h:12167` says that
  `patch` throws if a pointer could not be resolved.
* `json.h:12409`: a patch creates missing parents and fills arrays with null,
  where RFC 6902, which `json.h:12182` refers to, wants an error; a copy
  overwrites the array element that RFC 6902 would shift. `PatchSteps` states
  what happens in each of these cases (`Created`) and that nothing else does. What
  a copy into its own source makes depends on an order of evaluation that C++
  leaves open, and indices are read by `stoi`, which takes `1a` for 1: of these
  two `PatchSteps` says nothing.
* `Server.cpp:206`: a daemon whose pid file could not be written serves all the
  same, with the file of an earlier launch or a part of it
  (`ServingOwnsItsFiles`).
* `BoostHelpers.cpp:200`, `225`: a directory that another launch makes at the
  same moment is a refusal, because `create_directories` returns false then
  (`Visit`).

## Proofs

TLC's agreement came first; each invariant below was checked as an invariant of
a run before it was proved.

`CgiServiceProofs` proves, for any sets of workers and requests (workers finite
and not empty), any inputs, pool size, cap and faults, that the invariant `Inv`
is inductive, and from it `TypeOK`, `AcceptExclusive`, `ConnectionOwned`,
`PoolConserved`, `StatusNeverOverreports`, `OrderlyEnd` and the action property
`NeverImplicitlyCreated`. The only
assumptions are those of `CgiService` on its constants: positive bounds, and
that `Main` and `Nobody` are not threads or requests. Why each strengthening is
needed:

* `Shape` says what a worker's place implies for its locals (there is a request,
  `Core::params` is that request's, there is a counter left to increment, the
  loop index is at least 1). `TypeOK` is not inductive without it: the head of
  `todo`, an offer or a document might not exist.
* `NoWorkersYet` (no thread before the socket is open) makes `Start` preserve
  `PoolConserved`.
* `LoadedIsOld` bounds a value that was loaded and not stored yet: what is
  stored later is at most one more than it, and the true count has only grown.
* `CollectionInv` says that a start past `CheckLogDatabase` has its collection, so
  that no worker, of which there are none before (`NoWorkersYet`), inserts without.
* `QueueOK` and `RequestOK` say that the backlog holds each queued connection
  once and that requests of workers were accepted: otherwise `Accept` might
  hand a connection to a second worker. They also say that a worker that has
  exited has no request left, which with `ConnectionOwned`, `PoolConserved` and
  `NoUseAfterFree` (the destructor has joined them all) gives `OrderlyEnd`.

Of whatever keeps the promise of `ImpressionLog`, for any requests and any cap,
`LogIsOrdered` proves that only requests whose whole batch converts are logged and
that each one's documents are in the order of its offers, none twice. The
strengthening `PromiseInv` ties the counter `written` to the documents that
are there (`WrittenBounds`): without it the next offer might repeat one.

`CgiServiceProofs` also proves that `CgiService` implements `ImpressionLog`
(`ImplementsImpressionLog`), and on the way `AtMostOneReply` and `Attributed`,
from the same assumptions. `Inv` is strengthened by

* `Admitted`: from the response on a worker has a request that passed the early
  returns, and `Core` has that request's test flag; `BatchOK` and `BatchSoFar`:
  the k-th document of the local vector is that of the k-th offer, all offers
  before the loop's index were converted, and at the insert all of them were.
  Without them an insert might log a document of a request that is not loggable,
  or out of turn;
* `ReplyOnce`: a request that has a response is finished. With
  `ConnectionOwned` no worker is in `respond` for it again;
* `LogAdmitted`: what is in the log is of requests that were answered `OK`.

With one worker and one start of the process, which is what the property is
about, `StatusCoversTheLog` proves `StatusCoversLog` for any requests, inputs and
faults. `Covered` is the balance of each step: a document is in hand before it is
counted, so the count lags by one in between and is level again at the next
offer; at the insert, what is in the log and what is left to insert are covered
together, whatever a full collection drops. `CoverInv` ends with the first
process, because the next one counts from zero next to the old log.

The mapping of `written` is a `CHOOSE` over the workers; `WrittenIs` replaces it
with the index of the only worker there can be. Each action then is one of four
kinds: an insert is `Log`; a step that is `Quiet` starts no insert and moves none
on, and closes a request or does nothing to the promise; leaving the insert
closes one request; the end of the process closes all that were accepted.
From the refinement and `LogIsOrdered` it follows
that the service's own collection has whole batches only and in order
(`ServiceLogIsOrdered`).

`DaemonProofs` proves `SingleInstance`, `ParentReportsTruly` and
`ServingOwnsItsFiles` for any number of launches of any kinds with any faults.
`Family` says what one process of a launch knows of the other (a child that
removes the lock file has lost its parent, SIGUSR1 comes after the lock);
`Alone` says, as long as nothing overlapped, that one launch is on its way at
most and that no daemon is there when it has decided to make the lock file.

`JsonParserProofs` proves, for texts of any length and any nesting, that the
callback is told the true depth up to its first refusal (`DepthIsTrue`) and
that nothing is ever kept inside of a refused container (`RefusedStaysEmpty`).
`DepthCounts` says that `depth` counts the open containers as long as all are
kept; `ArgIsKeep` that a call gets the `keep` of its caller, which is what makes
a frame that is pushed inside of a refused one refused; `AskedOnce` that an
answer is about a token behind the last one, so that no later answer changes it.

`JsonLexerProofs` proves `ReadsInside`, that no label of `scan` reads behind the
buffer: the part of `ScanEnds` that is no liveness. The labels that ask for no byte rely on an earlier
refill: `Want` is how many bytes a label may still read on its way, and `LexInv`
says that so many are there, unless the buffer ends with a byte no token goes on
with (the newline of a line, or what `fill_line_buffer` puts behind the end), which
stops the automaton in time. `NumbersAreExact` proves `NumberExact`, for any texts
and any largest integers of at least 9. Two facts meet in it. `NumInv`: a token
that `scan` returns as a number, at its end or back at the marker, has something
behind its sign, and a 0 as its first digit has no digit after it unless another
character follows; so a token of digits only is an integer of the grammar, and any
other is none. `ConvertedFits`: after any number of characters `get_number` holds
their value or is a float, and it is a float exactly when one of them is no digit
or the value is too large, since its test before each digit is exact
(`TooLargeIs`).
`LongestTokens` proves `LongestMatch`, so that the automaton re2c made is the token
grammar of RFC 7159 on every text. First the grammar is restated byte by byte
(`TokenHere`): a number is two cut positions, a string a set of cuts in which each
is followed by a unit, and a character of UTF-8, which the grammar gives by the
code point it means, is one of eight patterns of bytes (`CharacterIs`). Then two facts
go with a label. `OnWay`: whichever token of the text begins at `start` and reaches
to the cursor or beyond, the automaton is at the label of that token, so a byte that
leads nowhere ends them all. `SoFar`: the label says what was read, so a label that
ends a token has read one. Between them, `NoneIn` says that no token ends
between the marker and the cursor, which is why going back to the marker, or
to an error when there is none, loses nothing. `SourceInv` says that the buffer
is the text as it should be read as far as both go, although it grows by lines and
the byte order mark is blanked in the first line only; `MatchInv` is the conjunction.
`StringsAreExact` proves `StringExact`, which compares three readings of a string
from different ends: the grammar's units, `get_string` (with `to_unicode`), and
`escape_string` (with `extra_space`). Since each is a recursion over positions, each
gets a form for the part of a text that is still to come: `Splits`, `Reads`, `Joins`
and `Escapes` say what the recursion makes of `t` in whatever text ends with it, so
that one unit more in front is a lemma about that unit alone. The proof goes
through the units from the last to the first (`UnitsAgree`). `Agrees` is what it
keeps: either a surrogate has no partner, and both `get_string` and the grammar
refuse, or what was read is the UTF-8 of the code points and, escaped again, reads
back as itself (`Fine`). A high surrogate looks at the unit behind it, so
`AgreesFrom` keeps that one apart and what is behind it too. A pair of escapes
gives a character of four bytes, each of which `escape_string` leaves alone; what
it escapes is one ASCII byte. `StringInv` adds to `MatchInv` that the bytes of a
string that was found are in the buffer.
All of it is from `LexerAssumption` alone: texts are sequences, and the integer
types can hold a digit.

`LogProofs` proves `LinesWhole` for any threads, calls and size of the buffer.
`AloneIsTrue` says that a thread marked as alone shares the buffer with nobody,
so that no step of another changes what it has written; `Formatted` says how far
the text has got into the buffer, `Copied` how far it has got out again and that
a NUL follows it. That a text holds no NUL and fits with the byte that ends it is
`LogAssumption`: then the first NUL `syslog` meets is the one `vsprintf` put, and
not one of an older line. `OthersTrue` keeps lines of `std::clog` apart from the
others. `StreamIsConserved` proves `StreamConserved` under its condition: as long as
no thread has used `std::clog` between the syslog and the erase of another's
`sync` (`Log.cpp:101-102`; then bytes are lost or sent twice, which `raced`
notes), a byte is in the buffer or in a line that was sent, in the order of the
calls of `overflow`, for which only the line that is being sent and not erased
yet must not be counted twice (`SInv`).

`BaseCoreProofs` proves `AverageHonest` and `CurrentHonest` for any numbers of
pages and workers and any widths of `int` and `unsigned long`. `Sees` says that a
page has seen every count it can have loaded, and `Averages` that its average is
the quotient of such a count and of the time since the start, whatever races; the
conversions change neither while they fit. `CurrentHonest` holds unless two pages
or two increments overlap; one increment in the middle of a page is allowed. Until
then `Alone` says that there is one page and one increment at a time and that the
increment has loaded what the counter still is, `TimeKept` that the access time of
the previous page is kept until the next one has written its own, `CountKept` that
the stored count is below every count a page has seen, and exactly that of the
previous page if nothing was counted during it. So what `CurrentIs` says the page
computes with is never negative, whichever operand is loaded first or again.

`ConfigProofs` proves `RefusalCanBeRetried`, `GoesOnWithAllOrNothing` and
`LoadedIsComplete` for any files, any number of directories, any disk and any
trouble a mkdir meets. `CheckPathRuns` takes the fold of `CheckPath` apart into
its turns; `Walked` is what a turn keeps. For the first, `Left` says what may have
become of a path: a directory that differs was missing, has been made, and lies in
one that can be written. One just made grants the making of the next
(`NewDirGrants`), so a refusal with something made is never one for permission:
`Stopped` blames a mkdir that failed or came too late. `TurnAgrees` puts a turn on
the path as it was beside one on what an earlier try left of it: without trouble
they agree, so the retry comes to the verdict the first try would have come to
(`RetryAgrees`). For the second, `Whole` says which elements the file has and
which paths were accepted when `Load` has come to each of its points, and that
nothing is set (`Blank`) where it goes on without having read the file. For the
third, `Read` says up to which element of the file each field is set, `SocketGone`
that nothing is at the socket path once its accepted directory let `checkPath`
remove it, whatever is checked after it.

`VisitorProofs` proves `LastValueWins` and `QueryCarries` of whatever query a
request brings, and `SameVisitor` of whatever jars a browser has. For the first,
`ParseInv` says, once every item is name=value, that `pos` is before the first item, at the end of one (the '&' or the end of
the query), and that `params_` holds exactly the names of the items that were
`Passed`, each with the value of the last of them. `ItemSplit` is the step: the
next '=' and '&' after the start of an item are that item's own, and the item
after it starts behind that '&'. For the second, `DecodesEncoded` follows the
automaton of `percent_decode` through one encoded byte, from the general state
back to it, and `Base64Back` takes base64 apart: `SextetsBack` is the
arithmetic of the masks and shifts, `PieceBack` one piece of one to three bytes
with what is made of the missing ones, `PiecesPlaced`, `PiecesFound` and
`PiecesMake` say that the loops cut a text where the pieces were put together,
and the first '=' is where the text of the last piece ends.

For `SameVisitor`, `JarInv` says that the jar is always cookies and that the cookie
read for a request is the one of the jar it was sent with, whatever became of the
jar since. The rest is what `ProcessRequest` makes of a header. `SplitOff` and
`SplitGrows` say that `boost::split` makes one part of a text without the separator
and more than two of one with two of them, `HeaderSteps` and `ValueSteps` that
one cookie more in the jar is one part more of the header, `CookieInReads` that
its value is read exactly if the name occurs in it and its text has no '=' but the
one in the middle (the blank before it is not part of a name that is a token),
and `ValueRead` that one such cookie alone is read, wherever it stands.
`DigitsTaken` is about `cookie_id`: an id passes as it is, and an empty id comes of
no digit. The name is assumed to be a token (`IsToken`), as a cookie's name is in
RFC 6265: with '=' in it the service never reads its own cookie, with ';' it
never finds it.

Induction. The library's induction theorems have an operator as a parameter,
which none of the provers instantiates. A set takes its place: a proof over the
length of a sequence or over all texts (`CheckPath`'s fold, the digits of a
number, the flattened lines of `Log`, `percent_decode`, base64, the jar of
cookies) shows that a set has zero, or the empty sequence, and with an element
its successor (`CountingUp`, `Appending`), or takes the least counterexample of a
set of numbers (`LeastNatural`, `LeastNat`, `Least`, from the library's `WFMin`).
By the same means it shows that the
function a recursion defines exists: `FoldLeft` and `FlattenSeq` are a `CHOOSE`
of a recursive function on sets of indices, and `FoldIs`, `FoldSteps` and
`FlattenSteps` say what they are of a sequence with one element more.

Model-checked only: the liveness properties (fairness is out of the prover's
reach), and what is about recursive data: `JsonGrammar`, `JsonValue`,
`JsonPointer`, `JsonBinary` and `JsonDocument` declare recursive operators, which
the prover's main backend does not accept.

## Not modelled

See `components` in `PROJECT.json`. Layout and wording of the status page and
of the log, the date text of a cookie, GeoIP lookups that are opened and never
used (`GeoIPTools`), `CpuStat`, which is never called and would read `/proc`,
the code that is not built (`Offer`, `EBranch`, `DB`, `File`). MongoDB,
mongocxx and libfcgi appear as the code uses them. The 2 GB limit of the
collection's size is left out; its limit on the number of documents is
modelled. A collection that exists without a cap is accepted by the code as it
is, and by the model. A local clock that is set back (the page uses local
time), a `std::string` torn by two writers (`server_name`, `buffer_`), the file
`<path>test` that `checkPath` opens and unlinks even if it was someone's, and
strings of the configuration that are not checked. A body of more than
6000000 bytes is cut; what is cut does not parse (`length` of an `Input`).

Of json.h: constructors from C++ containers and initializer lists, iterators,
`swap`, allocation and the conversions nobody here calls are templates over C++
types and keep no state a property could be about; the digits of floats, and
indentation. Reading CBOR and MessagePack from nested input deeper than two is
covered only as far as the bytes of `json_documents` go.

## Plan

1. `Config` composed with `Daemon`: paths are checked before the process
   changes its user and used after (`BoostHelpers.cpp:70`), and a daemon that
   goes on with a configuration that was never read (`main.cpp:65`).
2. `Offer`/`EBranch` against their comments, should they be built again.
