-------------------------------- MODULE Log ---------------------------------
(***************************************************************************)
(* Logging (src/Log.cpp). Every thread formats into one static buffer and  *)
(* hands it to syslog; std::clog, whose stream buffer is the Log that main *)
(* made, collects the bytes of all threads in buffer_. No lock is taken.   *)
(* vsprintf and syslog go through the static buffer byte by byte. buffer_  *)
(* is changed in single steps: what concurrent calls of one std::string    *)
(* break in its memory is beyond this model.                               *)
(***************************************************************************)
EXTENDS Integers, Sequences, SequencesExt

CONSTANTS
    Threads,
    Calls,           \* [how, level, text]: the calls the program makes; how is "format"
                     \* (err, warn and info with a format), "string" (with a std::string),
                     \* "null" (err(tmp_str), CgiService.cpp:296), "line" and "part" (std::clog with
                     \* and without std::endl)
    MaxCalls,        \* how many calls a thread makes
    BUFLEN           \* cells of the static buffer

ASSUME LogAssumption ==
    /\ MaxCalls \in Nat /\ BUFLEN \in Nat \ {0}
    /\ \A c \in Calls : c.text \in Seq(1..255) /\ Len(c.text) < BUFLEN

VARIABLES
    buffer,          \* the static buffer; -1 is a byte never written
    buffer_,         \* the bytes that std::clog still holds
    priority_,
    thread,          \* [at, call, i, line, alone]: where each thread is
    made,            \* how many calls it has made
    journal,         \* what syslog got, with the call and whether it was alone
    put,             \* all bytes ever put on std::clog (kept for the properties)
    raced            \* a thread used std::clog between another's sync and its erase (likewise)

vars == <<buffer, buffer_, priority_, thread, made, journal, put, raced>>
stream == <<buffer_, put, raced>>

NUL == 0
NewLine == 10
Raw == -1
LOG_DEBUG == "debug"

\* A thread outside of Log. alone: no other thread was in the static buffer since
\* its call began (kept for the properties).
Idle == [at |-> "idle", call |-> [how |-> "string", level |-> "", text |-> <<>>],
         i |-> 0, line |-> <<>>, alone |-> TRUE]
InBuffer(t) == thread[t].at \in {"vsprintf", "syslog"}

\* Thread t uses std::clog; bytes are what it puts there.
Uses(t, bytes) ==
    /\ put' = put \o bytes
    /\ raced' = (raced \/ \E u \in Threads \ {t} : thread[u].at = "erase")

\* A line of syslog.
Send(t, level, line) ==
    journal' = Append(journal, [level |-> level, line |-> line, call |-> thread[t].call, alone |-> thread[t].alone])
Go(t, at, i, line) == thread' = [thread EXCEPT ![t].at = at, ![t].i = i, ![t].line = line]

\* Log::Log: new char[BUFLEN].
Init ==
    /\ buffer = [i \in 1..BUFLEN |-> Raw] /\ buffer_ = <<>> /\ priority_ = LOG_DEBUG
    /\ thread = [t \in Threads |-> Idle] /\ made = [t \in Threads |-> 0]
    /\ journal = <<>> /\ put = <<>> /\ raced = FALSE

\* A call of err, warn, info or of operator<< on std::clog. Whoever shares the
\* static buffer is no longer alone.
Call(t) ==
    /\ thread[t].at = "idle" /\ made[t] < MaxCalls
    /\ \E c \in Calls :
          LET at == IF c.how \in {"format", "null"} THEN "vsprintf" ELSE IF c.how = "string" THEN "send" ELSE "put"
              Meets(u) == u # t /\ at = "vsprintf" /\ InBuffer(u)
          IN thread' = [u \in Threads |->
                 IF u = t THEN [at |-> at, call |-> c, i |-> 1, line |-> <<>>, alone |-> ~\E w \in Threads : Meets(w)]
                 ELSE [thread[u] EXCEPT !.alone = @ /\ ~Meets(u)]]
    /\ made' = [made EXCEPT ![t] = @ + 1]
    /\ UNCHANGED <<buffer, stream, priority_, journal>>

\* A slip of Vsprintf: no byte ends the text.
Vsprintf_NoEnd(t) ==
    LET text == thread[t].call.text  i == thread[t].i IN
    /\ thread[t].at = "vsprintf" /\ thread[t].call.how # "null"
    /\ IF i <= Len(text) THEN buffer' = [buffer EXCEPT ![i] = text[i]] /\ Go(t, "vsprintf", i + 1, <<>>)
       ELSE Go(t, "syslog", 1, <<>>) /\ UNCHANGED buffer
    /\ UNCHANGED <<stream, priority_, made, journal>>

\* vsprintf: the text, and the byte that ends it.
Vsprintf(t) ==
    LET text == thread[t].call.text  i == thread[t].i IN
    /\ thread[t].at = "vsprintf" /\ thread[t].call.how # "null"
    /\ buffer' = [buffer EXCEPT ![i] = IF i <= Len(text) THEN text[i] ELSE NUL]
    /\ IF i <= Len(text) THEN Go(t, "vsprintf", i + 1, <<>>) ELSE Go(t, "syslog", 1, <<>>)
    /\ UNCHANGED <<stream, priority_, made, journal>>

\* Without a format vsprintf fails: glibc leaves the buffer or empties it.
VsprintfNull(t) ==
    /\ thread[t].at = "vsprintf" /\ thread[t].call.how = "null"
    /\ UNCHANGED buffer \/ buffer' = [buffer EXCEPT ![1] = NUL]
    /\ Go(t, "syslog", 1, <<>>)
    /\ UNCHANGED <<stream, priority_, made, journal>>

\* syslog copies the buffer up to its end.
Syslog(t) ==
    LET i == thread[t].i IN
    /\ thread[t].at = "syslog"
    /\ IF i > BUFLEN \/ buffer[i] = NUL
       THEN Send(t, thread[t].call.level, thread[t].line) /\ thread' = [thread EXCEPT ![t] = Idle]
       ELSE Go(t, "syslog", i + 1, Append(thread[t].line, buffer[i])) /\ UNCHANGED journal
    /\ UNCHANGED <<buffer, stream, priority_, made>>

\* err, warn and info of a std::string: syslog reads the string itself.
SyslogString(t) ==
    /\ thread[t].at = "send"
    /\ Send(t, thread[t].call.level, thread[t].call.text)
    /\ thread' = [thread EXCEPT ![t] = Idle]
    /\ UNCHANGED <<buffer, stream, priority_, made>>

\* overflow, which every byte goes to because the stream buffer has no area.
Overflow(t) ==
    LET text == thread[t].call.text  i == thread[t].i IN
    /\ thread[t].at = "put" /\ i <= Len(text)
    /\ buffer_' = Append(buffer_, text[i])
    /\ Uses(t, <<text[i]>>)
    /\ Go(t, "put", i + 1, <<>>)
    /\ UNCHANGED <<buffer, priority_, made, journal>>

\* The end of the call: std::endl puts a new line and calls sync.
Endl(t) ==
    /\ thread[t].at = "put" /\ thread[t].i > Len(thread[t].call.text)
    /\ IF thread[t].call.how = "line"
       THEN buffer_' = Append(buffer_, NewLine) /\ Uses(t, <<NewLine>>) /\ Go(t, "sync", 0, <<>>)
       ELSE UNCHANGED stream /\ thread' = [thread EXCEPT ![t] = Idle]
    /\ UNCHANGED <<buffer, priority_, made, journal>>

\* sync: nothing to do, or a line that is erased after it was sent.
Sync(t) ==
    /\ thread[t].at = "sync"
    /\ IF buffer_ = <<>> THEN thread' = [thread EXCEPT ![t] = Idle] /\ UNCHANGED journal
       ELSE Send(t, priority_, buffer_) /\ Go(t, "erase", 0, <<>>)
    /\ Uses(t, <<>>)
    /\ UNCHANGED <<buffer, buffer_, priority_, made>>

\* A slip of Erase: the line stays.
Erase_Forgotten(t) ==
    /\ thread[t].at = "erase"
    /\ thread' = [thread EXCEPT ![t] = Idle]
    /\ UNCHANGED <<buffer, stream, priority_, made, journal>>

Erase(t) ==
    /\ thread[t].at = "erase"
    /\ buffer_' = <<>>
    /\ thread' = [thread EXCEPT ![t] = Idle]
    /\ UNCHANGED <<buffer, put, raced, priority_, made, journal>>

Step(t) == \/ Call(t) \/ Vsprintf(t) \/ VsprintfNull(t) \/ Syslog(t) \/ SyslogString(t)
           \/ Overflow(t) \/ Endl(t) \/ Sync(t) \/ Erase(t)
Next == \E t \in Threads : Step(t)

Spec == Init /\ [][Next]_vars

-----------------------------------------------------------------------------
(* Properties.                                                             *)

\* A line given as a std::string is whole whatever the other threads do: it never
\* goes through the static buffer. A line formatted while no other thread is between
\* its vsprintf and the end of its syslog is the text of its call: it ends where the
\* text does, whatever an earlier and longer line has left in the buffer.
LinesWhole ==
    \A i \in DOMAIN journal :
        LET how == journal[i].call.how IN
        how = "string" \/ (how = "format" /\ journal[i].alone)
            => journal[i].line = journal[i].call.text

\* std::clog loses and repeats nothing, however its users take turns, unless one
\* of them comes between the syslog and the erase of another's sync: the lines
\* sent and what buffer_ still holds are the bytes put, in order.
StreamConserved ==
    LET sent == FlattenSeq([i \in DOMAIN journal |->
                    IF journal[i].call.how = "line" THEN journal[i].line ELSE <<>>])
        held == IF \E t \in Threads : thread[t].at = "erase" THEN <<>> ELSE buffer_
    IN  ~raced => sent \o held = put
=============================================================================
