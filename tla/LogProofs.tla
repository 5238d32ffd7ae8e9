------------------------------ MODULE LogProofs ------------------------------
(***************************************************************************)
(* The lines that Log sends to syslog, for any number of threads, any      *)
(* calls and any size of the static buffer.                                *)
(***************************************************************************)
EXTENDS Log, SequenceTheorems, WellFoundedInduction, TLAPS

\* A call that a thread may be in: one of the program, or none yet.
Made == Calls \cup {Idle.call}

At == {"idle", "vsprintf", "syslog", "send", "put", "sync", "erase"}
Frame == [at : At, call : Made, i : Nat, line : Seq(Int), alone : BOOLEAN]
Entry == [level : {c.level : c \in Made} \cup {LOG_DEBUG}, line : Seq(Int),
          call : Made, alone : BOOLEAN]

Typed ==
    /\ thread \in [Threads -> Frame]
    /\ buffer \in [1..BUFLEN -> Int] /\ buffer_ \in Seq(Int)
    /\ priority_ = LOG_DEBUG /\ journal \in Seq(Entry)

\* syslog reads the buffer, and std::clog a text, from the first byte on.
Counted == \A t \in Threads : thread[t].at \in {"syslog", "put"} => thread[t].i # 0

\* A thread that formats is alone only while no other thread is in the buffer.
AloneIsTrue ==
    \A t, u \in Threads : InBuffer(t) /\ thread[t].alone /\ InBuffer(u) => u = t

\* How far the text of a formatted line has got into the buffer.
Formatted(t) ==
    LET text == thread[t].call.text IN
    /\ thread[t].i \in 1..(Len(text) + 1)
    /\ \A j \in 1..(thread[t].i - 1) : buffer[j] = text[j]

\* ... and how far it has got out of it again.
Copied(t) ==
    LET text == thread[t].call.text IN
    /\ thread[t].i \in 1..(Len(text) + 1)
    /\ \A j \in 1..Len(text) : buffer[j] = text[j]
    /\ buffer[Len(text) + 1] = NUL
    /\ Len(thread[t].line) = thread[t].i - 1
    /\ \A j \in 1..(thread[t].i - 1) : thread[t].line[j] = text[j]

\* What the buffer holds for a thread that is alone in it.
BufferTrue == \A t \in Threads :
    /\ InBuffer(t) => thread[t].call.how \in {"format", "null"}
    /\ thread[t].at = "vsprintf" /\ thread[t].call.how = "format" =>
          thread[t].i \in 1..(Len(thread[t].call.text) + 1)
    /\ thread[t].alone /\ thread[t].call.how = "format" =>
          /\ thread[t].at = "vsprintf" => Formatted(t)
          /\ thread[t].at = "syslog" => Copied(t)

\* The other ways to the journal.
OthersTrue == \A t \in Threads :
    /\ thread[t].at = "send" => thread[t].call.how = "string"
    /\ thread[t].at \in {"put", "sync", "erase"} =>
          thread[t].call.how \notin {"string", "format", "null"}

IInv == Typed /\ Counted /\ AloneIsTrue /\ BufferTrue /\ OthersTrue /\ LinesWhole

-----------------------------------------------------------------------------
(* The steps.                                                              *)

\* The text of a call fits into the static buffer, with the byte that ends it.
LEMMA TextFits ==
    \A c \in Made : c.text \in Seq(1..255) /\ c.text \in Seq(Int) /\ Len(c.text) < BUFLEN
<1> SUFFICES ASSUME NEW c \in Made
             PROVE  c.text \in Seq(1..255) /\ c.text \in Seq(Int) /\ Len(c.text) < BUFLEN
  OBVIOUS
<1>1. CASE c \in Calls
  <2>1. c.text \in Seq(1..255) /\ Len(c.text) < BUFLEN
    BY <1>1, LogAssumption
  <2>2. 1..255 \subseteq Int
    OBVIOUS
  <2>3. c.text \in Seq(Int)
    BY <2>1, <2>2, SeqMonotonic
  <2> QED
    BY <2>1, <2>3
<1>2. CASE c = Idle.call
  <2>1. c.text = <<>>
    BY <1>2 DEF Idle
  <2> QED
    BY <2>1, LogAssumption
<1> QED
  BY <1>1, <1>2 DEF Made

\* A frame is what its fields are.
LEMMA FrameType ==
    ASSUME NEW at \in At, NEW c \in Made, NEW i \in Nat, NEW line \in Seq(Int),
           NEW alone \in BOOLEAN
    PROVE  [at |-> at, call |-> c, i |-> i, line |-> line, alone |-> alone] \in Frame
  BY DEF Frame

\* Idle is a frame.
LEMMA IdleType == /\ Idle \in Frame /\ Idle.at = "idle"
                  /\ Idle.call.how = "string"
<1>1. /\ Idle.at = "idle" /\ Idle.i = 0 /\ Idle.line = <<>> /\ Idle.alone = TRUE
      /\ Idle.call.how = "string"
  BY DEF Idle
<1>2. Idle.call \in Made
  BY DEF Made
<1>3. Idle = [at |-> Idle.at, call |-> Idle.call, i |-> Idle.i, line |-> Idle.line,
              alone |-> Idle.alone]
  BY DEF Idle
<1>4. Idle.line \in Seq(Int) /\ Idle.alone \in BOOLEAN /\ Idle.at \in At /\ Idle.i \in Nat
  <2>1. <<>> \in Seq(Int)
    OBVIOUS
  <2>2. Idle.alone \in BOOLEAN
    BY <1>1, Zenon
  <2> QED
    BY <1>1, <2>1, <2>2 DEF At
<1>5. [at |-> Idle.at, call |-> Idle.call, i |-> Idle.i, line |-> Idle.line,
       alone |-> Idle.alone] \in Frame
  BY <1>2, <1>4, FrameType
<1> QED
  BY <1>1, <1>3, <1>5

\* Go changes the place of one thread, and neither its call nor whether it is alone.
LEMMA GoEffect ==
    ASSUME IInv, NEW t \in Threads
    PROVE  \A at \in At, i \in Nat, line \in Seq(Int) : Go(t, at, i, line) =>
           /\ thread' \in [Threads -> Frame]
           /\ \A u \in Threads \ {t} : thread'[u] = thread[u]
           /\ thread'[t].at = at /\ thread'[t].i = i /\ thread'[t].line = line
           /\ thread'[t].call = thread[t].call /\ thread'[t].alone = thread[t].alone
<1> SUFFICES ASSUME NEW at \in At, NEW i \in Nat, NEW line \in Seq(Int), Go(t, at, i, line)
             PROVE  /\ thread' \in [Threads -> Frame]
                    /\ \A u \in Threads \ {t} : thread'[u] = thread[u]
                    /\ thread'[t].at = at /\ thread'[t].i = i /\ thread'[t].line = line
                    /\ thread'[t].call = thread[t].call /\ thread'[t].alone = thread[t].alone
  OBVIOUS
<1> DEFINE f == [thread[t] EXCEPT !.at = at, !.i = i, !.line = line]
<1>1. thread' = [thread EXCEPT ![t] = f]
  BY DEF Go, IInv, Typed
<1>2. thread[t] \in Frame
  BY DEF IInv, Typed
<1>3. f \in Frame /\ f.at = at /\ f.i = i /\ f.line = line
      /\ f.call = thread[t].call /\ f.alone = thread[t].alone
  BY <1>2 DEF Frame
<1> HIDE DEF f
<1> QED
  BY <1>1, <1>3 DEF IInv, Typed

\* Invariants of the threads survive a step of one that ends up outside of the buffer
\* and leaves the bytes in it alone.
LEMMA OutsideStep ==
    ASSUME Counted, AloneIsTrue, BufferTrue, OthersTrue, NEW t \in Threads, UNCHANGED buffer,
           \A u \in Threads \ {t} : thread'[u] = thread[u],
           thread'[t].at \in {"idle", "put", "sync", "erase"},
           thread'[t].at = "put" => thread'[t].i # 0,
           thread'[t].at # "idle" =>
              thread[t].at \in {"put", "sync", "erase"} /\ thread'[t].call = thread[t].call
    PROVE  Counted' /\ AloneIsTrue' /\ BufferTrue' /\ OthersTrue'
<1>0. Counted'
  BY DEF Counted
<1>1. AloneIsTrue'
  BY DEF AloneIsTrue, InBuffer
<1>2. BufferTrue'
  <2>2. ~InBuffer(t)'
    BY DEF InBuffer
  <2>3. ASSUME NEW u \in Threads \ {t}
        PROVE  /\ InBuffer(u)' => thread'[u].call.how \in {"format", "null"}
               /\ thread'[u].at = "vsprintf" /\ thread'[u].call.how = "format" =>
                     thread'[u].i \in 1..(Len(thread'[u].call.text) + 1)
    BY DEF BufferTrue, InBuffer
  <2>4. ASSUME NEW u \in Threads \ {t}, thread'[u].alone, thread'[u].call.how = "format"
        PROVE  /\ thread'[u].at = "vsprintf" => Formatted(u)'
               /\ thread'[u].at = "syslog" => Copied(u)'
    <3>1. thread[u].alone /\ thread[u].call.how = "format"
      BY <2>4
    <3>2. /\ thread[u].at = "vsprintf" => Formatted(u)
          /\ thread[u].at = "syslog" => Copied(u)
      BY <3>1 DEF BufferTrue
    <3>3. thread'[u].at = thread[u].at
      OBVIOUS
    <3> QED
      BY <3>2, <3>3 DEF Formatted, Copied
  <2> QED
    BY <2>2, <2>3, <2>4 DEF BufferTrue, InBuffer
<1>3. OthersTrue'
  BY DEF OthersTrue
<1> QED
  BY <1>0, <1>1, <1>2, <1>3

\* A line that is as it must be keeps LinesWhole.
LEMMA SendWhole ==
    ASSUME Typed, LinesWhole, NEW t \in Threads, NEW level, NEW line, Send(t, level, line),
           LET c == thread[t].call IN
           c.how = "string" \/ (c.how = "format" /\ thread[t].alone) => line = c.text
    PROVE  LinesWhole'
<1> DEFINE e == [level |-> level, line |-> line, call |-> thread[t].call,
                 alone |-> thread[t].alone]
<1>1. journal' = Append(journal, e)
  BY DEF Send
<1>2. e.call = thread[t].call /\ e.line = line /\ e.alone = thread[t].alone
  OBVIOUS
<1> HIDE DEF e
<1>3. ASSUME NEW k \in DOMAIN journal'
      PROVE  journal'[k] = e \/ (k \in DOMAIN journal /\ journal'[k] = journal[k])
  BY <1>1 DEF Typed
<1> QED
  BY <1>2, <1>3 DEF LinesWhole

\* A new call is alone in the buffer if nobody is there, and ends the being alone of
\* who is.
LEMMA CallStep == ASSUME IInv, NEW t \in Threads, Call(t) PROVE IInv'
<1> USE DEF IInv
<1> PICK c \in Calls :
      LET at == IF c.how \in {"format", "null"} THEN "vsprintf"
                ELSE IF c.how = "string" THEN "send" ELSE "put"
          Meets(u) == u # t /\ at = "vsprintf" /\ InBuffer(u)
      IN  thread' = [u \in Threads |->
             IF u = t THEN [at |-> at, call |-> c, i |-> 1, line |-> <<>>,
                            alone |-> ~\E w \in Threads : Meets(w)]
             ELSE [thread[u] EXCEPT !.alone = @ /\ ~Meets(u)]]
  BY DEF Call
<1> DEFINE at == IF c.how \in {"format", "null"} THEN "vsprintf"
                 ELSE IF c.how = "string" THEN "send" ELSE "put"
           Meets(u) == u # t /\ at = "vsprintf" /\ InBuffer(u)
           alone == ~\E w \in Threads : Meets(w)
<1>1. /\ UNCHANGED <<buffer, buffer_, priority_, journal>>
      /\ thread[t].at = "idle" /\ at \in At /\ alone \in BOOLEAN /\ c \in Made
  BY DEF Call, stream, At, Made
<1>2. thread'[t] = [at |-> at, call |-> c, i |-> 1, line |-> <<>>, alone |-> alone]
  OBVIOUS
<1>3. ASSUME NEW u \in Threads \ {t}
      PROVE  thread'[u] = [thread[u] EXCEPT !.alone = @ /\ ~Meets(u)]
  OBVIOUS
<1> HIDE DEF alone, Meets
<1>4. ASSUME NEW u \in Threads \ {t}
      PROVE  /\ thread'[u] \in Frame
             /\ thread'[u].at = thread[u].at /\ thread'[u].call = thread[u].call
             /\ thread'[u].i = thread[u].i /\ thread'[u].line = thread[u].line
             /\ thread'[u].alone => thread[u].alone /\ ~Meets(u)
  <2>1. thread[u] \in Frame
    BY DEF Typed
  <2>2. thread[u].alone \in BOOLEAN /\ (thread[u].alone /\ ~Meets(u)) \in BOOLEAN
    BY <2>1 DEF Frame
  <2> QED
    BY <1>3, <2>1, <2>2 DEF Frame
<1>4a. ASSUME NEW u \in Threads, u # t
      PROVE  /\ thread'[u].at = thread[u].at /\ thread'[u].call = thread[u].call
             /\ thread'[u].i = thread[u].i /\ thread'[u].line = thread[u].line
  BY <1>4, <1>4a
<1>5. Typed'
  <2>1. thread'[t] \in Frame
    <3>1. 1 \in Nat /\ <<>> \in Seq(Int)
      OBVIOUS
    <3> HIDE DEF at
    <3> QED
      BY <1>1, <1>2, <3>1, FrameType
  <2>2. thread' \in [Threads -> Frame]
    <3>1. \A u \in Threads : thread'[u] \in Frame
      BY <1>4, <2>1
    <3>2. thread' = [u \in Threads |-> thread'[u]]
      OBVIOUS
    <3> QED
      BY <3>1, <3>2
  <2> QED
    BY <1>1, <2>2 DEF Typed
<1>6. thread'[t].at = at /\ thread'[t].call = c /\ thread'[t].i = 1
      /\ thread'[t].alone = alone
  BY <1>2
<1>6a. Counted'
  BY <1>4a, <1>6 DEF Counted
<1>7. AloneIsTrue'
  <2> SUFFICES ASSUME NEW u \in Threads, NEW v \in Threads, u # v,
                      InBuffer(u)', thread'[u].alone, InBuffer(v)'
               PROVE  FALSE
    BY DEF AloneIsTrue
  <2>1. CASE u = t
    <3>1. v # t /\ InBuffer(v) /\ at = "vsprintf"
      BY <1>4, <1>6, <2>1 DEF InBuffer
    <3>2. Meets(v)
      BY <3>1 DEF Meets
    <3> QED
      BY <1>6, <2>1, <3>2 DEF alone
  <2>2. CASE v = t
    <3>1. InBuffer(u) /\ at = "vsprintf" /\ ~Meets(u)
      BY <1>4, <1>6, <2>2 DEF InBuffer
    <3> QED
      BY <2>2, <3>1 DEF Meets
  <2>3. CASE u # t /\ v # t
    <3>1. InBuffer(u) /\ InBuffer(v) /\ thread[u].alone
      BY <1>4, <2>3 DEF InBuffer
    <3> QED
      BY <3>1 DEF AloneIsTrue
  <2> QED
    BY <2>1, <2>2, <2>3
<1>8. BufferTrue'
  <2>1. ASSUME NEW u \in Threads
        PROVE  /\ InBuffer(u)' => thread'[u].call.how \in {"format", "null"}
               /\ thread'[u].at = "vsprintf" /\ thread'[u].call.how = "format" =>
                     thread'[u].i \in 1..(Len(thread'[u].call.text) + 1)
    <3>1. c.text \in Seq(1..255) /\ Len(c.text) \in Nat
      <4>1. c.text \in Seq(1..255)
        BY <1>1, TextFits
      <4> QED
        BY <4>1
    <3>2. CASE u = t
      BY <1>6, <3>1, <3>2 DEF InBuffer
    <3>3. CASE u # t
      <4>1. /\ InBuffer(u) => thread[u].call.how \in {"format", "null"}
            /\ thread[u].at = "vsprintf" /\ thread[u].call.how = "format" =>
                  thread[u].i \in 1..(Len(thread[u].call.text) + 1)
        BY DEF BufferTrue
      <4> QED
        BY <1>4a, <3>3, <4>1 DEF InBuffer
    <3> QED
      BY <3>2, <3>3
  <2>2. ASSUME NEW u \in Threads, thread'[u].alone, thread'[u].call.how = "format"
        PROVE  /\ thread'[u].at = "vsprintf" => Formatted(u)'
               /\ thread'[u].at = "syslog" => Copied(u)'
    <3>1. CASE u = t
      <4>1. c.text \in Seq(1..255)
        BY <1>1, TextFits
      <4>2. Len(c.text) \in Nat /\ 1..0 = {} /\ 1 - 1 = 0
        BY <4>1
      <4>3. Formatted(t)'
        BY <1>6, <4>2 DEF Formatted
      <4>4. thread'[u].at # "syslog"
        BY <1>6, <3>1
      <4> QED
        BY <3>1, <4>3, <4>4
    <3>2. CASE u # t
      <4>1. thread[u].alone /\ thread[u].call.how = "format"
        BY <1>4, <2>2, <3>2
      <4>2. /\ thread[u].at = "vsprintf" => Formatted(u)
            /\ thread[u].at = "syslog" => Copied(u)
        BY <4>1 DEF BufferTrue
      <4>3. /\ thread'[u].at = thread[u].at /\ thread'[u].call = thread[u].call
            /\ thread'[u].i = thread[u].i /\ thread'[u].line = thread[u].line
            /\ buffer' = buffer
        BY <1>1, <1>4a, <3>2
      <4>4. Formatted(u) => Formatted(u)'
        BY <4>3 DEF Formatted
      <4>5. Copied(u) => Copied(u)'
        BY <4>3 DEF Copied
      <4> QED
        BY <4>2, <4>3, <4>4, <4>5
    <3> QED
      BY <3>1, <3>2
  <2> QED
    BY <2>1, <2>2 DEF BufferTrue
<1>9. OthersTrue'
  <2>1. ASSUME NEW u \in Threads
        PROVE  /\ thread'[u].at = "send" => thread'[u].call.how = "string"
               /\ thread'[u].at \in {"put", "sync", "erase"} =>
                     thread'[u].call.how \notin {"string", "format", "null"}
    BY <1>4, <1>6 DEF OthersTrue
  <2> QED
    BY <2>1 DEF OthersTrue
<1>10. LinesWhole'
  BY <1>1 DEF LinesWhole
<1> QED
  BY <1>5, <1>6a, <1>7, <1>8, <1>9, <1>10

\* A byte of the text, or the one that ends it.
LEMMA VsprintfStep == ASSUME IInv, NEW t \in Threads, Vsprintf(t) PROVE IInv'
<1> DEFINE text == thread[t].call.text
           i == thread[t].i
           b == IF i <= Len(text) THEN text[i] ELSE NUL
<1>1. /\ thread[t].at = "vsprintf" /\ thread[t].call.how = "format"
      /\ i \in 1..(Len(text) + 1)
  BY DEF Vsprintf, IInv, BufferTrue, InBuffer
<1>2. text \in Seq(1..255) /\ Len(text) < BUFLEN /\ thread[t] \in Frame
  BY TextFits DEF IInv, Typed, Frame
<1>3. /\ Len(text) \in Nat /\ i \in Nat /\ i \in 1..BUFLEN /\ BUFLEN \in Nat
      /\ b \in Int
  <2>1. Len(text) \in Nat
    BY <1>2
  <2>2. i \in Nat /\ i >= 1 /\ i <= Len(text) + 1
    <3> HIDE DEF i, text
    <3> QED
      BY <1>1, <2>1
  <2>3. BUFLEN \in Nat
    BY LogAssumption
  <2>4. i \in 1..BUFLEN
    <3> HIDE DEF i, text
    <3> QED
      BY <1>2, <2>1, <2>2, <2>3
  <2>5. b \in Int
    <3>1. i <= Len(text) => text[i] \in 1..255
      <4> HIDE DEF i, text
      <4>1. text \in Seq(1..255)
        BY <1>2
      <4>2. i <= Len(text) => i \in 1..Len(text)
        BY <2>1, <2>2
      <4> QED
        BY <4>1, <4>2, ElementOfSeq
    <3>2. (i <= Len(text) => b = text[i]) /\ (~(i <= Len(text)) => b = 0)
      BY DEF NUL
    <3> HIDE DEF i, text, b
    <3> QED
      BY <3>1, <3>2
  <2> QED
    BY <2>1, <2>2, <2>3, <2>4, <2>5
<1>4. /\ buffer' = [buffer EXCEPT ![i] = b]
      /\ UNCHANGED <<buffer_, priority_, journal>>
  BY DEF Vsprintf, stream
<1>5. /\ thread' \in [Threads -> Frame]
      /\ \A u \in Threads \ {t} : thread'[u] = thread[u]
      /\ thread'[t].call = thread[t].call /\ thread'[t].alone = thread[t].alone
      /\ \/ i <= Len(text) /\ thread'[t].at = "vsprintf" /\ thread'[t].i = i + 1
         \/ i = Len(text) + 1 /\ thread'[t].at = "syslog" /\ thread'[t].i = 1
                              /\ thread'[t].line = <<>>
  <2> DEFINE none == <<>>
  <2>1. none \in Seq(Int) /\ "vsprintf" \in At /\ "syslog" \in At
    BY DEF At
  <2>1a. i + 1 \in Nat /\ 1 \in Nat
    BY <1>3
  <2>2. CASE i <= Len(text)
    <3> DEFINE k == i + 1
    <3>1. Go(t, "vsprintf", k, none)
      BY <2>2 DEF Vsprintf
    <3>2. k \in Nat
      BY <2>1a
    <3> HIDE DEF k, none
    <3>3. /\ thread' \in [Threads -> Frame]
          /\ \A u \in Threads \ {t} : thread'[u] = thread[u]
          /\ thread'[t].at = "vsprintf" /\ thread'[t].i = k /\ thread'[t].line = none
          /\ thread'[t].call = thread[t].call /\ thread'[t].alone = thread[t].alone
      BY <2>1, <3>1, <3>2, GoEffect, Zenon
    <3> QED
      BY <2>2, <3>3 DEF k
  <2>3. CASE ~(i <= Len(text))
    <3> DEFINE k == 1
    <3>0. i = Len(text) + 1
      <4> HIDE DEF i, text
      <4> QED
        BY <1>1, <1>3, <2>3
    <3>1. Go(t, "syslog", k, none)
      BY <2>3 DEF Vsprintf
    <3>2. k \in Nat
      BY <2>1a
    <3> HIDE DEF k, none
    <3>3. /\ thread' \in [Threads -> Frame]
          /\ \A u \in Threads \ {t} : thread'[u] = thread[u]
          /\ thread'[t].at = "syslog" /\ thread'[t].i = k /\ thread'[t].line = none
          /\ thread'[t].call = thread[t].call /\ thread'[t].alone = thread[t].alone
      BY <2>1, <3>1, <3>2, GoEffect, Zenon
    <3> QED
      BY <3>0, <3>3 DEF k, none
  <2> QED
    BY <2>2, <2>3
<1>6. Typed'
  BY <1>3, <1>4, <1>5 DEF IInv, Typed
<1>6a. Counted'
  <2>1. thread'[t].at # "put" /\ (thread'[t].at = "syslog" => thread'[t].i = 1)
    BY <1>5
  <2> QED
    BY <1>5, <2>1 DEF IInv, Counted
<1>7. ASSUME NEW u \in Threads PROVE InBuffer(u)' <=> InBuffer(u)
  BY <1>1, <1>5 DEF InBuffer
<1>8. ASSUME NEW u \in Threads \ {t}, InBuffer(u) PROVE ~thread[u].alone
  BY <1>1, <1>8 DEF IInv, AloneIsTrue, InBuffer
<1>9. AloneIsTrue'
  <2> SUFFICES ASSUME NEW u \in Threads, NEW v \in Threads,
                      InBuffer(u)', thread'[u].alone, InBuffer(v)'
               PROVE  v = u
    BY DEF AloneIsTrue
  <2>1. InBuffer(u) /\ InBuffer(v) /\ thread[u].alone
    BY <1>5, <1>7
  <2> QED
    BY <2>1 DEF IInv, AloneIsTrue
<1>10. BufferTrue'
  <2>1. ASSUME NEW u \in Threads
        PROVE  /\ InBuffer(u)' => thread'[u].call.how \in {"format", "null"}
               /\ thread'[u].at = "vsprintf" /\ thread'[u].call.how = "format" =>
                     thread'[u].i \in 1..(Len(thread'[u].call.text) + 1)
    <3>1. CASE u = t
      <4>1. thread'[t].call.how = "format" /\ thread'[t].call.text = text
        BY <1>1, <1>5
      <4>2. thread'[t].at = "vsprintf" =>
               i <= Len(text) /\ thread'[t].i = i + 1
        BY <1>5
      <4>3. thread'[t].at = "vsprintf" =>
               thread'[t].i \in 1..(Len(text) + 1)
        <5> HIDE DEF i, text
        <5> QED
          BY <1>3, <4>2
      <4> QED
        BY <3>1, <4>1, <4>3
    <3>2. CASE u # t
      <4>1. thread'[u] = thread[u]
        BY <1>5, <3>2
      <4> QED
        BY <4>1 DEF IInv, BufferTrue, InBuffer
    <3> QED
      BY <3>1, <3>2
  <2>2. ASSUME NEW u \in Threads, thread'[u].alone, thread'[u].call.how = "format"
        PROVE  /\ thread'[u].at = "vsprintf" => Formatted(u)'
               /\ thread'[u].at = "syslog" => Copied(u)'
    <3>1. CASE u # t
      BY <1>5, <1>8, <2>2, <3>1 DEF InBuffer
    <3>2. CASE u = t
      <4>1. Formatted(t)
        BY <1>1, <1>5, <2>2, <3>2 DEF IInv, BufferTrue
      <4>2. \A j \in 1..(i - 1) : buffer'[j] = text[j]
        BY <1>2, <1>3, <1>4, <4>1 DEF Formatted, IInv, Typed
      <4>3. buffer'[i] = b
        BY <1>3, <1>4 DEF IInv, Typed
      <4>0. thread'[t].call.text = text
        BY <1>5
      <4>4. CASE i <= Len(text)
        <5>1. thread'[t].at = "vsprintf" /\ thread'[t].i = i + 1
          BY <1>5, <4>4, <1>3
        <5>2. \A j \in 1..i : buffer'[j] = text[j]
          <6>1. b = text[i]
            BY <4>4
          <6> HIDE DEF i, text, b
          <6> QED
            BY <1>3, <4>2, <4>3, <6>1
        <5>3. i + 1 \in 1..(Len(text) + 1) /\ (i + 1) - 1 = i
          <6> HIDE DEF i, text
          <6> QED
            BY <1>3, <4>4
        <5>4. Formatted(t)'
          <6> HIDE DEF i, text
          <6> QED
            BY <4>0, <5>1, <5>2, <5>3 DEF Formatted
        <5> QED
          BY <3>2, <5>1, <5>4
      <4>5. CASE i = Len(text) + 1
        <5>1. thread'[t].at = "syslog" /\ thread'[t].i = 1 /\ thread'[t].line = <<>>
          <6>1. ~(i <= Len(text))
            <7> HIDE DEF i, text
            <7> QED
              BY <1>3, <4>5
          <6> QED
            BY <1>5, <6>1
        <5>2. /\ \A j \in 1..Len(text) : buffer'[j] = text[j]
              /\ buffer'[Len(text) + 1] = NUL
          <6>1. b = NUL
            <7> HIDE DEF i, text
            <7> QED
              BY <1>3, <4>5
          <6> HIDE DEF i, text, b
          <6> QED
            BY <1>3, <4>2, <4>3, <4>5, <6>1
        <5>3. Len(<<>>) = 0 /\ 1 - 1 = 0 /\ 1..0 = {} /\ 1 \in 1..(Len(text) + 1)
          <6> HIDE DEF i, text
          <6> QED
            BY <1>3
        <5>4. Copied(t)'
          <6> HIDE DEF i, text
          <6> QED
            BY <4>0, <5>1, <5>2, <5>3 DEF Copied
        <5> QED
          BY <3>2, <5>1, <5>4
      <4> QED
        BY <1>3, <1>5, <4>4, <4>5
    <3> QED
      BY <3>1, <3>2
  <2> QED
    BY <2>1, <2>2 DEF BufferTrue
<1>11. OthersTrue'
  BY <1>5 DEF IInv, OthersTrue
<1>12. LinesWhole'
  BY <1>4 DEF IInv, LinesWhole
<1> QED
  BY <1>6, <1>6a, <1>9, <1>10, <1>11, <1>12 DEF IInv

\* Nobody who formats is alone while the buffer is emptied under another's hands.
LEMMA VsprintfNullStep == ASSUME IInv, NEW t \in Threads, VsprintfNull(t) PROVE IInv'
<1>1. /\ thread[t].at = "vsprintf" /\ thread[t].call.how = "null"
      /\ buffer' = buffer \/ buffer' = [buffer EXCEPT ![1] = NUL]
      /\ Go(t, "syslog", 1, <<>>)
      /\ UNCHANGED <<buffer_, priority_, journal>>
  BY DEF VsprintfNull, stream
<1>2. /\ thread' \in [Threads -> Frame]
      /\ \A u \in Threads \ {t} : thread'[u] = thread[u]
      /\ thread'[t].call = thread[t].call /\ thread'[t].alone = thread[t].alone
      /\ thread'[t].at = "syslog" /\ thread'[t].i = 1
  <2>1. <<>> \in Seq(Int) /\ "syslog" \in At /\ 1 \in Nat
    BY DEF At
  <2> QED
    BY <1>1, <2>1, GoEffect, Zenon
<1>3. Typed'
  BY <1>1, <1>2 DEF IInv, Typed, NUL
<1>3a. Counted'
  BY <1>2 DEF IInv, Counted
<1>4. ASSUME NEW u \in Threads PROVE InBuffer(u)' <=> InBuffer(u)
  BY <1>1, <1>2 DEF InBuffer
<1>5. ASSUME NEW u \in Threads \ {t}, InBuffer(u) PROVE ~thread[u].alone
  BY <1>1, <1>5 DEF IInv, AloneIsTrue, InBuffer
<1>6. AloneIsTrue'
  <2> SUFFICES ASSUME NEW u \in Threads, NEW v \in Threads,
                      InBuffer(u)', thread'[u].alone, InBuffer(v)'
               PROVE  v = u
    BY DEF AloneIsTrue
  <2>1. InBuffer(u) /\ InBuffer(v) /\ thread[u].alone
    BY <1>2, <1>4
  <2> QED
    BY <2>1 DEF IInv, AloneIsTrue
<1>7. BufferTrue'
  <2>1. ASSUME NEW u \in Threads
        PROVE  /\ InBuffer(u)' => thread'[u].call.how \in {"format", "null"}
               /\ thread'[u].at = "vsprintf" /\ thread'[u].call.how = "format" =>
                     thread'[u].i \in 1..(Len(thread'[u].call.text) + 1)
    <3>1. CASE u = t
      BY <1>1, <1>2, <3>1
    <3>2. CASE u # t
      <4>1. thread'[u] = thread[u]
        BY <1>2, <3>2
      <4> QED
        BY <4>1 DEF IInv, BufferTrue, InBuffer
    <3> QED
      BY <3>1, <3>2
  <2>2. ASSUME NEW u \in Threads, thread'[u].alone, thread'[u].call.how = "format"
        PROVE  /\ thread'[u].at = "vsprintf" => Formatted(u)'
               /\ thread'[u].at = "syslog" => Copied(u)'
    BY <1>1, <1>2, <1>5, <2>2 DEF InBuffer
  <2> QED
    BY <2>1, <2>2 DEF BufferTrue
<1>8. OthersTrue'
  BY <1>2 DEF IInv, OthersTrue
<1>9. LinesWhole'
  BY <1>1 DEF IInv, LinesWhole
<1> QED
  BY <1>3, <1>3a, <1>6, <1>7, <1>8, <1>9 DEF IInv
\* What is sent keeps the journal a sequence of entries.
LEMMA SendType ==
    ASSUME Typed, NEW t \in Threads
    PROVE  \A level, line : /\ Send(t, level, line)
                            /\ level \in {c.level : c \in Made} \cup {LOG_DEBUG}
                            /\ line \in Seq(Int)
                            => journal' \in Seq(Entry)
<1> SUFFICES ASSUME NEW level \in {c.level : c \in Made} \cup {LOG_DEBUG},
                    NEW line \in Seq(Int), Send(t, level, line)
             PROVE  journal' \in Seq(Entry)
  OBVIOUS
<1> DEFINE e == [level |-> level, line |-> line, call |-> thread[t].call,
                 alone |-> thread[t].alone]
<1>1. thread[t].call \in Made /\ thread[t].alone \in BOOLEAN
  BY DEF Typed, Frame
<1>2. e \in Entry
  BY <1>1 DEF Entry
<1>3. journal' = Append(journal, e)
  BY DEF Send
<1> HIDE DEF e
<1> QED
  BY <1>2, <1>3 DEF Typed

\* A thread that leaves Log takes nothing of the others with it.
LEMMA LeaveStep ==
    ASSUME IInv, NEW t \in Threads, UNCHANGED buffer, thread' = [thread EXCEPT ![t] = Idle]
    PROVE  /\ thread' \in [Threads -> Frame]
           /\ Counted' /\ AloneIsTrue' /\ BufferTrue' /\ OthersTrue'
<1>1. thread' \in [Threads -> Frame]
  BY IdleType DEF IInv, Typed
<1>2. thread'[t].at = "idle" /\ \A u \in Threads \ {t} : thread'[u] = thread[u]
  BY IdleType DEF IInv, Typed
<1> QED
  BY <1>1, <1>2, OutsideStep DEF IInv

\* The end of the text is the end of the line, or a byte more of it.
LEMMA SyslogStep == ASSUME IInv, NEW t \in Threads, Syslog(t) PROVE IInv'
<1> DEFINE text == thread[t].call.text
           i == thread[t].i
           line == thread[t].line
<1>1. /\ thread[t].at = "syslog" /\ UNCHANGED <<buffer, buffer_, priority_>>
      /\ thread[t].call.how \in {"format", "null"}
  BY DEF Syslog, stream, IInv, BufferTrue, InBuffer
<1>2. /\ thread[t] \in Frame /\ line \in Seq(Int) /\ i \in Nat
      /\ thread[t].call \in Made
  BY DEF IInv, Typed, Frame
<1>3. text \in Seq(1..255) /\ text \in Seq(Int) /\ Len(text) < BUFLEN
  BY <1>2, TextFits
<1>4. Len(text) \in Nat /\ BUFLEN \in Nat /\ i # 0
  BY <1>1, <1>3, LogAssumption DEF IInv, Counted
<1>5. ASSUME thread[t].alone, thread[t].call.how = "format"
      PROVE  /\ i \in 1..(Len(text) + 1)
             /\ \A j \in 1..Len(text) : buffer[j] = text[j]
             /\ buffer[Len(text) + 1] = NUL
             /\ Len(line) = i - 1
             /\ \A j \in 1..(i - 1) : line[j] = text[j]
  BY <1>1, <1>5 DEF IInv, BufferTrue, Copied
<1>6. ASSUME NEW j \in 1..Len(text) PROVE text[j] # NUL
  <2>1. text[j] \in 1..255
    BY <1>3, ElementOfSeq
  <2>2. \A x \in 1..255 : x # NUL
    BY DEF NUL
  <2> QED
    BY <2>1, <2>2, Zenon
<1>7. CASE i > BUFLEN \/ buffer[i] = NUL
  <2>1. Send(t, thread[t].call.level, line) /\ thread' = [thread EXCEPT ![t] = Idle]
    BY <1>7 DEF Syslog
  <2>2. ASSUME thread[t].alone, thread[t].call.how = "format"
        PROVE  line = text
    <3> HIDE DEF i, text, line
    <3>1. i <= BUFLEN
      BY <1>2, <1>3, <1>4, <1>5, <2>2
    <3>2. i = Len(text) + 1
      <4>1. buffer[i] = NUL
        BY <1>2, <1>4, <1>7, <3>1
      <4>2. i \in 1..Len(text) => FALSE
        BY <1>5, <1>6, <2>2, <4>1
      <4> QED
        BY <1>2, <1>4, <1>5, <2>2, <4>2
    <3>3. Len(line) = Len(text) /\ \A j \in 1..Len(text) : line[j] = text[j]
      BY <1>4, <1>5, <2>2, <3>2
    <3> QED
      BY <1>2, <1>3, <3>3, SeqEqual
  <2>3. LinesWhole'
    BY <1>1, <2>1, <2>2, SendWhole DEF IInv
  <2>4. Typed'
    <3>1. journal' \in Seq(Entry)
      BY <1>2, <2>1, SendType DEF IInv
    <3> QED
      BY <1>1, <2>1, <3>1, LeaveStep DEF IInv, Typed
  <2> QED
    BY <1>1, <2>1, <2>3, <2>4, LeaveStep DEF IInv
<1>8. CASE ~(i > BUFLEN \/ buffer[i] = NUL)
  <2> DEFINE k == i + 1
             longer == Append(line, buffer[i])
  <2>1. Go(t, "syslog", k, longer) /\ UNCHANGED journal
    BY <1>8 DEF Syslog
  <2>2. buffer[i] \in Int
    <3>1. i \in 1..BUFLEN
      <4> HIDE DEF i
      <4> QED
        BY <1>2, <1>4, <1>8
    <3> QED
      BY <3>1 DEF IInv, Typed
  <2>3. "syslog" \in At /\ k \in Nat /\ longer \in Seq(Int)
    <3>1. "syslog" \in At
      BY DEF At
    <3>2. k \in Nat
      BY <1>2
    <3>3. longer \in Seq(Int)
      BY <1>2, <2>2
    <3> QED
      BY <3>1, <3>2, <3>3
  <2>4. /\ thread' \in [Threads -> Frame]
        /\ \A u \in Threads \ {t} : thread'[u] = thread[u]
        /\ thread'[t].at = "syslog" /\ thread'[t].i = k /\ thread'[t].line = longer
        /\ thread'[t].call = thread[t].call /\ thread'[t].alone = thread[t].alone
    <3> HIDE DEF k, longer
    <3> QED
      BY <2>1, <2>3, GoEffect, Zenon
  <2>5. Typed'
    BY <1>1, <2>1, <2>4 DEF IInv, Typed
  <2>6. Counted'
    <3>1. k # 0
      BY <1>2
    <3> HIDE DEF k
    <3> QED
      BY <2>4, <3>1 DEF IInv, Counted
  <2>7. ASSUME NEW u \in Threads PROVE InBuffer(u)' <=> InBuffer(u)
    BY <1>1, <2>4 DEF InBuffer
  <2>8. AloneIsTrue'
    <3> SUFFICES ASSUME NEW u \in Threads, NEW v \in Threads,
                        InBuffer(u)', thread'[u].alone, InBuffer(v)'
                 PROVE  v = u
      BY DEF AloneIsTrue
    <3>1. InBuffer(u) /\ InBuffer(v) /\ thread[u].alone
      BY <2>4, <2>7
    <3> QED
      BY <3>1 DEF IInv, AloneIsTrue
  <2>9. BufferTrue'
    <3>1. ASSUME NEW u \in Threads \ {t}
          PROVE  /\ InBuffer(u)' => thread'[u].call.how \in {"format", "null"}
                 /\ thread'[u].at = "vsprintf" /\ thread'[u].call.how = "format" =>
                       thread'[u].i \in 1..(Len(thread'[u].call.text) + 1)
      <4>1. thread'[u] = thread[u]
        BY <2>4
      <4> QED
        BY <4>1 DEF IInv, BufferTrue, InBuffer
    <3>2. ASSUME NEW u \in Threads \ {t}, thread'[u].alone, thread'[u].call.how = "format"
          PROVE  /\ thread'[u].at = "vsprintf" => Formatted(u)'
                 /\ thread'[u].at = "syslog" => Copied(u)'
      <4>1. thread'[u] = thread[u] /\ buffer' = buffer
        BY <1>1, <2>4
      <4>2. /\ thread[u].at = "vsprintf" => Formatted(u)
            /\ thread[u].at = "syslog" => Copied(u)
        BY <3>2, <4>1 DEF IInv, BufferTrue
      <4> QED
        BY <4>1, <4>2 DEF Formatted, Copied
    <3>3. ASSUME thread'[t].alone, thread'[t].call.how = "format"
          PROVE  Copied(t)'
      <4>1. thread[t].alone /\ thread[t].call.how = "format"
        BY <2>4, <3>3
      <4>2. i \in 1..Len(text) /\ buffer[i] = text[i]
        <5> HIDE DEF i, text
        <5>1. i # Len(text) + 1
          BY <1>5, <1>8, <4>1
        <5>2. i \in 1..Len(text)
          BY <1>2, <1>4, <1>5, <4>1, <5>1
        <5> QED
          BY <1>5, <4>1, <5>2
      <4>3. Len(longer) = k - 1 /\ k \in 1..(Len(text) + 1)
        <5> HIDE DEF i, text, line
        <5>1. Len(longer) = Len(line) + 1
          BY <1>2, <2>2
        <5> HIDE DEF longer
        <5> QED
          BY <1>2, <1>4, <1>5, <4>1, <4>2, <5>1
      <4>4. ASSUME NEW j \in 1..(k - 1) PROVE longer[j] = text[j]
        <5> HIDE DEF i, text, line
        <5>1. CASE j = i
          <6>1. longer[i] = buffer[i]
            BY <1>2, <1>5, <2>2, <4>1
          <6> QED
            BY <4>2, <5>1, <6>1
        <5>2. CASE j # i
          <6>1. j \in 1..(i - 1)
            BY <1>2, <5>2
          <6>2. longer[j] = line[j]
            BY <1>2, <1>5, <2>2, <4>1, <6>1
          <6> QED
            BY <1>5, <4>1, <6>1, <6>2
        <5> QED
          BY <5>1, <5>2
      <4>5. thread'[t].call.text = text /\ buffer' = buffer
        BY <1>1, <2>4
      <4> HIDE DEF i, text, line, k, longer
      <4> QED
        BY <1>5, <2>4, <4>1, <4>3, <4>4, <4>5 DEF Copied
    <3>4. /\ thread'[t].call.how \in {"format", "null"} /\ thread'[t].at = "syslog"
      BY <1>1, <2>4
    <3> QED
      BY <3>1, <3>2, <3>3, <3>4 DEF BufferTrue
  <2>10. OthersTrue'
    BY <2>4 DEF IInv, OthersTrue
  <2>11. LinesWhole'
    BY <2>1 DEF IInv, LinesWhole
  <2> QED
    BY <2>5, <2>6, <2>8, <2>9, <2>10, <2>11 DEF IInv
<1> QED
  BY <1>7, <1>8

\* A std::string goes to syslog as it is.
LEMMA SyslogStringStep == ASSUME IInv, NEW t \in Threads, SyslogString(t) PROVE IInv'
<1> DEFINE line == thread[t].call.text
           level == thread[t].call.level
<1>1. /\ thread[t].at = "send" /\ thread[t].call \in Made
      /\ UNCHANGED <<buffer, buffer_, priority_>>
      /\ Send(t, level, line) /\ thread' = [thread EXCEPT ![t] = Idle]
  BY DEF SyslogString, stream, IInv, Typed, Frame
<1>2. LinesWhole'
  BY <1>1, SendWhole DEF IInv
<1>3. Typed'
  <2>1. line \in Seq(Int) /\ level \in {c.level : c \in Made} \cup {LOG_DEBUG}
    BY <1>1, TextFits
  <2>2. journal' \in Seq(Entry)
    BY <1>1, <2>1, SendType DEF IInv
  <2> QED
    BY <1>1, <2>2, LeaveStep DEF IInv, Typed
<1> QED
  BY <1>1, <1>2, <1>3, LeaveStep DEF IInv

\* A step of std::clog that sends nothing: the thread goes on at another place of its
\* call, or leaves.
LEMMA StreamStep ==
    ASSUME IInv, NEW t \in Threads, buffer_' \in Seq(Int),
           UNCHANGED <<buffer, priority_, journal>>,
           thread[t].at \in {"put", "sync", "erase"},
           \/ thread' = [thread EXCEPT ![t] = Idle]
           \/ \E at \in {"put", "sync", "erase"}, k \in Nat :
                 Go(t, at, k, <<>>) /\ (at = "put" => k # 0)
    PROVE  IInv'
<1>1. CASE thread' = [thread EXCEPT ![t] = Idle]
  <2>1. Typed'
    BY <1>1, LeaveStep DEF IInv, Typed
  <2>2. LinesWhole'
    BY DEF IInv, LinesWhole
  <2> QED
    BY <1>1, <2>1, <2>2, LeaveStep DEF IInv
<1>2. ASSUME NEW at \in {"put", "sync", "erase"}, NEW k \in Nat, Go(t, at, k, <<>>),
             at = "put" => k # 0
      PROVE  IInv'
  <2> DEFINE none == <<>>
  <2>1. at \in At /\ none \in Seq(Int) /\ Go(t, at, k, none)
    BY <1>2 DEF At
  <2> HIDE DEF none
  <2>2. /\ thread' \in [Threads -> Frame]
        /\ \A u \in Threads \ {t} : thread'[u] = thread[u]
        /\ thread'[t].at = at /\ thread'[t].i = k /\ thread'[t].line = none
        /\ thread'[t].call = thread[t].call /\ thread'[t].alone = thread[t].alone
    BY <2>1, GoEffect, Zenon
  <2>3. Typed'
    BY <2>2 DEF IInv, Typed
  <2>4. Counted' /\ AloneIsTrue' /\ BufferTrue' /\ OthersTrue'
    BY <1>2, <2>2, OutsideStep DEF IInv
  <2>5. LinesWhole'
    BY DEF IInv, LinesWhole
  <2> QED
    BY <2>3, <2>4, <2>5 DEF IInv
<1> QED
  BY <1>1, <1>2

\* A byte for std::clog.
LEMMA OverflowStep == ASSUME IInv, NEW t \in Threads, Overflow(t) PROVE IInv'
<1> DEFINE text == thread[t].call.text
           i == thread[t].i
<1>1. /\ thread[t].at = "put" /\ i <= Len(text) /\ buffer_' = Append(buffer_, text[i])
      /\ Go(t, "put", i + 1, <<>>) /\ UNCHANGED <<buffer, priority_, journal>>
  BY DEF Overflow
<1>2. thread[t].call \in Made /\ i \in Nat
  BY DEF IInv, Typed, Frame
<1>3. text \in Seq(Int)
  BY <1>2, TextFits
<1> DEFINE k == i + 1
<1>4. k \in Nat /\ k # 0 /\ Go(t, "put", k, <<>>)
  BY <1>1, <1>2
<1>5. buffer_' \in Seq(Int)
  <2>1. i \in 1..Len(text)
    <3>1. i # 0 /\ Len(text) \in Nat
      BY <1>1, <1>3 DEF IInv, Counted
    <3>2. i \in Nat /\ i <= Len(text)
      BY <1>1, <1>2
    <3> HIDE DEF i, text
    <3> QED
      BY <3>1, <3>2
  <2>2. text[i] \in Int
    BY <1>3, <2>1, ElementOfSeq
  <2> QED
    BY <1>1, <2>2 DEF IInv, Typed
<1> HIDE DEF k
<1>6. \E at \in {"put", "sync", "erase"}, n \in Nat :
         Go(t, at, n, <<>>) /\ (at = "put" => n # 0)
  BY <1>4
<1> QED
  BY <1>1, <1>5, <1>6, StreamStep

\* The end of a line, or of a part of one.
LEMMA EndlStep == ASSUME IInv, NEW t \in Threads, Endl(t) PROVE IInv'
<1>1. /\ thread[t].at = "put" /\ UNCHANGED <<buffer, priority_, journal>>
      /\ \/ buffer_' = Append(buffer_, NewLine) /\ Go(t, "sync", 0, <<>>)
         \/ buffer_' = buffer_ /\ thread' = [thread EXCEPT ![t] = Idle]
  BY DEF Endl, stream
<1>2. buffer_' \in Seq(Int)
  <2>1. buffer_ \in Seq(Int) /\ NewLine \in Int
    BY DEF IInv, Typed, NewLine
  <2>2. Append(buffer_, NewLine) \in Seq(Int)
    BY <2>1
  <2> QED
    BY <1>1, <2>1, <2>2
<1>3. \/ thread' = [thread EXCEPT ![t] = Idle]
      \/ \E at \in {"put", "sync", "erase"}, k \in Nat :
            Go(t, at, k, <<>>) /\ (at = "put" => k # 0)
  <2>1. "sync" \in {"put", "sync", "erase"} /\ 0 \in Nat /\ "sync" # "put"
    OBVIOUS
  <2> QED
    BY <1>1, <2>1
<1> QED
  BY <1>1, <1>2, <1>3, StreamStep

\* A line of std::clog is none of those that must be whole.
LEMMA SyncStep == ASSUME IInv, NEW t \in Threads, Sync(t) PROVE IInv'
<1>1. /\ thread[t].at = "sync" /\ UNCHANGED <<buffer, buffer_, priority_>>
      /\ thread[t].call.how \notin {"string", "format", "null"}
  BY DEF Sync, IInv, OthersTrue
<1>2. CASE buffer_ = <<>>
  <2>1. thread' = [thread EXCEPT ![t] = Idle] /\ UNCHANGED journal
    BY <1>2 DEF Sync
  <2>2. buffer_' \in Seq(Int)
    BY <1>1 DEF IInv, Typed
  <2> QED
    BY <1>1, <2>1, <2>2, StreamStep
<1>3. CASE buffer_ # <<>>
  <2> DEFINE none == <<>>  k == 0
  <2>1. Send(t, priority_, buffer_) /\ Go(t, "erase", k, none)
    BY <1>3 DEF Sync
  <2>2. LinesWhole'
    BY <1>1, <2>1, SendWhole DEF IInv
  <2>3. journal' \in Seq(Entry)
    <3>1. priority_ \in {c.level : c \in Made} \cup {LOG_DEBUG} /\ buffer_ \in Seq(Int)
      BY DEF IInv, Typed
    <3> QED
      BY <2>1, <3>1, SendType DEF IInv
  <2>4. "erase" \in At /\ k \in Nat /\ none \in Seq(Int)
    BY DEF At
  <2>5. /\ thread' \in [Threads -> Frame]
        /\ \A u \in Threads \ {t} : thread'[u] = thread[u]
        /\ thread'[t].at = "erase" /\ thread'[t].i = k /\ thread'[t].line = none
        /\ thread'[t].call = thread[t].call /\ thread'[t].alone = thread[t].alone
    <3> HIDE DEF k, none
    <3> QED
      BY <2>1, <2>4, GoEffect, Zenon
  <2>6. Typed'
    BY <1>1, <2>3, <2>5 DEF IInv, Typed
  <2>7. Counted' /\ AloneIsTrue' /\ BufferTrue' /\ OthersTrue'
    BY <1>1, <2>5, OutsideStep DEF IInv
  <2> QED
    BY <2>2, <2>6, <2>7 DEF IInv
<1> QED
  BY <1>2, <1>3

\* The line that was sent goes.
LEMMA EraseStep == ASSUME IInv, NEW t \in Threads, Erase(t) PROVE IInv'
<1>1. /\ thread[t].at = "erase" /\ UNCHANGED <<buffer, priority_, journal>>
      /\ buffer_' = <<>> /\ thread' = [thread EXCEPT ![t] = Idle]
  BY DEF Erase
<1>2. buffer_' \in Seq(Int)
  BY <1>1
<1> QED
  BY <1>1, <1>2, StreamStep

-----------------------------------------------------------------------------
(* The invariant and the theorem.                                          *)

\* Nobody is in Log at first.
LEMMA InitInv == Init => IInv
<1> SUFFICES ASSUME Init PROVE IInv
  OBVIOUS
<1>1. \A t \in Threads : thread[t] = Idle
  BY DEF Init
<1>2. Typed
  <2>1. thread \in [Threads -> Frame]
    BY IdleType DEF Init
  <2>2. buffer \in [1..BUFLEN -> Int]
    BY DEF Init, Raw
  <2> QED
    BY <2>1, <2>2 DEF Init, Typed
<1>3. Counted /\ AloneIsTrue /\ BufferTrue /\ OthersTrue
  BY <1>1, IdleType DEF Counted, AloneIsTrue, BufferTrue, OthersTrue, InBuffer
<1>4. LinesWhole
  BY DEF Init, LinesWhole
<1> QED
  BY <1>2, <1>3, <1>4 DEF IInv

\* Every step of Log keeps the invariant.
LEMMA StepInv == IInv /\ [Next]_vars => IInv'
<1> SUFFICES ASSUME IInv, [Next]_vars PROVE IInv'
  OBVIOUS
<1>1. CASE UNCHANGED vars
  BY <1>1 DEF vars, IInv, Typed, Counted, AloneIsTrue, BufferTrue, OthersTrue, LinesWhole,
              InBuffer, Formatted, Copied
<1>2. ASSUME NEW t \in Threads, Step(t) PROVE IInv'
  BY <1>2, CallStep, VsprintfStep, VsprintfNullStep, SyslogStep, SyslogStringStep,
     OverflowStep, EndlStep, SyncStep, EraseStep DEF Step
<1> QED
  BY <1>1, <1>2 DEF Next

\* For any number of threads and any calls: a line given as a std::string is whole, and
\* so is a line formatted while no other thread is between its vsprintf and the end of
\* its syslog (Log.cpp:32-49).
THEOREM LinesAreWhole == Spec => []LinesWhole
<1>1. IInv => LinesWhole
  BY DEF IInv
<1> QED
  BY <1>1, InitInv, StepInv, PTL DEF Spec

-----------------------------------------------------------------------------
(* All lines together.                                                     *)

\* Any set of natural numbers has a least one.
LEMMA LeastNat == ASSUME NEW T, T \subseteq Nat, T # {}
                  PROVE  \E n \in T : \A m \in T : n <= m
<1> DEFINE R == {p \in Nat \X Nat : p[1] < p[2]}
<1>1. IsWellFoundedOn(R, Nat)
  BY NatLessThanWellFounded DEF OpToRel
<1>2. PICK n \in T : \A m \in T : <<m, n>> \notin R
  <2> HIDE DEF R
  <2> QED
    BY <1>1, WFMin
<1>3. \A m \in T : ~(m < n)
  BY <1>2
<1> QED
  BY <1>3

\* FlattenSeq(s) is f[Len(s)] for the function f that its recursion defines.
Flattens(f, s) == f = [i \in 1..Len(s) |-> IF i = 1 THEN s[i] ELSE f[i - 1] \o s[i]]

\* There is such a function, and only one.
Flattened(s) == \E f \in [1..Len(s) -> Seq(Int)] :
                    Flattens(f, s) /\ \A g : Flattens(g, s) => g = f

\* What FlattenSeq is of.
LEMMA FlattenDef ==
    ASSUME NEW s, Len(s) # 0 PROVE FlattenSeq(s) = (CHOOSE f : Flattens(f, s))[Len(s)]
  BY DEF FlattenSeq, Flattens

\* The function of one line more is that of the others, and one step further.
LEMMA FlattensMore ==
    ASSUME NEW s \in Seq(Seq(Int)), NEW x \in Seq(Int), NEW f \in [1..Len(s) -> Seq(Int)],
           Flattens(f, s), \A g : Flattens(g, s) => g = f
    PROVE  LET last == IF Len(s) = 0 THEN x ELSE f[Len(s)] \o x
               h    == [i \in 1..(Len(s) + 1) |-> IF i <= Len(s) THEN f[i] ELSE last]
           IN  /\ last \in Seq(Int) /\ h \in [1..(Len(s) + 1) -> Seq(Int)]
               /\ Flattens(h, Append(s, x))
               /\ \A g : Flattens(g, Append(s, x)) => g = h
<1> DEFINE n == Len(s)  s2 == Append(s, x)
           last == IF Len(s) = 0 THEN x ELSE f[Len(s)] \o x
           h == [i \in 1..(Len(s) + 1) |-> IF i <= Len(s) THEN f[i] ELSE last]
<1>1. /\ n \in Nat /\ Len(s2) = n + 1 /\ s2[n + 1] = x
      /\ \A i \in 1..n : s2[i] = s[i]
  OBVIOUS
<1>2. last \in Seq(Int)
  <2>1. CASE n = 0
    BY <2>1
  <2>2. CASE n # 0
    <3>0. n \in 1..n
      <4> HIDE DEF n
      <4> QED
        BY <1>1, <2>2
    <3>1. f[n] \in Seq(Int)
      BY <3>0
    <3> QED
      BY <2>2, <3>1
  <2> QED
    BY <2>1, <2>2
<1>3. h \in [1..(n + 1) -> Seq(Int)]
  <2> HIDE DEF last
  <2> QED
    BY <1>1, <1>2
<1>4. \A i \in 1..n : f[i] = IF i = 1 THEN s[i] ELSE f[i - 1] \o s[i]
  BY DEF Flattens
<1>5. Flattens(h, s2)
  <2>1. ASSUME NEW i \in 1..(n + 1)
        PROVE  h[i] = IF i = 1 THEN s2[i] ELSE h[i - 1] \o s2[i]
    <3>1. CASE i \in 1..n
      <4> HIDE DEF last, n, s2
      <4>1. h[i] = f[i] /\ s2[i] = s[i] /\ (i # 1 => h[i - 1] = f[i - 1])
        BY <1>1, <3>1 DEF n
      <4> HIDE DEF h
      <4> QED
        BY <1>4, <3>1, <4>1
    <3>2. CASE i = n + 1
      <4> HIDE DEF last, s2
      <4>1. h[i] = last /\ s2[i] = x /\ (n # 0 => h[i - 1] = f[n])
        BY <1>1, <3>2
      <4>2. i = 1 <=> n = 0
        BY <1>1, <3>2
      <4> HIDE DEF h
      <4> QED
        BY <4>1, <4>2 DEF last
    <3> HIDE DEF n
    <3> QED
      BY <1>1, <3>1, <3>2
  <2>2. h = [i \in 1..(n + 1) |-> h[i]]
    OBVIOUS
  <2> HIDE DEF h, s2, n
  <2> QED
    BY <1>1, <2>1, <2>2 DEF Flattens
<1>6. ASSUME NEW g, Flattens(g, s2) PROVE g = h
  <2> DEFINE e == [i \in 1..n |-> g[i]]
  <2>1. g = [i \in 1..(n + 1) |-> IF i = 1 THEN s2[i] ELSE g[i - 1] \o s2[i]]
    BY <1>1, <1>6 DEF Flattens
  <2>2. \A i \in 1..(n + 1) : g[i] = IF i = 1 THEN s2[i] ELSE g[i - 1] \o s2[i]
    BY <2>1
  <2>3. e = [i \in 1..n |-> IF i = 1 THEN s[i] ELSE e[i - 1] \o s[i]]
    <3>1. ASSUME NEW i \in 1..n
          PROVE  g[i] = IF i = 1 THEN s[i] ELSE e[i - 1] \o s[i]
      <4> HIDE DEF s2, n
      <4>1. i \in 1..(n + 1) /\ s2[i] = s[i] /\ (i # 1 => e[i - 1] = g[i - 1])
        BY <1>1
      <4> HIDE DEF e
      <4> QED
        BY <2>2, <4>1
    <3> QED
      BY <3>1
  <2>4. e = f
    BY <2>3 DEF Flattens
  <2>5. \A i \in 1..n : g[i] = f[i]
    BY <2>4
  <2>6. g[n + 1] = last
    <3>1. n + 1 \in 1..(n + 1)
      BY <1>1
    <3>2. g[n + 1] = IF n + 1 = 1 THEN x ELSE g[n] \o x
      <4>1. (n + 1) - 1 = n
        BY <1>1
      <4> HIDE DEF n, s2
      <4> QED
        BY <1>1, <2>2, <3>1, <4>1
    <3>3. n # 0 => g[n] = f[n]
      BY <1>1, <2>5
    <3> HIDE DEF n
    <3> QED
      BY <1>1, <3>2, <3>3 DEF n
  <2>7. \A i \in 1..(n + 1) : g[i] = h[i]
    <3> HIDE DEF last, n
    <3> QED
      BY <1>1, <2>5, <2>6 DEF n
  <2>8. g = [i \in 1..(n + 1) |-> g[i]]
    BY <2>1
  <2> HIDE DEF n, last
  <2> QED
    BY <2>7, <2>8 DEF n
<1> HIDE DEF last, h, s2
<1> QED
  BY <1>2, <1>3, <1>5, <1>6 DEF last, h, s2

\* So it is there for any lines: the shortest sequence that has none would be one line
\* longer than one that has.
LEMMA FlattenedAll == \A s \in Seq(Seq(Int)) : Flattened(s)
<1> DEFINE T == {n \in Nat : \E s \in Seq(Seq(Int)) : Len(s) = n /\ ~Flattened(s)}
<1> SUFFICES ASSUME T # {} PROVE FALSE
  OBVIOUS
<1>1. PICK n \in T : \A m \in T : n <= m
  BY LeastNat
<1>2. PICK s \in Seq(Seq(Int)) : Len(s) = n /\ ~Flattened(s)
  OBVIOUS
<1>3. n \in Nat
  OBVIOUS
<1>4. CASE n = 0
  <2> DEFINE f == [i \in 1..0 |-> <<>>]
  <2>1. f \in [1..Len(s) -> Seq(Int)] /\ Flattens(f, s)
    BY <1>2, <1>4 DEF Flattens
  <2>2. \A g : Flattens(g, s) => g = f
    BY <1>2, <1>4 DEF Flattens
  <2> QED
    BY <1>2, <2>1, <2>2 DEF Flattened
<1>5. CASE n # 0
  <2>1. PICK r \in Seq(Seq(Int)), x \in Seq(Int) : s = Append(r, x) /\ Len(r) = n - 1
    <3> DEFINE r == [i \in 1..(n - 1) |-> s[i]]  x == s[n]
    <3>1. n - 1 \in Nat /\ s = [i \in 1..n |-> s[i]] /\ \A i \in 1..n : s[i] \in Seq(Int)
      BY <1>2, <1>3, <1>5
    <3>2. x \in Seq(Int) /\ r \in [1..(n - 1) -> Seq(Int)]
      BY <1>3, <1>5, <3>1
    <3>3. r \in Seq(Seq(Int)) /\ Len(r) = n - 1
      <4> DEFINE k == n - 1
      <4>1. k \in Nat /\ r \in [1..k -> Seq(Int)]
        BY <3>1, <3>2
      <4> HIDE DEF k, r
      <4>2. r \in Seq(Seq(Int))
        BY <4>1, SeqDef
      <4>3. Len(r) = k
        BY <4>1, <4>2
      <4> QED
        BY <4>2, <4>3 DEF k
    <3>4. s = Append(r, x)
      BY <1>2, <1>3, <1>5, <3>1, <3>3 DEF r
    <3> QED
      BY <3>2, <3>3, <3>4
  <2>2. Flattened(r)
    <3>1. n - 1 \notin T
      BY <1>1, <1>3
    <3> QED
      BY <1>3, <1>5, <2>1, <3>1
  <2>3. PICK f \in [1..Len(r) -> Seq(Int)] : Flattens(f, r) /\ \A g : Flattens(g, r) => g = f
    BY <2>2 DEF Flattened
  <2>4. Len(s) = Len(r) + 1
    BY <1>2, <1>3, <2>1
  <2>5. \E h \in [1..Len(s) -> Seq(Int)] : Flattens(h, s) /\ \A g : Flattens(g, s) => g = h
    BY <2>1, <2>3, <2>4, FlattensMore
  <2> QED
    BY <1>2, <2>5 DEF Flattened
<1> QED
  BY <1>4, <1>5

\* One line more is put at the end.
LEMMA FlattenAppend ==
    ASSUME NEW s \in Seq(Seq(Int)), NEW x \in Seq(Int)
    PROVE  /\ FlattenSeq(s) \in Seq(Int)
           /\ FlattenSeq(Append(s, x)) = FlattenSeq(s) \o x
<1> DEFINE n == Len(s)  s2 == Append(s, x)
           last(f) == IF Len(s) = 0 THEN x ELSE f[Len(s)] \o x
           h(f) == [i \in 1..(Len(s) + 1) |-> IF i <= Len(s) THEN f[i] ELSE last(f)]
<1>1. n \in Nat /\ Len(s2) = n + 1
  OBVIOUS
<1>2. PICK f \in [1..Len(s) -> Seq(Int)] : Flattens(f, s) /\ \A g : Flattens(g, s) => g = f
  BY FlattenedAll DEF Flattened
<1>3. n # 0 => FlattenSeq(s) = f[n] /\ f[n] \in Seq(Int)
  <2>1. (CHOOSE g : Flattens(g, s)) = f
    BY <1>2
  <2>2. n # 0 => n \in 1..n
    <3> HIDE DEF n
    <3> QED
      BY <1>1
  <2> QED
    BY <1>1, <1>2, <2>1, <2>2, FlattenDef
<1>4. n = 0 => FlattenSeq(s) = <<>>
  BY DEF FlattenSeq
<1>5. Flattens(h(f), s2) /\ \A g : Flattens(g, s2) => g = h(f)
  BY <1>2, FlattensMore
<1>6. FlattenSeq(s2) = h(f)[n + 1]
  <2>1. (CHOOSE g : Flattens(g, s2)) = h(f)
    <3> HIDE DEF h
    <3> QED
      BY <1>5
  <2>2. Len(s2) # 0
    BY <1>1
  <2> HIDE DEF s2, h
  <2> QED
    BY <1>1, <2>1, <2>2, FlattenDef
<1>7. h(f)[n + 1] = last(f)
  <2> HIDE DEF last
  <2> QED
    BY <1>1
<1> HIDE DEF h, s2
<1>8. FlattenSeq(s2) = IF n = 0 THEN x ELSE f[n] \o x
  BY <1>6, <1>7 DEF last
<1>9. FlattenSeq(s2) = FlattenSeq(s) \o x
  <2>1. <<>> \o x = x
    OBVIOUS
  <2> HIDE DEF n
  <2> QED
    BY <1>3, <1>4, <1>8, <2>1
<1>10. FlattenSeq(s) \in Seq(Int)
  BY <1>3, <1>4
<1> QED
  BY <1>9, <1>10 DEF s2

\* The lines of std::clog in the journal.
Lines == [i \in DOMAIN journal |-> IF journal[i].call.how = "line" THEN journal[i].line ELSE <<>>]
Sent == FlattenSeq(Lines)

\* Only std::endl leads to sync, and a second sync does not begin before the erase of
\* the first, or it is a race.
SyncTrue ==
    /\ \A t \in Threads : thread[t].at \in {"sync", "erase"} => thread[t].call.how = "line"
    /\ ~raced => \A t, u \in Threads : thread[t].at = "erase" /\ thread[u].at = "erase" => t = u

SInv == put \in Seq(Int) /\ SyncTrue /\ StreamConserved

\* What is sent, and what StreamConserved says about it.
LEMMA SentType == Typed => Lines \in Seq(Seq(Int)) /\ Sent \in Seq(Int)
<1> SUFFICES ASSUME Typed PROVE Lines \in Seq(Seq(Int)) /\ Sent \in Seq(Int)
  OBVIOUS
<1> DEFINE n == Len(journal)
<1>1. n \in Nat /\ DOMAIN journal = 1..n
  BY DEF Typed
<1>2. ASSUME NEW i \in 1..n PROVE Lines[i] \in Seq(Int)
  <2>1. journal[i] \in Entry
    BY ElementOfSeq DEF Typed
  <2>2. journal[i].line \in Seq(Int) /\ <<>> \in Seq(Int)
    BY <2>1 DEF Entry
  <2> QED
    BY <1>1, <2>2 DEF Lines
<1> HIDE DEF n
<1>3. Lines \in [1..n -> Seq(Int)]
  BY <1>1, <1>2 DEF Lines
<1>4. Lines \in Seq(Seq(Int))
  BY <1>1, <1>3, SeqDef
<1> QED
  BY <1>4, FlattenAppend DEF Sent

LEMMA ConservedIs ==
    StreamConserved <=>
        (~raced => IF \E t \in Threads : thread[t].at = "erase" THEN Sent \o <<>> = put
                   ELSE Sent \o buffer_ = put)
BY DEF StreamConserved, Sent, Lines

\* A line of syslog is one more of those sent if it is one of std::clog.
LEMMA SendSent ==
    ASSUME Typed, NEW t \in Threads, NEW level, NEW line \in Seq(Int), Send(t, level, line)
    PROVE  Sent' = IF thread[t].call.how = "line" THEN Sent \o line ELSE Sent
<1> DEFINE e == [level |-> level, line |-> line, call |-> thread[t].call,
                 alone |-> thread[t].alone]
           x == IF thread[t].call.how = "line" THEN line ELSE <<>>
           n == Len(journal)
<1>1. journal' = Append(journal, e)
  BY DEF Send
<1>2. e.call = thread[t].call /\ e.line = line
  OBVIOUS
<1>3. n \in Nat /\ DOMAIN journal = 1..n
  BY DEF Typed
<1> HIDE DEF e
<1>4. /\ DOMAIN journal' = 1..(n + 1) /\ journal'[n + 1] = e
      /\ \A i \in 1..n : journal'[i] = journal[i]
  BY <1>1, <1>3 DEF Typed
<1>5. Lines \in Seq(Seq(Int)) /\ DOMAIN Lines = 1..n /\ Len(Lines) = n
  <2>1. Lines \in Seq(Seq(Int)) /\ DOMAIN Lines = 1..n
    BY <1>3, SentType DEF Lines
  <2> HIDE DEF n
  <2> QED
    BY <1>3, <2>1
<1>6. x \in Seq(Int)
  OBVIOUS
<1>7. Lines' = Append(Lines, x)
  <2> HIDE DEF n, x
  <2>1. Lines' = [i \in 1..(n + 1) |-> IF i = n + 1 THEN x ELSE Lines[i]]
    <3>1. ASSUME NEW i \in 1..n
          PROVE  (IF journal'[i].call.how = "line" THEN journal'[i].line ELSE <<>>) = Lines[i]
      BY <1>3, <1>4 DEF Lines
    <3>2. (IF journal'[n + 1].call.how = "line" THEN journal'[n + 1].line ELSE <<>>) = x
      BY <1>2, <1>4 DEF x
    <3>3. \A i \in 1..(n + 1) : i # n + 1 => i \in 1..n
      BY <1>3
    <3>4. Lines' = [i \in DOMAIN journal' |->
                        IF journal'[i].call.how = "line" THEN journal'[i].line ELSE <<>>]
      BY DEF Lines
    <3> QED
      BY <1>4, <3>1, <3>2, <3>3, <3>4
  <2>2. Append(Lines, x) = [i \in 1..(n + 1) |-> IF i = n + 1 THEN x ELSE Lines[i]]
    <3> DEFINE a == Append(Lines, x)
    <3>1. /\ a \in Seq(Seq(Int)) /\ Len(a) = n + 1 /\ a[n + 1] = x
          /\ \A i \in 1..n : a[i] = Lines[i]
      BY <1>5, <1>6
    <3> HIDE DEF a
    <3>2. a = [i \in 1..(n + 1) |-> a[i]]
      BY <3>1, LenProperties
    <3>3. \A i \in 1..(n + 1) : i # n + 1 => i \in 1..n
      BY <1>3
    <3>4. a = [i \in 1..(n + 1) |-> IF i = n + 1 THEN x ELSE Lines[i]]
      BY <3>1, <3>2, <3>3
    <3> QED
      BY <3>4 DEF a
  <2> QED
    BY <2>1, <2>2
<1>8. Sent' = Sent \o x
  <2> HIDE DEF x
  <2> QED
    BY <1>5, <1>6, <1>7, FlattenAppend DEF Sent
<1>9. Sent \o <<>> = Sent
  BY SentType
<1> QED
  BY <1>8, <1>9

\* A step that is neither one of std::clog's nor leads there.
LEMMA QuietStep ==
    ASSUME SInv, UNCHANGED stream, Sent' = Sent,
           \A u \in Threads : /\ thread'[u].at = "erase" <=> thread[u].at = "erase"
                              /\ thread'[u].at = "sync" => thread[u].at = "sync"
                              /\ thread'[u].at \in {"sync", "erase"} =>
                                    thread'[u].call = thread[u].call
    PROVE  SInv'
<1>1. UNCHANGED <<buffer_, put, raced>>
  BY DEF stream
<1>2. SyncTrue'
  BY <1>1 DEF SInv, SyncTrue
<1>3. (\E t \in Threads : thread'[t].at = "erase") <=> \E t \in Threads : thread[t].at = "erase"
  OBVIOUS
<1>4. ~raced => IF \E t \in Threads : thread[t].at = "erase" THEN Sent \o <<>> = put
                ELSE Sent \o buffer_ = put
  BY ConservedIs DEF SInv
<1>5. ~raced' => IF \E t \in Threads : thread'[t].at = "erase" THEN Sent' \o <<>> = put'
                 ELSE Sent' \o buffer_' = put'
  BY <1>1, <1>3, <1>4
<1>6. StreamConserved'
  BY <1>5 DEF StreamConserved, Sent, Lines
<1> QED
  BY <1>1, <1>2, <1>6 DEF SInv

\* The static buffer has nothing to do with std::clog.
LEMMA BufferQuiet ==
    ASSUME IInv, SInv, NEW t \in Threads,
           Call(t) \/ Vsprintf(t) \/ VsprintfNull(t) \/ Syslog(t) \/ SyslogString(t)
    PROVE  SInv'
<1> USE DEF IInv
<1>0. Sent' = Sent /\ UNCHANGED stream
  <2>1. CASE UNCHANGED journal /\ UNCHANGED stream
    BY <2>1 DEF Sent, Lines
  <2>2. ASSUME NEW level, NEW line \in Seq(Int), Send(t, level, line),
               thread[t].call.how # "line"
        PROVE  Sent' = Sent
    BY <2>2, SendSent
  <2>3. CASE Syslog(t)
    <3>1. thread[t].call.how # "line" /\ thread[t].line \in Seq(Int)
      BY <2>3 DEF Syslog, BufferTrue, InBuffer, Typed, Frame
    <3> QED
      BY <2>1, <2>2, <2>3, <3>1 DEF Syslog
  <2>4. CASE SyslogString(t)
    <3>1. thread[t].call.how # "line" /\ thread[t].call \in Made
      BY <2>4 DEF SyslogString, OthersTrue, Typed, Frame
    <3>2. thread[t].call.text \in Seq(Int)
      BY <3>1, TextFits
    <3> QED
      BY <2>2, <2>4, <3>1, <3>2 DEF SyslogString
  <2>5. CASE Call(t) \/ Vsprintf(t) \/ VsprintfNull(t)
    BY <2>1, <2>5 DEF Call, Vsprintf, VsprintfNull
  <2> QED
    BY <2>3, <2>4, <2>5
<1>1. thread \in [Threads -> Frame]
  BY DEF Typed
<1>2. ASSUME thread[t].at \notin {"sync", "erase"}, thread'[t].at \notin {"sync", "erase"},
             \A u \in Threads \ {t} : thread'[u].at = thread[u].at /\ thread'[u].call = thread[u].call
      PROVE  SInv'
  BY <1>0, <1>2, QuietStep
<1>3. CASE Call(t)
  <2> PICK c \in Calls :
        LET at == IF c.how \in {"format", "null"} THEN "vsprintf"
                  ELSE IF c.how = "string" THEN "send" ELSE "put"
            Meets(u) == u # t /\ at = "vsprintf" /\ InBuffer(u)
        IN  thread' = [u \in Threads |->
               IF u = t THEN [at |-> at, call |-> c, i |-> 1, line |-> <<>>,
                              alone |-> ~\E w \in Threads : Meets(w)]
               ELSE [thread[u] EXCEPT !.alone = @ /\ ~Meets(u)]]
    BY <1>3 DEF Call
  <2> DEFINE at == IF c.how \in {"format", "null"} THEN "vsprintf"
                   ELSE IF c.how = "string" THEN "send" ELSE "put"
             Meets(u) == u # t /\ at = "vsprintf" /\ InBuffer(u)
             alone == ~\E w \in Threads : Meets(w)
  <2>1. thread'[t] = [at |-> at, call |-> c, i |-> 1, line |-> <<>>, alone |-> alone]
    OBVIOUS
  <2>2. ASSUME NEW u \in Threads \ {t}
        PROVE  thread'[u] = [thread[u] EXCEPT !.alone = @ /\ ~Meets(u)]
    OBVIOUS
  <2>3. at \notin {"sync", "erase"} /\ thread[t].at = "idle"
    BY <1>3 DEF Call
  <2> HIDE DEF at, alone, Meets
  <2>4. thread'[t].at \notin {"sync", "erase"}
    BY <2>1, <2>3
  <2>5. ASSUME NEW u \in Threads \ {t}
        PROVE  thread'[u].at = thread[u].at /\ thread'[u].call = thread[u].call
    <3>1. thread[u] \in Frame
      BY <1>1
    <3> QED
      BY <2>2, <3>1 DEF Frame
  <2> QED
    BY <1>2, <2>3, <2>4, <2>5
<1>4. CASE ~Call(t)
  <2>1. \/ thread' = [thread EXCEPT ![t] = Idle]
        \/ \E at \in {"vsprintf", "syslog"} : \E i, line : Go(t, at, i, line)
    BY <1>4 DEF Vsprintf, VsprintfNull, Syslog, SyslogString
  <2>2. /\ \A u \in Threads \ {t} : thread'[u] = thread[u]
        /\ thread'[t].at \in {"idle", "vsprintf", "syslog"}
    <3>1. CASE thread' = [thread EXCEPT ![t] = Idle]
      BY <1>1, <3>1, IdleType
    <3>2. ASSUME NEW at \in {"vsprintf", "syslog"}, NEW i, NEW line, Go(t, at, i, line)
          PROVE  /\ \A u \in Threads \ {t} : thread'[u] = thread[u]
                 /\ thread'[t].at \in {"idle", "vsprintf", "syslog"}
      <4> DEFINE f == [thread[t] EXCEPT !.at = at, !.i = i, !.line = line]
      <4>1. thread' = [thread EXCEPT ![t] = f]
        BY <1>1, <3>2 DEF Go
      <4>2. f.at = at
        BY <1>1 DEF Frame
      <4> HIDE DEF f
      <4> QED
        BY <1>1, <4>1, <4>2
    <3> QED
      BY <2>1, <3>1, <3>2
  <2>3. thread[t].at \notin {"sync", "erase"}
    BY <1>4 DEF Vsprintf, VsprintfNull, Syslog, SyslogString
  <2> QED
    BY <1>2, <2>2, <2>3
<1> QED
  BY <1>3, <1>4

\* A byte for std::clog is held until the next sync.
LEMMA PutStep ==
    ASSUME IInv, SInv, NEW t \in Threads, NEW b \in Int, NEW at \in {"put", "sync"}, NEW k \in Nat,
           thread[t].at = "put", at = "sync" => thread[t].call.how = "line",
           buffer_' = Append(buffer_, b), Uses(t, <<b>>), Go(t, at, k, <<>>), UNCHANGED journal
    PROVE  SInv'
<1> DEFINE none == <<>>
<1>0. at \in At /\ none \in Seq(Int) /\ Go(t, at, k, none)
  BY DEF At
<1> HIDE DEF none
<1>1. /\ \A u \in Threads \ {t} : thread'[u] = thread[u]
      /\ thread'[t].at = at /\ thread'[t].call = thread[t].call
  BY <1>0, GoEffect, Zenon
<1>2. /\ put' = put \o <<b>> /\ put \in Seq(Int) /\ buffer_ \in Seq(Int)
      /\ ~raced' => ~raced /\ \A u \in Threads : thread[u].at # "erase"
  BY DEF Uses, IInv, Typed, SInv
<1>3. Sent' = Sent /\ Sent \in Seq(Int)
  BY SentType DEF Sent, Lines, IInv
<1>4. put' \in Seq(Int)
  <2>1. <<b>> \in Seq(Int)
    OBVIOUS
  <2> QED
    BY <1>2, <2>1
<1>5. SyncTrue'
  BY <1>1, <1>2 DEF SInv, SyncTrue
<1>6. ASSUME ~raced' PROVE (~\E u \in Threads : thread'[u].at = "erase") /\ Sent' \o buffer_' = put'
  <2>1. Sent \o buffer_ = put
    BY <1>2, <1>6, ConservedIs DEF SInv
  <2>2. Sent \o Append(buffer_, b) = (Sent \o buffer_) \o <<b>>
    <3>1. <<b>> \in Seq(Int)
      OBVIOUS
    <3>2. Append(buffer_, b) = buffer_ \o <<b>>
      BY <1>2, AppendIsConcat
    <3> QED
      BY <1>2, <1>3, <3>1, <3>2, ConcatAssociative
  <2> QED
    BY <1>1, <1>2, <1>3, <1>6, <2>1, <2>2
<1>7. StreamConserved'
  BY <1>6 DEF StreamConserved, Sent, Lines
<1> QED
  BY <1>4, <1>5, <1>7 DEF SInv

\* So does a byte of a text ...
LEMMA OverflowStream == ASSUME IInv, SInv, NEW t \in Threads, Overflow(t) PROVE SInv'
<1> DEFINE text == thread[t].call.text
           i == thread[t].i
           k == i + 1
<1>1. /\ thread[t].at = "put" /\ i <= Len(text) /\ buffer_' = Append(buffer_, text[i])
      /\ Go(t, "put", k, <<>>) /\ Uses(t, <<text[i]>>) /\ UNCHANGED journal
  BY DEF Overflow
<1>2. thread[t].call \in Made /\ i \in Nat /\ i # 0
  BY <1>1 DEF IInv, Typed, Frame, Counted
<1>3. text \in Seq(Int)
  BY <1>2, TextFits
<1>4. text[i] \in Int
  <2>1. i \in 1..Len(text)
    <3>1. Len(text) \in Nat
      BY <1>3
    <3> HIDE DEF i, text
    <3> QED
      BY <1>1, <1>2, <3>1
  <2> QED
    BY <1>3, <2>1, ElementOfSeq
<1>5. k \in Nat
  BY <1>2
<1> DEFINE b == text[i]
<1> HIDE DEF b, k
<1>6. /\ b \in Int /\ thread[t].at = "put" /\ buffer_' = Append(buffer_, b) /\ Uses(t, <<b>>)
      /\ Go(t, "put", k, <<>>) /\ UNCHANGED journal /\ "put" \in {"put", "sync"}
  BY <1>1, <1>4 DEF b
<1> QED
  BY <1>5, <1>6, PutStep

\* ... and a new line.
LEMMA EndlStream == ASSUME IInv, SInv, NEW t \in Threads, Endl(t) PROVE SInv'
<1>1. thread[t].at = "put" /\ UNCHANGED journal
  BY DEF Endl
<1>2. CASE thread[t].call.how = "line"
  <2>1. NewLine \in Int /\ 0 \in Nat /\ "sync" \in {"put", "sync"}
    BY DEF NewLine
  <2>2. buffer_' = Append(buffer_, NewLine) /\ Uses(t, <<NewLine>>) /\ Go(t, "sync", 0, <<>>)
    BY <1>2 DEF Endl
  <2> DEFINE b == NewLine  k == 0  at == "sync"
  <2>3. /\ b \in Int /\ k \in Nat /\ at \in {"put", "sync"} /\ buffer_' = Append(buffer_, b)
        /\ Uses(t, <<b>>) /\ Go(t, at, k, <<>>)
    BY <2>1, <2>2
  <2> HIDE DEF b, k, at
  <2> QED
    BY <1>1, <1>2, <2>3, PutStep
<1>3. CASE thread[t].call.how # "line"
  <2>1. thread' = [thread EXCEPT ![t] = Idle] /\ UNCHANGED stream
    BY <1>3 DEF Endl
  <2>2. thread'[t].at = "idle" /\ \A u \in Threads \ {t} : thread'[u] = thread[u]
    BY <2>1, IdleType DEF IInv, Typed
  <2>3. Sent' = Sent
    BY <1>1 DEF Sent, Lines
  <2> QED
    BY <1>1, <2>1, <2>2, <2>3, QuietStep
<1> QED
  BY <1>2, <1>3

\* What sync sends is what is held, and all that is held.
LEMMA SyncStream == ASSUME IInv, SInv, NEW t \in Threads, Sync(t) PROVE SInv'
<1>1. /\ thread[t].at = "sync" /\ UNCHANGED buffer_ /\ thread[t].call.how = "line"
      /\ put' = put \o <<>>
      /\ ~raced' => ~raced /\ \A u \in Threads : thread[u].at # "erase"
  BY DEF Sync, Uses, SInv, SyncTrue
<1>2. put \in Seq(Int) /\ buffer_ \in Seq(Int) /\ Sent \in Seq(Int)
  BY SentType DEF IInv, Typed, SInv
<1>3. put' = put
  BY <1>1, <1>2
<1>4. ~raced' => Sent \o buffer_ = put
  BY <1>1, ConservedIs DEF SInv
<1>5. CASE buffer_ = <<>>
  <2>1. thread' = [thread EXCEPT ![t] = Idle] /\ UNCHANGED journal
    BY <1>5 DEF Sync
  <2>2. thread'[t].at = "idle" /\ \A u \in Threads \ {t} : thread'[u] = thread[u]
    BY <2>1, IdleType DEF IInv, Typed
  <2>3. Sent' = Sent
    BY <2>1 DEF Sent, Lines
  <2>4. ~raced' => /\ ~\E u \in Threads : thread'[u].at = "erase"
                   /\ Sent' \o buffer_' = put'
    BY <1>1, <1>3, <1>4, <2>2, <2>3
  <2>5. StreamConserved'
    BY <2>4 DEF StreamConserved, Sent, Lines
  <2>6. SyncTrue'
    BY <1>1, <2>2 DEF SInv, SyncTrue
  <2> QED
    BY <1>2, <1>3, <2>5, <2>6 DEF SInv
<1>6. CASE buffer_ # <<>>
  <2> DEFINE none == <<>>  k == 0
  <2>1. Send(t, priority_, buffer_) /\ Go(t, "erase", k, none)
    BY <1>6 DEF Sync
  <2>2. "erase" \in At /\ k \in Nat /\ none \in Seq(Int)
    BY DEF At
  <2>3. /\ \A u \in Threads \ {t} : thread'[u] = thread[u]
        /\ thread'[t].at = "erase" /\ thread'[t].call = thread[t].call
    <3> HIDE DEF k, none
    <3> QED
      BY <2>1, <2>2, GoEffect, Zenon
  <2>4. Sent' = Sent \o buffer_
    BY <1>1, <1>2, <2>1, SendSent DEF IInv
  <2>5. Sent' \o <<>> = Sent'
    BY <1>2, <2>4
  <2>6. ~raced' => (\E u \in Threads : thread'[u].at = "erase") /\ Sent' \o <<>> = put'
    BY <1>3, <1>4, <2>3, <2>4, <2>5
  <2>7. StreamConserved'
    BY <2>6 DEF StreamConserved, Sent, Lines
  <2>8. SyncTrue'
    BY <1>1, <2>3 DEF SInv, SyncTrue
  <2> QED
    BY <1>2, <1>3, <2>7, <2>8 DEF SInv
<1> QED
  BY <1>5, <1>6

\* After that it is no longer held.
LEMMA EraseStream == ASSUME IInv, SInv, NEW t \in Threads, Erase(t) PROVE SInv'
<1>1. /\ thread[t].at = "erase" /\ UNCHANGED <<put, raced, journal>> /\ buffer_' = <<>>
      /\ thread' = [thread EXCEPT ![t] = Idle]
  BY DEF Erase
<1>2. thread'[t].at = "idle" /\ \A u \in Threads \ {t} : thread'[u] = thread[u]
  BY <1>1, IdleType DEF IInv, Typed
<1>3. Sent' = Sent
  BY <1>1 DEF Sent, Lines
<1>4. ~raced => Sent \o <<>> = put
  BY <1>1, ConservedIs DEF SInv
<1>5. ~raced => \A u \in Threads : thread'[u].at # "erase"
  BY <1>1, <1>2 DEF SInv, SyncTrue
<1>6. ~raced' => (~\E u \in Threads : thread'[u].at = "erase") /\ Sent' \o buffer_' = put'
  BY <1>1, <1>3, <1>4, <1>5
<1>7. StreamConserved'
  BY <1>6 DEF StreamConserved, Sent, Lines
<1>8. SyncTrue'
  BY <1>1, <1>2 DEF SInv, SyncTrue
<1> QED
  BY <1>1, <1>7, <1>8 DEF SInv

\* For any number of threads and any calls: what sync has sent to syslog and what buffer_
\* still holds are the bytes put on std::clog, in order, unless a thread uses std::clog
\* between another's syslog and its erase (Log.cpp:97-119).
THEOREM StreamIsConserved == Spec => []StreamConserved
<1>1. Init => SInv
  <2> SUFFICES ASSUME Init PROVE SInv
    OBVIOUS
  <2>1. journal = <<>> /\ buffer_ = <<>> /\ put = <<>> /\ \A t \in Threads : thread[t].at = "idle"
    BY IdleType DEF Init
  <2>2. Lines = <<>>
    BY <2>1 DEF Lines
  <2>3. Sent = <<>>
    BY <2>2 DEF Sent, FlattenSeq
  <2>4. Sent \o buffer_ = put
    BY <2>1, <2>3
  <2>5. StreamConserved
    BY <2>1, <2>4, ConservedIs
  <2>6. put \in Seq(Int)
    BY <2>1
  <2> QED
    BY <2>1, <2>5, <2>6 DEF SInv, SyncTrue
<1>2. IInv /\ SInv /\ [Next]_vars => SInv'
  <2> SUFFICES ASSUME IInv, SInv, [Next]_vars PROVE SInv'
    OBVIOUS
  <2>1. CASE UNCHANGED vars
    BY <2>1 DEF vars, SInv, SyncTrue, StreamConserved
  <2>2. ASSUME NEW t \in Threads, Step(t) PROVE SInv'
    BY <2>2, BufferQuiet, OverflowStream, EndlStream, SyncStream, EraseStream DEF Step
  <2> QED
    BY <2>1, <2>2 DEF Next
<1>3. SInv => StreamConserved
  BY DEF SInv
<1> QED
  BY <1>1, <1>2, <1>3, InitInv, StepInv, PTL DEF Spec

=============================================================================
