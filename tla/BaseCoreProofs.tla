--------------------------- MODULE BaseCoreProofs ---------------------------
(***************************************************************************)
(* What the two rates of the status page mean, for any number of workers,  *)
(* any widths of the integers and any bounds.                              *)
(***************************************************************************)
EXTENDS BaseCore, FiniteSetTheorems, TLAPS

Pc == {"idle", "store"} \cup InPage

\* A count, and a local that holds one once it is loaded.
Count == 0..MaxRequests
Loaded == Count \cup {NotLoaded}

\* What a difference of times can be as an int.
Int32 == (-(IntMod \div 2))..(IntMod \div 2 - 1)

Page == [now : Nat, sinceAccess : Int32, sinceStart : Int32, requests : Loaded,
         last : Loaded, current : Int, average : Int, shown : Count,
         name : {"empty", "host", "unknown"}]

Typed ==
    /\ clock \in Nat /\ request_processed_ \in Count
    /\ last_time_accessed \in Nat \cup {NotADateTime}
    /\ last_time_request_processed \in Count /\ server_name \in {"empty", "host"}
    /\ pc \in [Workers -> Pc] /\ reg \in [Workers -> Nat]
    /\ page \in [Workers -> Page] /\ seen \in [Workers -> SUBSET Count]
    /\ previous \in [time : Nat, requests : Count, quiet : BOOLEAN]
    /\ raced \in BOOLEAN
    /\ \A w \in Workers : pc[w] = "store" => reg[w] < MaxRequests

\* The places of a page, in order, from where a local is known on.
SinceOn   == {"current", "average", "access", "count", "render", "rendered"}
CurrentOn == SinceOn \ {"current"}
AverageOn == CurrentOn \ {"average"}
AccessOn  == AverageOn \ {"access"}
CountOn   == AccessOn \ {"count"}

\* A page has seen the value the counter has, and the one it has loaded.
SeesOf(w) ==
    /\ pc[w] \notin InPage => page[w] = Blank
    /\ pc[w] \in InPage =>
          request_processed_ \in seen[w] /\ page[w].requests \in seen[w] \cup {NotLoaded}

Sees == \A w \in Workers : SeesOf(w)

\* The average is that of a count the page has seen.
AverageOf(w) ==
    /\ pc[w] \in SinceOn =>
          page[w].sinceStart = ToInt(page[w].now - time_service_started_)
    /\ pc[w] \in AverageOn =>
          \E c \in seen[w] : page[w].average = PerSecond(c, page[w].sinceStart)

Averages == \A w \in Workers : AverageOf(w)

AInv == Typed /\ Sees /\ Averages

-----------------------------------------------------------------------------
(* Without a race.                                                         *)

\* One page and one ++ at a time.
Alone ==
    /\ \A v, w \in Workers : pc[v] \in InPage /\ pc[w] \in InPage => v = w
    /\ \A v, w \in Workers : pc[v] = "store" /\ pc[w] = "store" => v = w
    /\ \A w \in Workers : pc[w] = "store" => reg[w] = request_processed_

\* The time of the last page is kept until the next one has taken its own.
LastTime ==
    \/ last_time_accessed = previous.time
    \/ last_time_accessed = NotADateTime /\ previous.time = time_service_started_

TimeOf(w) ==
    /\ pc[w] = "init" => last_time_accessed = NotADateTime
    /\ pc[w] \in {"now", "since"} \cup SinceOn => last_time_accessed # NotADateTime
    /\ pc[w] \in {"since"} \cup SinceOn => page[w].now \in previous.time..clock
    /\ pc[w] \in SinceOn => page[w].sinceAccess = ToInt(page[w].now - previous.time)
    /\ pc[w] \in AccessOn => last_time_accessed = page[w].now

TimeKept ==
    /\ previous.time <= clock
    /\ (\A w \in Workers : pc[w] \notin AccessOn) => LastTime
    /\ \A w \in Workers : TimeOf(w)

\* The count of the last page is kept likewise; it was exact if nothing was
\* counted meanwhile.
CountOf(w) == pc[w] \in InPage =>
    /\ \A c \in seen[w] : c <= request_processed_
    /\ pc[w] \notin CountOn => \A c \in seen[w] : last_time_request_processed <= c
    /\ pc[w] \in CountOn => last_time_request_processed \in seen[w]

CountKept ==
    /\ last_time_request_processed <= request_processed_
    /\ (\A w \in Workers : pc[w] \notin CountOn) =>
          (previous.quiet => last_time_request_processed = previous.requests)
    /\ \A w \in Workers : CountOf(w)

\* What the page has loaded, and the rate it has computed from that.
CurrentOf(w) ==
    /\ pc[w] \in InPage /\ page[w].last # NotLoaded =>
          /\ \A c \in seen[w] : page[w].last <= c
          /\ previous.quiet => page[w].last = previous.requests
    /\ pc[w] \in CurrentOn =>
          /\ page[w].sinceAccess # 0 => NotLoaded \notin {page[w].requests, page[w].last}
          /\ page[w].current = PerSecond(page[w].requests - page[w].last, page[w].sinceAccess)
    /\ pc[w] = "rendered" => page[w].shown \in seen[w] /\ page[w].requests <= page[w].shown

CurrentIs == \A w \in Workers : CurrentOf(w)

CInv == ~raced => Alone /\ TimeKept /\ CountKept /\ CurrentIs

IInv == AInv /\ CInv

-----------------------------------------------------------------------------
(* Arithmetic.                                                             *)

\* Half of what an int can be.
LEMMA HalfType ==
    /\ IntMod \div 2 \in Nat \ {0} /\ 2 * (IntMod \div 2) = IntMod
    /\ IntMod \in Nat \ {0} /\ ULongMod \in Nat \ {0} /\ IntMod < ULongMod
    /\ Second \in Nat \ {0} /\ MaxRequests \in Nat
    /\ MaxRequests * Second < ULongMod
<1>1. /\ IntMod \in Nat /\ IntMod % 2 = 0 /\ IntMod > 1
      /\ ULongMod \in Nat /\ ULongMod > IntMod
      /\ Second \in Nat \ {0} /\ MaxRequests \in Nat
      /\ MaxRequests * Second < ULongMod
  BY BaseCoreAssumption
<1>2. 2 * (IntMod \div 2) = IntMod /\ IntMod \div 2 \in Int
  BY <1>1
<1> QED
  BY <1>1, <1>2

\* What is stored in an int is one.
LEMMA ToIntType == ASSUME NEW n \in Int PROVE ToInt(n) \in Int32
<1> DEFINE h == IntMod \div 2
<1>1. h \in Nat /\ IntMod \in Nat \ {0} /\ 2 * h = IntMod
  BY HalfType
<1> HIDE DEF h
<1>2. (n + h) % IntMod \in 0..(IntMod - 1)
  BY <1>1
<1>3. ((n + h) % IntMod) - h \in (-h)..(h - 1)
  BY <1>1, <1>2
<1> QED
  BY <1>3 DEF ToInt, Int32, h

\* ... and stays what it is when it fits.
LEMMA ToIntFits == ASSUME NEW n \in 0..(IntMod \div 2 - 1) PROVE ToInt(n) = n
<1> DEFINE h == IntMod \div 2
<1>1. h \in Nat /\ IntMod \in Nat \ {0} /\ 2 * h = IntMod /\ n \in Nat /\ n < h
  BY HalfType
<1> HIDE DEF h
<1>2. n + h \in Nat /\ n + h < IntMod
  BY <1>1
<1>3. (n + h) % IntMod = n + h
  BY <1>1, <1>2
<1>4. ((n + h) % IntMod) - h = n
  BY <1>1, <1>3
<1> QED
  BY <1>4 DEF ToInt, h

\* Nor does an unsigned long change what fits it.
LEMMA ToULongFits == ASSUME NEW n \in 0..(ULongMod - 1) PROVE ToULong(n) = n
<1>1. ULongMod \in Nat \ {0} /\ n \in Nat /\ n < ULongMod
  BY HalfType
<1> QED
  BY <1>1 DEF ToULong

\* A rate is an int, whatever the count and the time.
LEMMA PerSecondType ==
    ASSUME NEW count \in Int, NEW ms \in Int32 PROVE PerSecond(count, ms) \in Int
<1>1. CASE ms = 0
  BY <1>1 DEF PerSecond
<1>2. CASE ms # 0
  <2> DEFINE h == IntMod \div 2
             a == ToULong(ToULong(count) * Second)
             b == ToULong(ms)
  <2>1. /\ h \in Nat \ {0} /\ 2 * h = IntMod /\ IntMod < ULongMod
        /\ ULongMod \in Nat \ {0} /\ Second \in Nat
    BY HalfType
  <2>2. a \in Int
    BY <2>1 DEF ToULong
  <2>3. b \in Nat \ {0}
    <3>1. ms \in Int /\ -h <= ms /\ ms < h
      BY <2>1 DEF Int32
    <3> HIDE DEF h
    <3>2. -ULongMod < ms /\ ms < ULongMod
      BY <2>1, <3>1
    <3>3. ms % ULongMod \in 0..(ULongMod - 1) /\ ms % ULongMod # 0
      BY <1>2, <2>1, <3>1, <3>2
    <3> QED
      BY <2>1, <3>3 DEF ToULong
  <2> HIDE DEF a, b, h
  <2>4. a \div b \in Int
    BY <2>2, <2>3
  <2>5. ToInt(a \div b) \in Int32
    BY <2>4, ToIntType
  <2>6. ToInt(a \div b) \in Int
    BY <2>5, <2>1 DEF Int32, h
  <2> QED
    BY <1>2, <2>6 DEF PerSecond, a, b
<1> QED
  BY <1>1, <1>2

\* A rate that fits is the true one.
LEMMA PerSecondFits ==
    ASSUME NEW count \in Count, NEW ms, FitsInt(count, ms)
    PROVE  PerSecond(count, ms) = Rate(count, ms) /\ ToInt(ms) = ms
<1> DEFINE h == IntMod \div 2
<1>0. h \in Nat \ {0} /\ 2 * h = IntMod /\ IntMod < ULongMod /\ ULongMod \in Nat \ {0}
      /\ Second \in Nat \ {0} /\ MaxRequests \in Nat /\ MaxRequests * Second < ULongMod
  BY HalfType
<1>1. ms \in 0..(h - 1) /\ Rate(count, ms) \in 0..(h - 1)
  BY DEF FitsInt
<1>2. ToInt(ms) = ms
  BY <1>1, ToIntFits
<1>3. CASE ms = 0
  BY <1>2, <1>3 DEF PerSecond, Rate
<1>4. CASE ms # 0
  <2>1. count \in Nat /\ count <= MaxRequests
    BY <1>0 DEF Count
  <2>2. count * Second \in Nat /\ count * Second < ULongMod /\ count < ULongMod
    <3>1. count * Second \in Nat /\ count * Second <= MaxRequests * Second
      BY <1>0, <2>1
    <3>2. count <= count * Second
      BY <1>0, <2>1
    <3> DEFINE p == count * Second  q == MaxRequests * Second
    <3>3. p \in Nat /\ p <= q /\ q < ULongMod /\ count <= p /\ q \in Nat
      BY <1>0, <3>1, <3>2
    <3> HIDE DEF p, q
    <3>4. p < ULongMod /\ count < ULongMod
      BY <1>0, <2>1, <3>3
    <3> QED
      BY <3>3, <3>4 DEF p
  <2>3. ToULong(count) = count
    BY <1>0, <2>1, <2>2, ToULongFits
  <2>4. ToULong(count * Second) = count * Second
    BY <1>0, <2>2, ToULongFits
  <2>5. ToULong(ms) = ms
    <3> HIDE DEF h
    <3>1. ms \in 0..(ULongMod - 1)
      BY <1>0, <1>1
    <3> QED
      BY <3>1, ToULongFits
  <2>6. PerSecond(count, ms) = ToInt((count * Second) \div ms)
    BY <1>4, <2>3, <2>4, <2>5 DEF PerSecond
  <2>7. Rate(count, ms) = (count * Second) \div ms
    BY <1>4 DEF Rate
  <2>8. ToInt(Rate(count, ms)) = Rate(count, ms)
    BY <1>1, ToIntFits
  <2> QED
    BY <1>2, <2>6, <2>7, <2>8
<1> QED
  BY <1>3, <1>4

-----------------------------------------------------------------------------
(* The average.                                                            *)

\* The locals that a page begins with.
LEMMA BlankType == Blank \in Page
<1> DEFINE h == IntMod \div 2
<1>1. h \in Nat \ {0} /\ MaxRequests \in Nat
  BY HalfType
<1> HIDE DEF h
<1>2. 0 \in (-h)..(h - 1) /\ 0 \in Count
  BY <1>1 DEF Count
<1>3. 0 \in Int32
  BY <1>2 DEF Int32, h
<1> QED
  BY <1>2, <1>3 DEF Blank, Page, Loaded, NotLoaded

\* A count that is kept or loaded again is one the page has seen.
LEMMA RereadSeen ==
    ASSUME AInv, NEW w \in Workers, pc[w] \in InPage, NEW c \in Reread(w)
    PROVE  c \in seen[w] /\ c \in Count /\ c \in Int
<1>1. c = request_processed_ \/ (c = page[w].requests /\ c # NotLoaded)
  BY DEF Reread
<1>2. c \in seen[w]
  BY <1>1 DEF AInv, Sees, SeesOf
<1>3. seen[w] \subseteq Count /\ Count \subseteq Int
  BY DEF AInv, Typed, Count
<1> QED
  BY <1>2, <1>3

\* The variables keep their types.
LEMMA TypeStep == ASSUME AInv, [Next]_vars PROVE Typed'
<1> USE DEF AInv
<1>0. /\ MaxRequests \in Nat /\ MaxRequests < ULongMod /\ ULongMod \in Nat
      /\ Count \subseteq Nat /\ request_processed_ \in Count
  <2>1. MaxRequests \in Nat /\ Second \in Nat \ {0} /\ MaxRequests * Second < ULongMod
        /\ ULongMod \in Nat
    BY HalfType
  <2>2. MaxRequests <= MaxRequests * Second /\ MaxRequests * Second \in Nat
    BY <2>1
  <2> QED
    BY <2>1, <2>2 DEF Count, Typed
<1>1. ASSUME NEW w \in Workers, CountLoad(w) PROVE Typed'
  <2>1. request_processed_ \in Nat /\ request_processed_ < MaxRequests
    BY <1>0, <1>1 DEF CountLoad
  <2> QED
    BY <1>1, <2>1 DEF CountLoad, Goto, Typed, shared, Pc
<1>2. ASSUME NEW w \in Workers, CountStore(w) PROVE Typed'
  <2>1. reg[w] \in Nat /\ reg[w] < MaxRequests
    BY <1>2 DEF CountStore, Typed
  <2>2. reg[w] + 1 \in Count /\ reg[w] + 1 \in 0..(ULongMod - 1)
    BY <1>0, <2>1 DEF Count
  <2>3. request_processed_' \in Count
    BY <1>2, <2>2, ToULongFits DEF CountStore
  <2>4. seen' \in [Workers -> SUBSET Count]
    BY <1>2, <2>3 DEF CountStore, See, Typed
  <2>5. pc' \in [Workers -> Pc] /\ reg' \in [Workers -> Nat]
        /\ \A v \in Workers : pc'[v] = "store" => pc[v] = "store" /\ reg'[v] = reg[v]
    BY <1>2 DEF CountStore, Goto, Typed, Pc
  <2>6. UNCHANGED <<clock, last_time_accessed, last_time_request_processed,
                    server_name, page, previous, raced>>
    BY <1>2 DEF CountStore
  <2> QED
    BY <2>3, <2>4, <2>5, <2>6 DEF Typed
<1>3. CASE Tick
  BY <1>3 DEF Tick, shared, history, Typed
<1>4. ASSUME NEW w \in Workers, Enter(w) PROVE Typed'
  BY <1>4 DEF Enter, Goto, Typed, shared, Pc, InPage
<1>5. ASSUME NEW w \in Workers, Name(w) PROVE Typed'
  <2>1. server_name' \in {"empty", "host"}
    BY <1>5 DEF Name, Typed
  <2>2. pc' \in [Workers -> Pc] /\ \A v \in Workers : pc'[v] = "store" => pc[v] = "store"
    BY <1>5 DEF Name, Goto, Typed, Pc, InPage
  <2> QED
    BY <1>5, <2>1, <2>2 DEF Name, history, Typed
<1>6. ASSUME NEW w \in Workers, First(w) PROVE Typed'
  <2>2. pc' \in [Workers -> Pc] /\ \A v \in Workers : pc'[v] = "store" => pc[v] = "store"
    BY <1>6 DEF First, Goto, Typed, Pc, InPage
  <2> QED
    BY <1>6, <2>2 DEF First, shared, history, Typed
<1>7. ASSUME NEW w \in Workers, InitAccess(w) PROVE Typed'
  BY <1>7 DEF InitAccess, Goto, history, Typed, Pc, InPage, time_service_started_
<1>8. ASSUME NEW w \in Workers, Now(w) PROVE Typed'
  BY <1>8 DEF Now, Goto, shared, history, Typed, Pc, InPage, Page
<1>9. ASSUME NEW w \in Workers, Since(w) PROVE Typed'
  <2>1. page[w].now - last_time_accessed \in Int /\ page[w].now - time_service_started_ \in Int
    BY DEF Typed, Page, time_service_started_, NotADateTime
  <2>2. /\ ToInt(page[w].now - last_time_accessed) \in Int32
        /\ ToInt(page[w].now - time_service_started_) \in Int32
    BY <2>1, ToIntType
  <2>3. page' \in [Workers -> Page]
    <3> DEFINE a == ToInt(page[w].now - last_time_accessed)
               b == ToInt(page[w].now - time_service_started_)
    <3>1. page' = [page EXCEPT ![w] = [page[w] EXCEPT !.sinceAccess = a, !.sinceStart = b]]
      BY <1>9 DEF Since, Typed
    <3>2. a \in Int32 /\ b \in Int32 /\ page[w] \in Page
      BY <2>2 DEF Typed
    <3> HIDE DEF a, b
    <3>3. [page[w] EXCEPT !.sinceAccess = a, !.sinceStart = b] \in Page
      BY <3>2 DEF Page
    <3> QED
      BY <3>1, <3>3 DEF Typed
  <2> QED
    BY <1>9, <2>3 DEF Since, Goto, shared, history, Typed, Pc, InPage
<1>10. ASSUME NEW w \in Workers, LoadRequests(w) PROVE Typed'
  BY <1>10 DEF LoadRequests, shared, history, Typed, Page, Loaded
<1>11. ASSUME NEW w \in Workers, LoadLast(w) PROVE Typed'
  BY <1>11 DEF LoadLast, shared, history, Typed, Page, Loaded
<1>12. ASSUME NEW w \in Workers, Current(w) PROVE Typed'
  <2>1. page[w].requests - page[w].last \in Int /\ page[w].sinceAccess \in Int32
    <3>1. /\ page[w].requests \in Loaded /\ page[w].last \in Loaded
          /\ page[w].sinceAccess \in Int32
      BY DEF Typed, Page
    <3>2. Loaded \subseteq Int
      BY <1>0 DEF Loaded, NotLoaded
    <3> DEFINE a == page[w].requests  b == page[w].last
    <3>3. a \in Int /\ b \in Int
      BY <3>1, <3>2
    <3> HIDE DEF a, b
    <3>4. a - b \in Int
      BY <3>3
    <3> QED
      BY <3>1, <3>4 DEF a, b
  <2>2. PerSecond(page[w].requests - page[w].last, page[w].sinceAccess) \in Int
    BY <2>1, PerSecondType
  <2>3. page' \in [Workers -> Page]
    BY <1>12, <2>2 DEF Current, Typed, Page
  <2> QED
    BY <1>12, <2>3 DEF Current, Goto, shared, history, Typed, Pc, InPage
<1>13. ASSUME NEW w \in Workers, Average(w) PROVE Typed'
  <2>1. PICK c \in Reread(w) :
           page' = [page EXCEPT ![w].average = PerSecond(c, page[w].sinceAccess)]
           \/ page' = [page EXCEPT ![w].average = PerSecond(c, page[w].sinceStart)]
    BY <1>13 DEF Average
  <2>2. pc[w] \in InPage
    BY <1>13 DEF Average, InPage
  <2>3. c \in Int /\ page[w].sinceAccess \in Int32 /\ page[w].sinceStart \in Int32
    BY <2>2, RereadSeen DEF Typed, Page
  <2>4. PerSecond(c, page[w].sinceAccess) \in Int /\ PerSecond(c, page[w].sinceStart) \in Int
    BY <2>3, PerSecondType
  <2>5. page' \in [Workers -> Page]
    <3>1. PICK n \in Int : page' = [page EXCEPT ![w] = [page[w] EXCEPT !.average = n]]
      BY <2>1, <2>4 DEF Typed
    <3>2. [page[w] EXCEPT !.average = n] \in Page
      BY DEF Typed, Page
    <3> QED
      BY <3>1, <3>2 DEF Typed
  <2> QED
    BY <1>13, <2>5 DEF Average, Goto, shared, history, Typed, Pc, InPage
<1>14. ASSUME NEW w \in Workers, SaveAccess(w) PROVE Typed'
  BY <1>14 DEF SaveAccess, Goto, history, Typed, Pc, InPage, Page
<1>15. ASSUME NEW w \in Workers, SaveCount(w) PROVE Typed'
  <2>1. pc[w] \in InPage /\ last_time_request_processed' \in Reread(w)
    BY <1>15 DEF SaveCount, InPage
  <2>2. last_time_request_processed' \in Count
    BY <2>1, RereadSeen
  <2> QED
    BY <1>15, <2>2 DEF SaveCount, Goto, history, Typed, Pc, InPage
<1>16. ASSUME NEW w \in Workers, Render(w) PROVE Typed'
  <2>1. page' \in [Workers -> Page]
    <3>1. (IF server_name = "empty" THEN server_name ELSE "unknown") \in {"empty", "host", "unknown"}
      BY DEF Typed
    <3> DEFINE a == IF server_name = "empty" THEN server_name ELSE "unknown"
               b == request_processed_
    <3>2. page' = [page EXCEPT ![w] = [page[w] EXCEPT !.shown = b, !.name = a]]
      BY <1>16 DEF Render, Typed
    <3>3. a \in {"empty", "host", "unknown"} /\ b \in Count /\ page[w] \in Page
      BY <1>0, <3>1 DEF Typed
    <3> HIDE DEF a, b
    <3>4. [page[w] EXCEPT !.shown = b, !.name = a] \in Page
      BY <3>3 DEF Page
    <3> QED
      BY <3>2, <3>4 DEF Typed
  <2> QED
    BY <1>16, <2>1 DEF Render, Goto, shared, history, Typed, Pc, InPage
<1>17. ASSUME NEW w \in Workers, Respond(w) PROVE Typed'
  <2>1. (Cardinality(seen[w]) = 1) \in BOOLEAN
    OBVIOUS
  <2>2. previous' \in [time : Nat, requests : Count, quiet : BOOLEAN]
    BY <1>17, <2>1 DEF Respond, Typed, Page
  <2>3. page' \in [Workers -> Page] /\ seen' \in [Workers -> SUBSET Count]
    BY <1>17, BlankType DEF Respond, Typed
  <2> QED
    BY <1>17, <2>2, <2>3 DEF Respond, Goto, shared, Typed, Pc
<1>18. CASE UNCHANGED vars
  BY <1>18 DEF vars, shared, history, Typed
<1> QED
  BY <1>1, <1>2, <1>3, <1>4, <1>5, <1>6, <1>7, <1>8, <1>9, <1>10, <1>11, <1>12, <1>13,
     <1>14, <1>15, <1>16, <1>17, <1>18 DEF Next, Status

\* The steps of a page between its beginning and its end.
Inside(w) ==
    \/ Name(w) \/ First(w) \/ InitAccess(w) \/ Now(w) \/ Since(w) \/ LoadRequests(w)
    \/ LoadLast(w) \/ Current(w) \/ Average(w) \/ SaveAccess(w) \/ SaveCount(w) \/ Render(w)

\* Such a step leaves the counter and the history alone; the count the page has
\* loaded is the one it had or the one the counter has.
LEMMA InsideStep ==
    ASSUME AInv, NEW w \in Workers, Inside(w)
    PROVE  /\ pc[w] \in InPage /\ UNCHANGED <<clock, request_processed_, reg, history>>
           /\ pc' = [pc EXCEPT ![w] = pc'[w]] /\ pc'[w] \in InPage
           /\ page' = [page EXCEPT ![w] = page'[w]]
           /\ page'[w].requests \in {page[w].requests, request_processed_}
<1> USE DEF Goto, shared, history, InPage
<1>0. page \in [Workers -> Page] /\ pc \in [Workers -> Pc]
  BY DEF AInv, Typed
<1>1. pc = [pc EXCEPT ![w] = pc[w]] /\ page = [page EXCEPT ![w] = page[w]]
  BY <1>0
<1>2. CASE Name(w)
  BY <1>1, <1>2 DEF Name
<1>3. CASE First(w)
  BY <1>1, <1>3 DEF First
<1>4. CASE InitAccess(w)
  BY <1>1, <1>4 DEF InitAccess
<1>5. CASE Now(w)
  BY <1>0, <1>5 DEF Now, Page
<1>6. CASE Since(w)
  <2>1. PICK a, b : page' = [page EXCEPT ![w].sinceAccess = a, ![w].sinceStart = b]
    BY <1>6 DEF Since
  <2>2. page' = [page EXCEPT ![w] = [page[w] EXCEPT !.sinceAccess = a, !.sinceStart = b]]
    BY <1>0, <2>1
  <2>3. /\ page' = [page EXCEPT ![w] = page'[w]]
        /\ page'[w].requests = page[w].requests
    BY <1>0, <2>2 DEF Page
  <2>4. /\ pc[w] = "since" /\ pc' = [pc EXCEPT ![w] = "current"]
        /\ UNCHANGED <<clock, request_processed_, reg, history>>
    BY <1>6 DEF Since
  <2> QED
    BY <1>0, <2>3, <2>4
<1>7. CASE LoadRequests(w)
  BY <1>0, <1>1, <1>7 DEF LoadRequests, Page
<1>8. CASE LoadLast(w)
  BY <1>0, <1>1, <1>8 DEF LoadLast, Page
<1>9. CASE Current(w)
  BY <1>0, <1>9 DEF Current, Page
<1>10. CASE Average(w)
  BY <1>0, <1>10 DEF Average, Page
<1>11. CASE SaveAccess(w)
  BY <1>1, <1>11 DEF SaveAccess
<1>12. CASE SaveCount(w)
  BY <1>1, <1>12 DEF SaveCount
<1>13. CASE Render(w)
  <2>1. PICK a, b : page' = [page EXCEPT ![w].shown = a, ![w].name = b]
    BY <1>13 DEF Render
  <2>2. page' = [page EXCEPT ![w] = [page[w] EXCEPT !.shown = a, !.name = b]]
    BY <1>0, <2>1
  <2>3. /\ page' = [page EXCEPT ![w] = page'[w]]
        /\ page'[w].requests = page[w].requests
    BY <1>0, <2>2 DEF Page
  <2>4. /\ pc[w] = "render" /\ pc' = [pc EXCEPT ![w] = "rendered"]
        /\ UNCHANGED <<clock, request_processed_, reg, history>>
    BY <1>13 DEF Render
  <2> QED
    BY <1>0, <2>3, <2>4
<1> QED
  BY <1>2, <1>3, <1>4, <1>5, <1>6, <1>7, <1>8, <1>9, <1>10, <1>11, <1>12, <1>13 DEF Inside

\* The pages in progress see what the counter is set to.
LEMMA SeesStep == ASSUME AInv, [Next]_vars PROVE Sees'
<1>0. /\ page \in [Workers -> Page] /\ pc \in [Workers -> Pc]
      /\ seen \in [Workers -> SUBSET Count]
  BY DEF AInv, Typed
<1> SUFFICES ASSUME NEW v \in Workers
             PROVE  SeesOf(v)'
  BY DEF Sees
<1> USE DEF SeesOf
<1>1. SeesOf(v)
  BY DEF AInv, Sees
<1>2. ASSUME NEW w \in Workers, CountLoad(w) PROVE SeesOf(v)'
  BY <1>0, <1>1, <1>2 DEF CountLoad, Goto, shared, InPage
<1>3. ASSUME NEW w \in Workers, CountStore(w) PROVE SeesOf(v)'
  BY <1>0, <1>1, <1>3 DEF CountStore, Goto, See, InPage
<1>4. ASSUME NEW w \in Workers, Enter(w) PROVE SeesOf(v)'
  BY <1>0, <1>1, <1>4 DEF Enter, Goto, shared, InPage, Blank
<1>5. ASSUME NEW w \in Workers, Inside(w) PROVE SeesOf(v)'
  <2>1. pc[w] \in InPage /\ UNCHANGED <<request_processed_, seen>>
    BY <1>5, InsideStep DEF history
  <2>2. pc' = [pc EXCEPT ![w] = pc'[w]] /\ pc'[w] \in InPage
    BY <1>5, InsideStep
  <2>3. /\ page' = [page EXCEPT ![w] = page'[w]]
        /\ page'[w].requests \in {page[w].requests, request_processed_}
    BY <1>5, InsideStep
  <2> QED
    BY <1>0, <1>1, <2>1, <2>2, <2>3
<1>6. ASSUME NEW w \in Workers, Respond(w) PROVE SeesOf(v)'
  BY <1>0, <1>1, <1>6 DEF Respond, Goto, shared, InPage
<1>7. CASE Tick \/ UNCHANGED vars
  BY <1>1, <1>7 DEF Tick, vars, shared, history
<1> QED
  BY <1>2, <1>3, <1>4, <1>5, <1>6, <1>7 DEF Next, Status, Inside

\* The steps of a worker.
Step(w) == CountLoad(w) \/ CountStore(w) \/ Enter(w) \/ Inside(w) \/ Respond(w)

\* Those are all the steps there are, but for the clock's.
LEMMA StepOfWorker == Next <=> Tick \/ \E w \in Workers : Step(w)
BY DEF Next, Status, Step, Inside

\* A page is not touched by the other workers, except that it sees the counter change.
LEMMA StepApart ==
    ASSUME AInv, NEW v \in Workers, NEW w \in Workers, v # w, Step(w)
    PROVE  pc'[v] = pc[v] /\ page'[v] = page[v] /\ seen[v] \subseteq seen'[v]
<1>0. /\ page \in [Workers -> Page] /\ pc \in [Workers -> Pc]
      /\ seen \in [Workers -> SUBSET Count]
  BY DEF AInv, Typed
<1>1. CASE CountLoad(w)
  BY <1>0, <1>1 DEF CountLoad, Goto
<1>2. CASE CountStore(w)
  BY <1>0, <1>2 DEF CountStore, Goto, See
<1>3. CASE Enter(w)
  BY <1>0, <1>3 DEF Enter, Goto
<1>4. CASE Inside(w)
  <2>1. /\ pc' = [pc EXCEPT ![w] = pc'[w]] /\ page' = [page EXCEPT ![w] = page'[w]]
        /\ UNCHANGED history
    BY <1>4, InsideStep
  <2> QED
    BY <1>0, <2>1 DEF history
<1>5. CASE Respond(w)
  BY <1>0, <1>5 DEF Respond, Goto
<1> QED
  BY <1>1, <1>2, <1>3, <1>4, <1>5 DEF Step

\* The average stays that of a count the page has seen.
LEMMA AveragesStep == ASSUME AInv, [Next]_vars PROVE Averages'
<1>0. /\ page \in [Workers -> Page] /\ pc \in [Workers -> Pc]
      /\ seen \in [Workers -> SUBSET Count]
  BY DEF AInv, Typed
<1> SUFFICES ASSUME NEW v \in Workers PROVE AverageOf(v)'
  BY DEF Averages
<1> USE DEF SinceOn, CurrentOn, AverageOn, AccessOn, CountOn
<1>1. AverageOf(v)
  BY DEF AInv, Averages
<1>2. ASSUME pc'[v] = pc[v], page'[v] = page[v], seen[v] \subseteq seen'[v]
      PROVE  AverageOf(v)'
  <2>1. pc[v] \in SinceOn => page'[v].sinceStart = ToInt(page'[v].now - time_service_started_)
    BY <1>1, <1>2 DEF AverageOf
  <2>2. pc[v] \in AverageOn =>
            \E c \in seen'[v] : page'[v].average = PerSecond(c, page'[v].sinceStart)
    BY <1>1, <1>2 DEF AverageOf
  <2> QED
    BY <1>2, <2>1, <2>2 DEF AverageOf, time_service_started_
<1>3. CASE Tick \/ UNCHANGED vars
  BY <1>2, <1>3 DEF Tick, vars, shared, history
<1>4. ASSUME NEW w \in Workers, Step(w), v # w PROVE AverageOf(v)'
  BY <1>2, <1>4, StepApart
<1>5. ASSUME pc'[v] \notin SinceOn PROVE AverageOf(v)'
  BY <1>5 DEF AverageOf
<1>6. CASE CountLoad(v) \/ CountStore(v) \/ Enter(v) \/ Respond(v)
  BY <1>0, <1>5, <1>6 DEF CountLoad, CountStore, Enter, Respond, Goto
<1>7. CASE Name(v) \/ First(v) \/ InitAccess(v) \/ Now(v)
  BY <1>0, <1>5, <1>7 DEF Name, First, InitAccess, Now, Goto
<1>8. ASSUME UNCHANGED seen, pc[v] \in SinceOn, pc'[v] \notin AverageOn,
             page'[v].now = page[v].now, page'[v].sinceStart = page[v].sinceStart
      PROVE  AverageOf(v)'
  BY <1>1, <1>8 DEF AverageOf, time_service_started_
<1>9. ASSUME UNCHANGED seen, pc[v] \in AverageOn,
             page'[v].now = page[v].now, page'[v].sinceStart = page[v].sinceStart,
             page'[v].average = page[v].average
      PROVE  AverageOf(v)'
  <2>1. /\ page'[v].sinceStart = ToInt(page'[v].now - time_service_started_)
        /\ \E c \in seen'[v] : page'[v].average = PerSecond(c, page'[v].sinceStart)
    BY <1>1, <1>9 DEF AverageOf
  <2> QED
    BY <2>1 DEF AverageOf, time_service_started_
<1>10. CASE Since(v)
  <2> DEFINE a == ToInt(page[v].now - last_time_accessed)
             b == ToInt(page[v].now - time_service_started_)
  <2>1. page' = [page EXCEPT ![v] = [page[v] EXCEPT !.sinceAccess = a, !.sinceStart = b]]
    BY <1>0, <1>10 DEF Since
  <2>2. page[v] \in Page /\ pc'[v] = "current"
    BY <1>0, <1>10 DEF Since, Goto
  <2> HIDE DEF a, b
  <2>3. page'[v].sinceStart = b /\ page'[v].now = page[v].now
    BY <1>0, <2>1, <2>2 DEF Page
  <2> QED
    BY <2>2, <2>3 DEF AverageOf, b, time_service_started_
<1>11. CASE LoadRequests(v)
  BY <1>0, <1>8, <1>11 DEF LoadRequests, Page, history
<1>12. CASE LoadLast(v)
  BY <1>0, <1>8, <1>12 DEF LoadLast, Page, history
<1>13. CASE Current(v)
  BY <1>0, <1>8, <1>13 DEF Current, Goto, Page, history
<1>14. CASE Average(v)
  <2>1. PICK c \in Reread(v) :
            page' = [page EXCEPT ![v] = [page[v] EXCEPT !.average = PerSecond(c, page[v].sinceStart)]]
    BY <1>0, <1>14 DEF Average
  <2>2. pc[v] = "average" /\ pc'[v] = "access" /\ seen' = seen
    BY <1>0, <1>14 DEF Average, Goto, history
  <2>3. /\ page'[v].now = page[v].now /\ page'[v].sinceStart = page[v].sinceStart
        /\ page'[v].average = PerSecond(c, page[v].sinceStart)
    BY <1>0, <2>1 DEF Page
  <2>4. c \in seen[v]
    BY <2>2, RereadSeen DEF InPage
  <2>5. page[v].sinceStart = ToInt(page[v].now - time_service_started_)
    BY <1>1, <2>2 DEF AverageOf
  <2>6. page'[v].sinceStart = ToInt(page'[v].now - time_service_started_)
    BY <2>3, <2>5
  <2>7. \E d \in seen'[v] : page'[v].average = PerSecond(d, page'[v].sinceStart)
    BY <2>2, <2>3, <2>4
  <2> QED
    BY <2>6, <2>7 DEF AverageOf, time_service_started_
<1>15. CASE SaveAccess(v)
  BY <1>0, <1>9, <1>15 DEF SaveAccess, history
<1>16. CASE SaveCount(v)
  BY <1>0, <1>9, <1>16 DEF SaveCount, history
<1>17. CASE Render(v)
  <2>0. PICK a, b : page' = [page EXCEPT ![v].shown = a, ![v].name = b]
    BY <1>17 DEF Render
  <2>1. page' = [page EXCEPT ![v] = [page[v] EXCEPT !.shown = a, !.name = b]]
    BY <1>0, <2>0
  <2>2. /\ page'[v].now = page[v].now /\ page'[v].sinceStart = page[v].sinceStart
        /\ page'[v].average = page[v].average
    BY <1>0, <2>1 DEF Page
  <2>3. pc[v] = "render" /\ UNCHANGED seen
    BY <1>17 DEF Render, history
  <2> QED
    BY <1>9, <2>2, <2>3
<1> QED
  BY <1>3, <1>4, <1>6, <1>7, <1>10, <1>11, <1>12, <1>13, <1>14, <1>15, <1>16, <1>17,
     StepOfWorker DEF Step, Inside

\* All of it holds at the start.
LEMMA AInvInit == Init => AInv
<1> SUFFICES ASSUME Init PROVE AInv
  OBVIOUS
<1>1. MaxRequests \in Nat /\ Second \in Nat \ {0} /\ 0 \in Count
  BY HalfType DEF Count
<1>2. Typed
  <2>1. clock \in Nat /\ last_time_accessed \in Nat \cup {NotADateTime}
    BY <1>1 DEF Init
  <2>2. page \in [Workers -> Page] /\ pc \in [Workers -> Pc] /\ reg \in [Workers -> Nat]
        /\ seen \in [Workers -> SUBSET Count] /\ \A w \in Workers : pc[w] = "idle"
    BY BlankType DEF Init, Pc
  <2>3. previous \in [time : Nat, requests : Count, quiet : BOOLEAN] /\ raced \in BOOLEAN
    BY <1>1 DEF Init, time_service_started_
  <2> QED
    BY <1>1, <2>1, <2>2, <2>3 DEF Init, Typed
<1>3. \A w \in Workers : pc[w] = "idle" /\ page[w] = Blank
  BY DEF Init
<1>4. Sees /\ Averages
  BY <1>3 DEF Sees, SeesOf, Averages, AverageOf, InPage, SinceOn, CurrentOn, AverageOn,
              AccessOn, CountOn
<1> QED
  BY <1>2, <1>4 DEF AInv

\* An average that fits is the rate of one of the counts the page has seen.
LEMMA AInvHonest == AInv => AverageHonest
<1> SUFFICES ASSUME AInv, NEW w \in Workers, NEW up,
                    up = page[w].now - time_service_started_,
                    pc[w] = "rendered", \A c \in seen[w] : FitsInt(c, up)
             PROVE  \E c \in seen[w] : page[w].average = Rate(c, up)
  BY DEF AverageHonest
<1>1. page[w].sinceStart = ToInt(up)
  BY DEF AInv, Averages, AverageOf, SinceOn
<1>2. PICK c \in seen[w] : page[w].average = PerSecond(c, page[w].sinceStart)
  BY DEF AInv, Averages, AverageOf, SinceOn, CurrentOn, AverageOn
<1>3. c \in Count /\ FitsInt(c, up)
  BY DEF AInv, Typed
<1>4. PerSecond(c, up) = Rate(c, up) /\ ToInt(up) = up
  BY <1>3, PerSecondFits
<1> QED
  BY <1>1, <1>2, <1>4

\* The average on a page is that of a count the counter had while the page was
\* made, over the time since BaseCore was constructed (BaseCore.cpp:53-55).
THEOREM AverageIsHonest == Spec => []AverageHonest
<1>1. AInv /\ [Next]_vars => AInv'
  BY TypeStep, SeesStep, AveragesStep DEF AInv
<1> QED
  BY AInvInit, <1>1, AInvHonest, PTL DEF Spec

-----------------------------------------------------------------------------
(* The current rate.                                                       *)

\* Nothing but a second page or a second ++ ends being alone.
LEMMA AloneStep ==
    ASSUME AInv, Alone, [Next]_vars, ~raced' PROVE Alone'
<1>0. /\ pc \in [Workers -> Pc] /\ reg \in [Workers -> Nat]
      /\ request_processed_ \in Nat
  BY HalfType DEF AInv, Typed, Count
<1>1. CASE Tick \/ UNCHANGED vars
  BY <1>1 DEF Tick, vars, shared, history, Alone
<1>2. ASSUME NEW w \in Workers, CountLoad(w) PROVE Alone'
  BY <1>0, <1>2 DEF CountLoad, Goto, shared, Alone, InPage
<1>3. ASSUME NEW w \in Workers, CountStore(w) PROVE Alone'
  BY <1>0, <1>3 DEF CountStore, Goto, Alone, InPage
<1>4. ASSUME NEW w \in Workers, Enter(w) PROVE Alone'
  BY <1>0, <1>4 DEF Enter, Goto, shared, Alone, InPage
<1>5. ASSUME NEW w \in Workers, Inside(w) PROVE Alone'
  <2>1. /\ pc[w] \in InPage /\ UNCHANGED <<request_processed_, reg>>
        /\ pc' = [pc EXCEPT ![w] = pc'[w]] /\ pc'[w] \in InPage
    BY <1>5, InsideStep
  <2>2. pc[w] # "store" /\ pc'[w] # "store"
    BY <2>1 DEF InPage
  <2> QED
    BY <1>0, <2>1, <2>2 DEF Alone
<1>6. ASSUME NEW w \in Workers, Respond(w) PROVE Alone'
  BY <1>0, <1>6 DEF Respond, Goto, shared, Alone, InPage
<1> QED
  BY <1>1, <1>2, <1>3, <1>4, <1>5, <1>6, StepOfWorker DEF Step

\* The time of the last page is kept.
LEMMA TimeStep ==
    ASSUME AInv, Alone, TimeKept, [Next]_vars, ~raced' PROVE TimeKept'
<1> USE DEF SinceOn, CurrentOn, AverageOn, AccessOn, CountOn
<1>0. /\ page \in [Workers -> Page] /\ pc \in [Workers -> Pc]
      /\ clock \in Nat /\ previous.time \in Nat
      /\ last_time_accessed \in Nat \cup {NotADateTime}
      /\ previous.time <= clock
  BY DEF AInv, Typed, TimeKept
<1>1. CASE Tick
  <2>1. /\ clock' = clock + 1
        /\ UNCHANGED <<last_time_accessed, pc, page, previous>>
    BY <1>1 DEF Tick, shared, history
  <2>2. \A n : n \in previous.time..clock => n \in (previous.time)'..clock'
    BY <1>0, <2>1
  <2>3. (previous.time)' <= clock'
    BY <1>0, <2>1
  <2>4. ASSUME NEW v \in Workers PROVE TimeOf(v)'
    <3>1. TimeOf(v)
      BY DEF TimeKept
    <3> QED
      BY <2>1, <2>2, <3>1 DEF TimeOf
  <2>5. (\A w \in Workers : pc'[w] \notin AccessOn) => LastTime'
    BY <2>1 DEF TimeKept, LastTime, time_service_started_
  <2> QED
    BY <2>3, <2>4, <2>5 DEF TimeKept
<1>2. ASSUME UNCHANGED <<clock, last_time_accessed, previous>>,
             NEW w \in Workers, pc[w] \notin AccessOn, pc' = [pc EXCEPT ![w] = pc'[w]],
             page' = [page EXCEPT ![w] = page'[w]],
             pc'[w] \notin InPage \/ pc'[w] \in {"name", "first"}
      PROVE  TimeKept'
  <2>1. pc'[w] \notin {"init", "now", "since"} \cup SinceOn /\ pc'[w] \notin AccessOn
    BY <1>2 DEF InPage
  <2>2. ASSUME NEW v \in Workers PROVE TimeOf(v)'
    <3>1. CASE v = w
      BY <2>1, <3>1 DEF TimeOf
    <3>2. CASE v # w
      <4>1. pc'[v] = pc[v] /\ page'[v] = page[v]
        BY <1>0, <1>2, <3>2
      <4>2. TimeOf(v)
        BY DEF TimeKept
      <4> QED
        BY <1>2, <4>1, <4>2 DEF TimeOf
    <3> QED
      BY <3>1, <3>2
  <2>3. (\A v \in Workers : pc'[v] \notin AccessOn) => LastTime'
    <3> SUFFICES ASSUME \A v \in Workers : pc'[v] \notin AccessOn PROVE LastTime'
      OBVIOUS
    <3>1. \A v \in Workers : pc[v] \notin AccessOn
      BY <1>0, <1>2
    <3>2. LastTime
      BY <3>1 DEF TimeKept
    <3> QED
      BY <1>2, <3>2 DEF LastTime, time_service_started_
  <2> QED
    BY <1>0, <1>2, <2>2, <2>3 DEF TimeKept
<1>3. ASSUME NEW w \in Workers, CountLoad(w) \/ CountStore(w) \/ Enter(w) PROVE TimeKept'
  <2>1. /\ pc[w] \notin AccessOn
        /\ pc'[w] \notin InPage \/ pc'[w] \in {"name", "first"}
        /\ pc' = [pc EXCEPT ![w] = pc'[w]]
        /\ UNCHANGED <<clock, last_time_accessed, previous, page>>
    BY <1>0, <1>3 DEF CountLoad, CountStore, Enter, Goto, shared, InPage
  <2>2. page' = [page EXCEPT ![w] = page'[w]]
    BY <1>0, <2>1
  <2> QED
    BY <1>2, <2>1, <2>2
<1>4. ASSUME NEW w \in Workers, Inside(w) PROVE TimeKept'
  <2>1. /\ pc[w] \in InPage /\ UNCHANGED <<clock, previous>>
        /\ pc' = [pc EXCEPT ![w] = pc'[w]] /\ pc'[w] \in InPage
        /\ page' = [page EXCEPT ![w] = page'[w]]
    BY <1>4, InsideStep DEF history
  <2>2. TimeOf(w)
    BY DEF TimeKept
  <2>3. \A v \in Workers \ {w} : pc[v] \notin InPage /\ pc'[v] = pc[v]
    BY <1>0, <2>1 DEF Alone
  <2>4. pc[w] \notin AccessOn => LastTime
    <3>1. pc[w] \notin AccessOn => \A v \in Workers : pc[v] \notin AccessOn
      BY <2>3 DEF InPage
    <3> QED
      BY <3>1 DEF TimeKept
  <2>5. SUFFICES TimeOf(w)' /\ (pc'[w] \notin AccessOn => LastTime')
    <3>1. ASSUME NEW v \in Workers, v # w PROVE TimeOf(v)'
      BY <2>3, <3>1 DEF TimeOf, InPage
    <3> QED
      BY <1>0, <2>1, <2>5, <3>1 DEF TimeKept
  <2>6. ASSUME UNCHANGED last_time_accessed, pc[w] \in AccessOn <=> pc'[w] \in AccessOn,
               page'[w].now = page[w].now, page'[w].sinceAccess = page[w].sinceAccess,
               pc'[w] # "init",
               pc'[w] \in SinceOn => pc[w] \in SinceOn,
               pc'[w] \in {"now", "since"} => pc[w] = pc'[w]
        PROVE  TimeOf(w)' /\ (pc'[w] \notin AccessOn => LastTime')
    <3>1. TimeOf(w)'
      BY <2>1, <2>2, <2>6 DEF TimeOf
    <3> QED
      BY <2>1, <2>4, <2>6, <3>1 DEF LastTime, time_service_started_
  <2>7. CASE Name(w)
    BY <1>0, <2>6, <2>7 DEF Name, Goto
  <2>8. CASE First(w)
    BY <1>0, <2>1, <2>4, <2>8 DEF First, Goto, shared, TimeOf, LastTime, time_service_started_
  <2>9. CASE InitAccess(w)
    <3>1. /\ pc[w] = "init" /\ last_time_accessed = NotADateTime
          /\ last_time_accessed' = 0 /\ pc'[w] = "now"
      BY <1>0, <2>2, <2>9 DEF InitAccess, Goto, TimeOf, time_service_started_
    <3>2. previous.time = 0
      BY <1>0, <2>4, <3>1 DEF LastTime, time_service_started_, NotADateTime
    <3> QED
      BY <2>1, <3>1, <3>2 DEF TimeOf, LastTime, NotADateTime
  <2>10. CASE Now(w)
    <3>1. /\ pc[w] = "now" /\ pc'[w] = "since" /\ page'[w].now = clock
          /\ UNCHANGED last_time_accessed
      BY <1>0, <2>10 DEF Now, Goto, Page, shared
    <3>2. clock \in previous.time..clock
      BY <1>0
    <3> QED
      BY <2>1, <2>2, <2>4, <3>1, <3>2 DEF TimeOf, LastTime, time_service_started_, NotADateTime
  <2>11. CASE Since(w)
    <3> DEFINE a == ToInt(page[w].now - last_time_accessed)
               b == ToInt(page[w].now - time_service_started_)
    <3>1. page' = [page EXCEPT ![w] = [page[w] EXCEPT !.sinceAccess = a, !.sinceStart = b]]
      BY <1>0, <2>11 DEF Since
    <3>2. /\ page[w] \in Page /\ pc[w] = "since" /\ pc'[w] = "current"
          /\ UNCHANGED last_time_accessed
      BY <1>0, <2>11 DEF Since, Goto, shared
    <3>3. last_time_accessed = previous.time
      BY <2>2, <2>4, <3>2 DEF TimeOf, LastTime
    <3>4. a = ToInt(page[w].now - previous.time)
      BY <3>3
    <3> HIDE DEF a, b
    <3>5. page'[w].sinceAccess = a /\ page'[w].now = page[w].now
      BY <1>0, <3>1, <3>2 DEF Page
    <3> QED
      BY <2>1, <2>2, <2>4, <3>2, <3>4, <3>5
         DEF TimeOf, LastTime, time_service_started_, NotADateTime
  <2>12. CASE LoadRequests(w)
    BY <1>0, <2>6, <2>12 DEF LoadRequests, Page, shared
  <2>13. CASE LoadLast(w)
    BY <1>0, <2>6, <2>13 DEF LoadLast, Page, shared
  <2>14. CASE Current(w)
    BY <1>0, <2>6, <2>14 DEF Current, Goto, Page, shared
  <2>15. CASE Average(w)
    BY <1>0, <2>6, <2>15 DEF Average, Goto, Page, shared
  <2>16. CASE SaveAccess(w)
    <3>1. /\ pc[w] = "access" /\ pc'[w] = "count" /\ last_time_accessed' = page[w].now
          /\ UNCHANGED page
      BY <1>0, <2>16 DEF SaveAccess, Goto
    <3>2. page[w].now # NotADateTime
      BY <1>0 DEF Page, NotADateTime
    <3> QED
      BY <2>1, <2>2, <3>1, <3>2 DEF TimeOf, NotADateTime
  <2>17. CASE SaveCount(w)
    BY <1>0, <2>6, <2>17 DEF SaveCount, Goto
  <2>18. CASE Render(w)
    <3>1. PICK a, b : page' = [page EXCEPT ![w].shown = a, ![w].name = b]
      BY <2>18 DEF Render
    <3>2. page' = [page EXCEPT ![w] = [page[w] EXCEPT !.shown = a, !.name = b]]
      BY <1>0, <3>1
    <3>3. page'[w].now = page[w].now /\ page'[w].sinceAccess = page[w].sinceAccess
      BY <1>0, <3>2 DEF Page
    <3>4. pc[w] = "render" /\ pc'[w] = "rendered" /\ UNCHANGED last_time_accessed
      BY <1>0, <2>18 DEF Render, Goto, shared
    <3> QED
      BY <2>6, <3>3, <3>4
  <2> QED
    BY <1>4, <2>7, <2>8, <2>9, <2>10, <2>11, <2>12, <2>13, <2>14, <2>15, <2>16, <2>17, <2>18
       DEF Inside
<1>5. ASSUME NEW w \in Workers, Respond(w) PROVE TimeKept'
  <2>1. /\ pc[w] = "rendered" /\ pc' = [pc EXCEPT ![w] = "idle"]
        /\ UNCHANGED <<clock, last_time_accessed>>
        /\ previous'.time = page[w].now
    BY <1>5 DEF Respond, Goto, shared
  <2>2. last_time_accessed = page[w].now /\ page[w].now <= clock
    <3>1. TimeOf(w) /\ page[w].now \in previous.time..clock
      BY <2>1 DEF TimeKept, TimeOf
    <3> QED
      BY <1>0, <2>1, <3>1 DEF TimeOf
  <2>3. \A v \in Workers : pc'[v] \notin InPage
    BY <1>0, <2>1 DEF Alone, InPage
  <2> QED
    BY <2>1, <2>2, <2>3 DEF TimeKept, TimeOf, LastTime, InPage
<1>6. CASE UNCHANGED vars
  BY <1>6 DEF vars, shared, history, TimeKept, TimeOf, LastTime, time_service_started_
<1> QED
  BY <1>1, <1>3, <1>4, <1>5, <1>6, StepOfWorker DEF Step

\* What a ++ that is not raced does to the counter.
LEMMA CountStoreAdds ==
    ASSUME AInv, Alone, NEW w \in Workers, CountStore(w)
    PROVE  request_processed_' = request_processed_ + 1 /\ request_processed_ \in Nat
<1>1. reg[w] = request_processed_ /\ reg[w] < MaxRequests
  BY DEF CountStore, Alone, AInv, Typed
<1>2. MaxRequests \in Nat /\ Second \in Nat \ {0} /\ MaxRequests * Second < ULongMod
      /\ ULongMod \in Nat /\ request_processed_ \in Nat
  BY HalfType DEF AInv, Typed, Count
<1>3. MaxRequests <= MaxRequests * Second /\ MaxRequests * Second \in Nat
  BY <1>2
<1>4. reg[w] + 1 \in 0..(ULongMod - 1)
  BY <1>1, <1>2, <1>3
<1> QED
  BY <1>1, <1>2, <1>4, ToULongFits DEF CountStore

\* The count of the last page is kept.
LEMMA CountStep ==
    ASSUME AInv, Alone, CountKept, CurrentIs, [Next]_vars, ~raced' PROVE CountKept'
<1> USE DEF SinceOn, CurrentOn, AverageOn, AccessOn, CountOn
<1>0. /\ page \in [Workers -> Page] /\ pc \in [Workers -> Pc]
      /\ seen \in [Workers -> SUBSET Count] /\ Count \subseteq Nat
      /\ request_processed_ \in Nat /\ last_time_request_processed \in Nat
      /\ last_time_request_processed <= request_processed_
  BY HalfType DEF AInv, Typed, Count, CountKept
<1>1. CASE Tick \/ UNCHANGED vars
  BY <1>1 DEF Tick, vars, shared, history, CountKept, CountOf
<1>2. ASSUME NEW w \in Workers, CountLoad(w) PROVE CountKept'
  <2>1. \A v \in Workers : /\ pc'[v] \in InPage <=> pc[v] \in InPage
                           /\ pc'[v] \in CountOn <=> pc[v] \in CountOn
    BY <1>0, <1>2 DEF CountLoad, Goto, InPage
  <2>2. UNCHANGED <<request_processed_, last_time_request_processed, seen, previous>>
    BY <1>2 DEF CountLoad, shared
  <2> QED
    BY <2>1, <2>2 DEF CountKept, CountOf, InPage
<1>3. ASSUME NEW w \in Workers, CountStore(w) PROVE CountKept'
  <2>1. \A v \in Workers : /\ pc'[v] \in InPage <=> pc[v] \in InPage
                           /\ pc'[v] \in CountOn <=> pc[v] \in CountOn
    BY <1>0, <1>3 DEF CountStore, Goto, InPage
  <2>2. /\ request_processed_' = request_processed_ + 1
        /\ UNCHANGED <<last_time_request_processed, previous>>
    BY <1>3, CountStoreAdds DEF CountStore
  <2>3. last_time_request_processed' <= request_processed_'
    BY <1>0, <2>2
  <2>4. (\A v \in Workers : pc'[v] \notin CountOn) =>
            (previous'.quiet => last_time_request_processed' = previous'.requests)
    BY <2>1, <2>2 DEF CountKept
  <2>5. ASSUME NEW v \in Workers PROVE CountOf(v)'
    <3>1. CASE pc[v] \notin InPage
      BY <2>1, <3>1 DEF CountOf, InPage
    <3>2. CASE pc[v] \in InPage
      <4>1. seen'[v] = seen[v] \cup {request_processed_'}
        BY <1>3, <3>2 DEF CountStore, See
      <4>2. CountOf(v)
        BY DEF CountKept
      <4>3. \A c \in seen'[v] : c <= request_processed_'
        <5>1. \A c \in seen[v] : c \in Nat /\ c <= request_processed_
          BY <1>0, <3>2, <4>2 DEF CountOf
        <5>2. \A c \in seen[v] : c <= request_processed_'
          BY <1>0, <2>2, <5>1
        <5> QED
          BY <1>0, <2>2, <4>1, <5>2, request_processed_' <= request_processed_'
      <4>4. pc'[v] \notin CountOn => \A c \in seen'[v] : last_time_request_processed' <= c
        <5>1. pc[v] \notin CountOn => \A c \in seen[v] : last_time_request_processed <= c
          BY <3>2, <4>2 DEF CountOf
        <5>2. pc'[v] \notin CountOn => \A c \in seen[v] : last_time_request_processed' <= c
          BY <2>1, <2>2, <5>1
        <5> HIDE DEF CountOn
        <5> QED
          BY <2>3, <4>1, <5>2
      <4>5. pc'[v] \in CountOn => last_time_request_processed' \in seen'[v]
        BY <2>1, <2>2, <3>2, <4>1, <4>2 DEF CountOf
      <4> QED
        BY <4>3, <4>4, <4>5 DEF CountOf
    <3> QED
      BY <3>1, <3>2
  <2> QED
    BY <2>3, <2>4, <2>5 DEF CountKept
<1>4. ASSUME NEW w \in Workers, Enter(w) PROVE CountKept'
  <2>1. /\ pc' = [pc EXCEPT ![w] = "name"] /\ seen' = [seen EXCEPT ![w] = {request_processed_}]
        /\ UNCHANGED <<request_processed_, last_time_request_processed, previous>>
        /\ pc[w] = "idle" /\ \A v \in Workers : pc[v] \notin InPage
    BY <1>4 DEF Enter, Goto, shared
  <2>2. ASSUME NEW v \in Workers PROVE CountOf(v)'
    <3>1. CASE v # w
      BY <1>0, <2>1, <3>1 DEF CountOf
    <3>2. CASE v = w
      <4>1. pc'[v] \notin CountOn /\ \A c \in seen'[v] : c = request_processed_
        BY <1>0, <2>1, <3>2
      <4> QED
        BY <1>0, <2>1, <4>1 DEF CountOf
    <3> QED
      BY <3>1, <3>2
  <2>3. \A v \in Workers : pc[v] \notin CountOn
    BY <2>1 DEF InPage
  <2> QED
    BY <2>1, <2>2, <2>3 DEF CountKept
<1>5. ASSUME NEW w \in Workers, Inside(w) PROVE CountKept'
  <2>1. /\ pc[w] \in InPage /\ UNCHANGED <<request_processed_, seen, previous>>
        /\ pc' = [pc EXCEPT ![w] = pc'[w]] /\ pc'[w] \in InPage
    BY <1>5, InsideStep DEF history
  <2>2. CountOf(w)
    BY DEF CountKept
  <2>3. \A v \in Workers \ {w} : pc[v] \notin InPage /\ pc'[v] = pc[v]
    BY <1>0, <2>1 DEF Alone
  <2>4. (\A v \in Workers : pc'[v] \notin CountOn) <=> pc'[w] \notin CountOn
    BY <2>3 DEF InPage
  <2>5. (\A v \in Workers : pc[v] \notin CountOn) <=> pc[w] \notin CountOn
    BY <2>3 DEF InPage
  <2>6. \A v \in Workers : v # w => CountOf(v)'
    BY <2>3 DEF CountOf
  <2>7. CASE SaveCount(w)
    <3>1. /\ pc[w] = "count" /\ pc'[w] = "render"
          /\ last_time_request_processed' \in Reread(w)
      BY <1>0, <2>7 DEF SaveCount, Goto
    <3>2. last_time_request_processed' \in seen[w]
      BY <2>1, <3>1, RereadSeen
    <3>3. last_time_request_processed' <= request_processed_
      BY <2>1, <2>2, <3>2 DEF CountOf
    <3>4. CountOf(w)'
      BY <2>1, <2>2, <3>1, <3>2 DEF CountOf
    <3> QED
      BY <2>1, <2>4, <2>6, <3>1, <3>3, <3>4 DEF CountKept
  <2>8. CASE ~SaveCount(w)
    <3>1. /\ UNCHANGED last_time_request_processed
          /\ pc'[w] \in CountOn <=> pc[w] \in CountOn
      BY <1>0, <1>5, <2>8 DEF Inside, Name, First, InitAccess, Now, Since, LoadRequests,
         LoadLast, Current, Average, SaveAccess, Render, Goto, shared
    <3>2. CountOf(w)'
      BY <2>1, <2>2, <3>1 DEF CountOf
    <3> QED
      BY <1>0, <2>1, <2>4, <2>5, <2>6, <3>1, <3>2 DEF CountKept
  <2> QED
    BY <2>7, <2>8
<1>6. ASSUME NEW w \in Workers, Respond(w) PROVE CountKept'
  <2>1. /\ pc[w] = "rendered" /\ pc' = [pc EXCEPT ![w] = "idle"]
        /\ UNCHANGED <<request_processed_, last_time_request_processed>>
        /\ previous'.requests = page[w].shown
        /\ previous'.quiet = (Cardinality(seen[w]) = 1)
    BY <1>6 DEF Respond, Goto, shared
  <2>2. last_time_request_processed \in seen[w] /\ page[w].shown \in seen[w]
    BY <2>1 DEF CountKept, CountOf, CurrentIs, CurrentOf, InPage
  <2>3. Cardinality(seen[w]) = 1 => last_time_request_processed = page[w].shown
    <3>1. IsFiniteSet(Count)
      BY HalfType, FS_Interval DEF Count
    <3>2. IsFiniteSet(seen[w])
      BY <1>0, <3>1, FS_Subset
    <3> QED
      BY <2>2, <3>2, FS_Singleton
  <2>4. \A v \in Workers : pc'[v] \notin InPage
    BY <1>0, <2>1 DEF Alone, InPage
  <2> QED
    BY <1>0, <2>1, <2>3, <2>4 DEF CountKept, CountOf
<1> QED
  BY <1>1, <1>2, <1>3, <1>4, <1>5, <1>6, StepOfWorker DEF Step

\* What the page has loaded stays what it was, and so does its rate.
LEMMA CurrentStep ==
    ASSUME AInv, Alone, CountKept, CurrentIs, [Next]_vars, ~raced' PROVE CurrentIs'
<1> USE DEF SinceOn, CurrentOn, AverageOn, AccessOn, CountOn
<1>0. /\ page \in [Workers -> Page] /\ pc \in [Workers -> Pc]
      /\ seen \in [Workers -> SUBSET Count] /\ Count \subseteq Nat
      /\ request_processed_ \in Nat /\ Loaded \subseteq Int
  BY HalfType DEF AInv, Typed, Count, Loaded, NotLoaded
<1>1. CASE Tick \/ UNCHANGED vars
  BY <1>1 DEF Tick, vars, shared, history, CurrentIs, CurrentOf, InPage, NotLoaded
<1>2. ASSUME NEW w \in Workers, CountLoad(w) PROVE CurrentIs'
  <2>1. \A v \in Workers : pc'[v] = pc[v] \/ pc'[v] \notin InPage
    BY <1>0, <1>2 DEF CountLoad, Goto, InPage
  <2>2. UNCHANGED <<page, seen, previous>>
    BY <1>2 DEF CountLoad
  <2> QED
    BY <2>1, <2>2 DEF CurrentIs, CurrentOf, InPage, NotLoaded
<1>3. ASSUME NEW w \in Workers, CountStore(w) PROVE CurrentIs'
  <2>1. \A v \in Workers : pc'[v] = pc[v] \/ pc'[v] \notin InPage
    BY <1>0, <1>3 DEF CountStore, Goto, InPage
  <2>2. UNCHANGED <<page, previous>> /\ request_processed_' = request_processed_ + 1
    BY <1>3, CountStoreAdds DEF CountStore
  <2> SUFFICES ASSUME NEW v \in Workers, pc'[v] = pc[v], pc[v] \in InPage PROVE CurrentOf(v)'
    BY <2>1 DEF CurrentIs, CurrentOf, InPage
  <2>3. CurrentOf(v) /\ SeesOf(v)
    BY DEF CurrentIs, AInv, Sees
  <2>4. seen'[v] = seen[v] \cup {request_processed_'}
    BY <1>0, <1>3 DEF CountStore, See
  <2>5. page[v].last # NotLoaded =>
            /\ \A c \in seen[v] : page[v].last <= c
            /\ previous.quiet => page[v].last = previous.requests
    BY <2>3 DEF CurrentOf
  <2>6. page[v].last # NotLoaded => page[v].last <= request_processed_'
    <3>1. page[v].last # NotLoaded => page[v].last <= request_processed_
      BY <2>3, <2>5 DEF SeesOf
    <3>2. page[v].last \in Int
      BY <1>0 DEF Page
    <3> QED
      BY <1>0, <2>2, <3>1, <3>2
  <2>7. page'[v].last # NotLoaded =>
            /\ \A c \in seen'[v] : page'[v].last <= c
            /\ previous'.quiet => page'[v].last = previous'.requests
    BY <2>2, <2>4, <2>5, <2>6
  <2>8. seen[v] \subseteq seen'[v]
    BY <2>4
  <2> QED
    BY <2>2, <2>3, <2>7, <2>8 DEF CurrentOf, InPage, NotLoaded
<1>4. ASSUME NEW w \in Workers, Enter(w) PROVE CurrentIs'
  <2>1. /\ pc' = [pc EXCEPT ![w] = "name"] /\ UNCHANGED page
        /\ pc[w] = "idle" /\ \A v \in Workers : pc[v] \notin InPage
    BY <1>4 DEF Enter, Goto
  <2>2. page'[w].last = NotLoaded
    BY <2>1 DEF AInv, Sees, SeesOf, Blank
  <2>3. \A v \in Workers : pc'[v] \in InPage => v = w /\ pc'[v] = "name"
    BY <1>0, <2>1
  <2> QED
    BY <2>2, <2>3 DEF CurrentIs, CurrentOf, InPage, NotLoaded
<1>5. ASSUME NEW w \in Workers, Inside(w) PROVE CurrentIs'
  <2>1. /\ pc[w] \in InPage /\ UNCHANGED <<request_processed_, seen, previous>>
        /\ pc' = [pc EXCEPT ![w] = pc'[w]] /\ pc'[w] \in InPage
    BY <1>5, InsideStep DEF history
  <2>2. CurrentOf(w) /\ CountOf(w) /\ SeesOf(w)
    BY DEF CurrentIs, CountKept, AInv, Sees
  <2>3. \A v \in Workers \ {w} : pc[v] \notin InPage /\ pc'[v] = pc[v]
    BY <1>0, <2>1 DEF Alone
  <2>4. SUFFICES CurrentOf(w)'
    BY <2>3, <2>4 DEF CurrentIs, CurrentOf, InPage
  <2>5. ASSUME page'[w].last = page[w].last, pc'[w] \notin CurrentOn PROVE CurrentOf(w)'
    BY <2>1, <2>2, <2>5 DEF CurrentOf, NotLoaded
  <2>6. ASSUME page'[w].last = page[w].last, page'[w].requests = page[w].requests,
               page'[w].sinceAccess = page[w].sinceAccess,
               page'[w].current = page[w].current,
               pc[w] \in CurrentOn, pc'[w] # "rendered"
        PROVE  CurrentOf(w)'
    BY <2>1, <2>2, <2>6 DEF CurrentOf, NotLoaded
  <2>7. CASE Name(w) \/ First(w) \/ InitAccess(w)
    BY <1>0, <2>5, <2>7 DEF Name, First, InitAccess, Goto
  <2>8. CASE Now(w)
    BY <1>0, <2>5, <2>8 DEF Now, Goto, Page
  <2>9. CASE Since(w)
    <3>1. PICK a, b : page' = [page EXCEPT ![w].sinceAccess = a, ![w].sinceStart = b]
      BY <2>9 DEF Since
    <3>2. page' = [page EXCEPT ![w] = [page[w] EXCEPT !.sinceAccess = a, !.sinceStart = b]]
      BY <1>0, <3>1
    <3>3. page'[w].last = page[w].last
      BY <1>0, <3>2 DEF Page
    <3>4. pc'[w] = "current"
      BY <1>0, <2>9 DEF Since, Goto
    <3> QED
      BY <2>5, <3>3, <3>4
  <2>10. CASE LoadRequests(w)
    BY <1>0, <2>5, <2>10 DEF LoadRequests, Page
  <2>11. CASE LoadLast(w)
    <3>1. /\ pc[w] = "current" /\ pc'[w] = "current"
          /\ page'[w].last = last_time_request_processed
      BY <1>0, <2>11 DEF LoadLast, Page
    <3>2. \A c \in seen[w] : last_time_request_processed <= c
      BY <2>1, <2>2, <3>1 DEF CountOf
    <3>3. \A v \in Workers : pc[v] \notin CountOn
      BY <2>3, <3>1 DEF InPage
    <3>4. previous.quiet => last_time_request_processed = previous.requests
      BY <3>3 DEF CountKept
    <3> QED
      BY <2>1, <3>1, <3>2, <3>4 DEF CurrentOf
  <2>12. CASE Current(w)
    <3>1. /\ pc[w] = "current" /\ pc'[w] = "average"
          /\ page' = [page EXCEPT ![w] = [page[w] EXCEPT !.current =
                         PerSecond(page[w].requests - page[w].last, page[w].sinceAccess)]]
          /\ page[w].sinceAccess = 0 \/ NotLoaded \notin {page[w].requests, page[w].last}
      BY <1>0, <2>12 DEF Current, Goto
    <3>2. /\ page'[w].last = page[w].last /\ page'[w].requests = page[w].requests
          /\ page'[w].sinceAccess = page[w].sinceAccess
          /\ page'[w].current = PerSecond(page[w].requests - page[w].last, page[w].sinceAccess)
      BY <1>0, <3>1 DEF Page
    <3>3. page'[w].current = PerSecond(page'[w].requests - page'[w].last, page'[w].sinceAccess)
      BY <3>2
    <3>4. page'[w].sinceAccess # 0 => NotLoaded \notin {page'[w].requests, page'[w].last}
      BY <3>1, <3>2
    <3>5. page'[w].last # NotLoaded =>
            /\ \A c \in seen'[w] : page'[w].last <= c
            /\ previous'.quiet => page'[w].last = previous'.requests
      BY <2>1, <2>2, <3>2 DEF CurrentOf
    <3> QED
      BY <3>1, <3>3, <3>4, <3>5 DEF CurrentOf, NotLoaded
  <2>13. CASE Average(w)
    BY <1>0, <2>6, <2>13 DEF Average, Goto, Page
  <2>14. CASE SaveAccess(w) \/ SaveCount(w)
    BY <1>0, <2>6, <2>14 DEF SaveAccess, SaveCount, Goto
  <2>15. CASE Render(w)
    <3>1. PICK b : page' = [page EXCEPT ![w].shown = request_processed_, ![w].name = b]
      BY <2>15 DEF Render
    <3>2. page' = [page EXCEPT ![w] = [page[w] EXCEPT !.shown = request_processed_, !.name = b]]
      BY <1>0, <3>1
    <3>3. /\ page'[w].last = page[w].last /\ page'[w].requests = page[w].requests
          /\ page'[w].sinceAccess = page[w].sinceAccess
          /\ page'[w].current = page[w].current
          /\ page'[w].shown = request_processed_
      BY <1>0, <3>2 DEF Page
    <3>4. pc[w] = "render" /\ pc'[w] = "rendered"
      BY <1>0, <2>15 DEF Render, Goto
    <3>5. request_processed_ \in seen[w] /\ page[w].requests <= request_processed_
      <4>1. request_processed_ \in seen[w] /\ page[w].requests \in seen[w] \cup {NotLoaded}
        BY <2>1, <2>2 DEF SeesOf
      <4>2. \A c \in seen[w] : c <= request_processed_
        BY <2>1, <2>2 DEF CountOf
      <4>3. NotLoaded <= request_processed_
        BY <1>0 DEF NotLoaded
      <4> QED
        BY <4>1, <4>2, <4>3
    <3> QED
      BY <2>1, <2>2, <3>3, <3>4, <3>5 DEF CurrentOf, NotLoaded
  <2> QED
    BY <1>5, <2>7, <2>8, <2>9, <2>10, <2>11, <2>12, <2>13, <2>14, <2>15 DEF Inside
<1>6. ASSUME NEW w \in Workers, Respond(w) PROVE CurrentIs'
  <2>1. pc[w] = "rendered" /\ pc' = [pc EXCEPT ![w] = "idle"]
    BY <1>6 DEF Respond, Goto
  <2>2. \A v \in Workers : pc'[v] \notin InPage
    BY <1>0, <2>1 DEF Alone, InPage
  <2> QED
    BY <2>2 DEF CurrentIs, CurrentOf, InPage
<1> QED
  BY <1>1, <1>2, <1>3, <1>4, <1>5, <1>6, StepOfWorker DEF Step

\* A race is remembered.
LEMMA RacedStays == ASSUME AInv, [Next]_vars, raced PROVE raced'
<1>1. CASE Tick \/ UNCHANGED vars
  BY <1>1 DEF Tick, vars, history
<1>2. ASSUME NEW w \in Workers, Step(w) PROVE raced'
  <2>1. CASE Inside(w)
    BY <2>1, InsideStep DEF history
  <2> QED
    BY <1>2, <2>1 DEF Step, CountLoad, CountStore, Enter, Respond
<1> QED
  BY <1>1, <1>2, StepOfWorker

\* A rate is less for a smaller count, and is not more than it says.
LEMMA RateBounds ==
    ASSUME NEW n \in Nat, NEW m \in Nat, n <= m, NEW ms, FitsInt(m, ms)
    PROVE  FitsInt(n, ms) /\ Rate(n, ms) \in Nat /\ Rate(n, ms) * ms <= m * Second
<1> DEFINE h == IntMod \div 2  p == n * Second  q == m * Second
<1>0. h \in Nat \ {0} /\ Second \in Nat
  BY HalfType
<1>1. ms \in 0..(h - 1) /\ Rate(m, ms) \in 0..(h - 1)
  BY DEF FitsInt
<1>2. p \in Nat /\ q \in Nat /\ p <= q
  BY <1>0
<1>3. CASE ms = 0
  <2>1. Rate(n, ms) = 0 /\ 0 <= q
    BY <1>2, <1>3 DEF Rate
  <2> QED
    BY <1>0, <1>2, <1>3, <2>1 DEF FitsInt
<1>4. CASE ms # 0
  <2>1. Rate(n, ms) = p \div ms /\ Rate(m, ms) = q \div ms
    BY <1>4 DEF Rate
  <2>2. ms \in Nat \ {0}
    BY <1>0, <1>1, <1>4
  <2> HIDE DEF p, q, h
  <2>3. p \div ms \in Nat /\ q \div ms \in Nat /\ p \div ms <= q \div ms
        /\ (p \div ms) * ms <= p
    BY <1>2, <2>2
  <2> DEFINE a == p \div ms  b == q \div ms  c == a * ms
  <2>4. c \in Nat /\ c <= p
    BY <2>2, <2>3
  <2> HIDE DEF c
  <2>5. c <= q
    BY <1>2, <2>4
  <2> HIDE DEF a, b
  <2>6. a \in Nat /\ b \in 0..(h - 1) /\ a <= b
    BY <1>1, <2>1, <2>3 DEF a, b
  <2>7. a \in 0..(h - 1)
    BY <1>0, <2>6
  <2> QED
    BY <1>1, <2>1, <2>5, <2>6, <2>7 DEF FitsInt, a, c, q, h
<1> QED
  BY <1>3, <1>4

\* A current rate that fits makes sense.
LEMMA CInvHonest == AInv /\ CInv => CurrentHonest
<1> SUFFICES ASSUME AInv, CInv, ~raced, NEW w \in Workers, NEW ms, pc[w] = "rendered",
                    ms = page[w].now - previous.time, FitsInt(page[w].shown, ms)
             PROVE  /\ page[w].current >= 0
                    /\ page[w].current * ms <= page[w].shown * Second
                    /\ previous.quiet /\ Cardinality(seen[w]) = 1 =>
                          page[w].current = Rate(page[w].shown - previous.requests, ms)
  BY DEF CurrentHonest
<1> USE DEF SinceOn, CurrentOn, AverageOn, AccessOn, CountOn
<1> DEFINE s == page[w].shown
<1>0. s \in Count /\ page[w].requests \in Loaded /\ page[w].last \in Loaded
      /\ seen[w] \in SUBSET Count /\ Count \subseteq Nat /\ Second \in Nat
  BY HalfType DEF AInv, Typed, Page, Count
<1>1. page[w].sinceAccess = ms
  <2>1. page[w].sinceAccess = ToInt(ms)
    BY DEF CInv, TimeKept, TimeOf
  <2> QED
    BY <1>0, <2>1, PerSecondFits
<1>2. CurrentOf(w)
  BY DEF CInv, CurrentIs
<1>3. s \in seen[w] /\ page[w].requests <= s
      /\ page[w].current = PerSecond(page[w].requests - page[w].last, ms)
  BY <1>1, <1>2 DEF CurrentOf
<1>4. CASE ms = 0
  <2>1. page[w].current = 0
    BY <1>3, <1>4 DEF PerSecond
  <2>2. \A n : Rate(n, ms) = 0
    BY <1>4 DEF Rate
  <2> HIDE DEF s
  <2>3. 0 >= 0 /\ 0 * ms <= s * Second
    BY <1>0, <1>4
  <2> QED
    BY <2>1, <2>2, <2>3 DEF s
<1>5. CASE ms # 0
  <2> DEFINE r == page[w].requests  l == page[w].last
  <2>1. r # NotLoaded /\ l # NotLoaded
    BY <1>1, <1>2, <1>5 DEF CurrentOf
  <2>2. r \in Count /\ l \in Count /\ r \in seen[w]
    <3>1. SeesOf(w) /\ pc[w] \in InPage
      BY DEF AInv, Sees, InPage
    <3> QED
      BY <1>0, <2>1, <3>1 DEF Loaded, SeesOf
  <2>3. \A c \in seen[w] : l <= c
    BY <1>2, <2>1 DEF CurrentOf, InPage
  <2>4. page[w].current = PerSecond(r - l, ms) /\ r <= s /\ l <= r
    BY <1>3, <2>2, <2>3
  <2>5. previous.quiet => l = previous.requests
    BY <1>2, <2>1 DEF CurrentOf, InPage
  <2>6. FitsInt(s, ms)
    OBVIOUS
  <2>9. Cardinality(seen[w]) = 1 => s = r
    <3>1. IsFiniteSet(Count)
      BY HalfType, FS_Interval DEF Count
    <3>2. IsFiniteSet(seen[w])
      BY <1>0, <3>1, FS_Subset
    <3> QED
      BY <1>3, <2>2, <3>2, FS_Singleton
  <2> HIDE DEF s, r, l
  <2>7. r - l \in Count /\ r - l \in Nat /\ s \in Nat /\ r - l <= s
    <3>1. r \in Nat /\ l \in Nat /\ s \in Nat /\ MaxRequests \in Nat /\ r <= MaxRequests
      BY <1>0, <2>2, HalfType DEF Count
    <3> QED
      BY <2>4, <3>1 DEF Count
  <2>8. /\ FitsInt(r - l, ms) /\ Rate(r - l, ms) \in Nat
        /\ Rate(r - l, ms) * ms <= s * Second
    BY <2>6, <2>7, RateBounds
  <2>10. page[w].current = Rate(r - l, ms)
    BY <2>4, <2>7, <2>8, PerSecondFits
  <2>11. page[w].current >= 0
    BY <2>8, <2>10
  <2>12. page[w].current * ms <= s * Second
    BY <2>8, <2>10
  <2>13. previous.quiet /\ Cardinality(seen[w]) = 1 =>
            page[w].current = Rate(s - previous.requests, ms)
    BY <2>5, <2>9, <2>10
  <2> QED
    BY <2>11, <2>12, <2>13 DEF s
<1> QED
  BY <1>4, <1>5

\* Without a second page or a second ++ at the same time, the current rate is that of
\* requests that were counted since the last page, and exact when none was counted
\* while the two pages were made (BaseCore.cpp:45-52, 57-58).
THEOREM CurrentIsHonest == Spec => []CurrentHonest
<1>1. Init => IInv
  <2> SUFFICES ASSUME Init PROVE CInv
    BY AInvInit DEF IInv
  <2>1. \A w \in Workers : pc[w] = "idle"
    BY DEF Init
  <2>2. Alone /\ CurrentIs
    BY <2>1 DEF Alone, CurrentIs, CurrentOf, InPage, CurrentOn, SinceOn
  <2>3. TimeKept
    <3>1. previous.time = 0 /\ 0 <= clock /\ LastTime
      BY HalfType DEF Init, LastTime, time_service_started_
    <3>2. \A w \in Workers : TimeOf(w)
      BY <2>1 DEF TimeOf, SinceOn, CurrentOn, AverageOn, AccessOn
    <3> QED
      BY <3>1, <3>2 DEF TimeKept
  <2>4. CountKept
    BY <2>1 DEF Init, CountKept, CountOf, InPage
  <2> QED
    BY <2>2, <2>3, <2>4 DEF CInv
<1>2. IInv /\ [Next]_vars => IInv'
  <2> SUFFICES ASSUME IInv, [Next]_vars PROVE IInv'
    OBVIOUS
  <2> USE DEF IInv
  <2>1. AInv'
    BY TypeStep, SeesStep, AveragesStep DEF AInv
  <2>2. ASSUME ~raced' PROVE Alone' /\ TimeKept' /\ CountKept' /\ CurrentIs'
    <3>1. Alone /\ TimeKept /\ CountKept /\ CurrentIs
      BY <2>2, RacedStays DEF CInv
    <3> QED
      BY <2>2, <3>1, AloneStep, TimeStep, CountStep, CurrentStep
  <2> QED
    BY <2>1, <2>2 DEF CInv
<1>3. IInv => CurrentHonest
  BY CInvHonest DEF IInv
<1> QED
  BY <1>1, <1>2, <1>3, PTL DEF Spec

=============================================================================
