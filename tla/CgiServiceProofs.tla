-------------------------- MODULE CgiServiceProofs --------------------------
(***************************************************************************)
(* Theorems about CgiService for any number of workers and requests, any   *)
(* inputs, any bounds and any set of faults: its type and what a thread's  *)
(* place says of its locals; that it implements ImpressionLog, and what    *)
(* follows from that promise for the collection; on the way, that a client *)
(* gets one response at most and that every document carries the request   *)
(* and the test flag it was made from; and that with one worker and one    *)
(* start the counters of the status page cover the collection.             *)
(***************************************************************************)
EXTENDS CgiService, SequenceTheorems, FiniteSetTheorems, TLAPS

\* Between Accept and the end of ProcessRequest.
Serving == {"process", "respond", "acquire"} \cup Saving

\* What a worker's place says of its locals: why no index and no dereference
\* in Core::ProcessSaveResults is out of range.
Shape == \A w \in Workers :
    /\ pc[w] \in Serving => req[w] \in Requests
    /\ pc[w] = "respond" /\ Answer(input[req[w]]) = "OK" => params[w] = req[w]
    /\ pc[w] \in {"acquire"} \cup Saving => params[w] = req[w]
    /\ pc[w] \in {"count", "store"} => todo[w] # <<>>
    /\ pc[w] \in {"offer", "insert"} => it[w] # 0

-----------------------------------------------------------------------------
\* What one offer increments is a non-empty sequence of counters.
LEMMA IncrementsType ==
    ASSUME NEW o
    PROVE  Increments(o) \in Seq(Counter) /\ Increments(o) # <<>>
<1> DEFINE a == IF o.retargeting = "true" THEN "retargeting" ELSE "offer"
<1> DEFINE b == IF o.campaign_social = "true" THEN <<"social">> ELSE <<>>
<1>1. a \in Counter
  BY DEF Counter
<1>2. b \in Seq(Counter)
  <2>1. "social" \in Counter
    BY DEF Counter
  <2>2. <<"social">> \in Seq(Counter) /\ <<>> \in Seq(Counter)
    BY <2>1
  <2> QED
    BY <2>2
<1>3. <<a>> \o b \in Seq(Counter) /\ <<a>> \o b # <<>>
  <2> HIDE DEF a, b
  <2>1. <<a>> \in Seq(Counter) /\ Len(<<a>>) = 1
    BY <1>1
  <2>2. <<a>> \o b \in Seq(Counter) /\ Len(<<a>> \o b) = 1 + Len(b)
    BY <1>2, <2>1
  <2>3. Len(b) \in Nat
    BY <1>2
  <2> QED
    BY <2>2, <2>3
<1> QED
  BY <1>3 DEF Increments

\* What is left of a sequence of more than one element is not empty.
LEMMA TailType ==
    ASSUME NEW S, NEW s \in Seq(S), s # <<>>
    PROVE  Tail(s) \in Seq(S) /\ (Len(s) > 1 => Tail(s) # <<>>)
<1>1. Tail(s) \in Seq(S) /\ Len(Tail(s)) = Len(s) - 1 /\ Len(s) \in Nat
  BY HeadTailProperties
<1>2. Len(s) > 1 => Len(Tail(s)) # 0
  BY <1>1
<1> QED
  BY <1>1, <1>2, EmptySeq

\* A response is one of the four kinds.
LEMMA AnswerType == ASSUME NEW in PROVE Answer(in) \in Answers
  BY DEF Answer, Answers

\* test_mode is always read as one of the two booleans.
LEMMA TestModesType == ASSUME NEW in, NEW t \in TestModes(in) PROVE t \in BOOLEAN
  BY DEF TestModes

\* Inserting keeps the collection a sequence of documents.
LEMMA InsertType ==
    ASSUME NEW log \in Seq(Document), NEW d \in Document
    PROVE  Insert(log, d) \in Seq(Document)
<1>1. CASE Len(log) >= CapMax
  <2>1. log # <<>>
    BY <1>1, BoundsAssumption
  <2> QED
    BY <2>1 DEF Insert
<1>2. CASE ~(Len(log) >= CapMax)
  BY <1>2 DEF Insert
<1> QED
  BY <1>1, <1>2

-----------------------------------------------------------------------------
(* TypeOK and Shape are inductive together.                                *)

\* In the initial state no worker exists and every variable has its type.
LEMMA InitShape == Init => TypeOK /\ Shape
<1> SUFFICES ASSUME Init PROVE TypeOK /\ Shape
  OBVIOUS
<1>1. TypeOK
  BY DEF Init, TypeOK, Phase, Place
<1>2. Shape
  BY DEF Init, Shape, Serving, Saving
<1> QED
  BY <1>1, <1>2

\* The end of the process leaves every worker as Init does.
LEMMA DieShape == ASSUME TypeOK, Die PROVE TypeOK' /\ Shape'
<1>1. TypeOK'
  BY DEF TypeOK, Die, Phase, Place, store
<1>2. Shape'
  BY DEF Die, Shape, Serving, Saving
<1> QED
  BY <1>1, <1>2

\* Every step of every thread preserves the types and Shape.
LEMMA StepShape == ASSUME TypeOK, Shape, [Next]_vars PROVE TypeOK' /\ Shape'
<1> USE DEF vars, process, store, clients, status, locals, core, saving
<1> USE DEF Goto, Release, Up, Phase, Creating, Listening, Place, Saving, Serving
<1>1. CASE Start
  BY <1>1 DEF Start, TypeOK, Shape
<1>2. CASE CheckLogDatabase
  BY <1>2 DEF CheckLogDatabase, TypeOK, Shape
<1>3. CASE OpenSocket
  BY <1>3 DEF OpenSocket, TypeOK, Shape
<1>4. CASE EndConstructor
  BY <1>4 DEF EndConstructor, TypeOK, Shape
<1>5. CASE Destroy
  BY <1>5 DEF Destroy, TypeOK, Shape
<1>6. CASE CheckLogDatabaseThrows
  BY <1>6, DieShape DEF CheckLogDatabaseThrows
<1>7. CASE OpenSocketFails
  BY <1>7, DieShape DEF OpenSocketFails
<1>8. CASE CreateThreadFails
  BY <1>8, DieShape DEF CreateThreadFails
<1>9. CASE Exit
  BY <1>9, DieShape DEF Exit
<1>10. CASE Kill
  BY <1>10, DieShape DEF Kill
<1>11. ASSUME NEW r \in Requests, Arrive(r) PROVE TypeOK' /\ Shape'
  BY <1>11, SMTT(30) DEF Arrive, TypeOK, Shape
<1>12. ASSUME NEW w \in Workers, CreateThread(w) PROVE TypeOK' /\ Shape'
  <2>1. TypeOK'
    BY <1>12 DEF CreateThread, TypeOK, Shape
  <2>2. Shape'
    BY <1>12 DEF CreateThread, TypeOK, Shape
  <2> QED
    BY <2>1, <2>2
<1>13. ASSUME NEW w \in Workers, InitRequest(w) PROVE TypeOK' /\ Shape'
  <2>1. TypeOK'
    BY <1>13 DEF InitRequest, TypeOK, Shape
  <2>2. Shape'
    BY <1>13 DEF InitRequest, TypeOK, Shape
  <2> QED
    BY <2>1, <2>2
<1>14. ASSUME NEW w \in Workers, Lock(w) PROVE TypeOK' /\ Shape'
  <2>1. TypeOK'
    BY <1>14 DEF Lock, TypeOK, Shape
  <2>2. Shape'
    BY <1>14 DEF Lock, TypeOK, Shape
  <2> QED
    BY <2>1, <2>2
<1>15. ASSUME NEW w \in Workers, Accept(w) PROVE TypeOK' /\ Shape'
  <2>1. queue \in Seq(Requests) /\ queue # <<>>
    BY <1>15 DEF Accept, TypeOK
  <2>2. Head(queue) \in Requests /\ Tail(queue) \in Seq(Requests)
    BY <2>1, HeadTailProperties
  <2>3. /\ conn' \in [Requests -> {"none", "queued", "open", "finished"}]
        /\ req' \in [Workers -> Requests \cup {Nobody}]
        /\ pc' \in [Workers -> Place]
    BY <1>15, <2>2 DEF Accept, TypeOK
  <2>4. TypeOK'
    BY <1>15, <2>2, <2>3 DEF Accept, TypeOK
  <2>5. Shape'
    BY <1>15, <2>2 DEF Accept, TypeOK, Shape
  <2> QED
    BY <2>4, <2>5
<1>16. ASSUME NEW w \in Workers, Loop(w) PROVE TypeOK' /\ Shape'
  <2>1. TypeOK'
    BY <1>16, SMTT(30) DEF Loop, TypeOK, Shape
  <2>2. Shape'
    BY <1>16 DEF Loop, TypeOK, Shape
  <2> QED
    BY <2>1, <2>2
<1>17. ASSUME NEW w \in Workers, GiveUp(w) PROVE TypeOK' /\ Shape'
  <2>1. TypeOK'
    BY <1>17 DEF GiveUp, TypeOK, Shape
  <2>2. Shape'
    BY <1>17 DEF GiveUp, TypeOK, Shape
  <2> QED
    BY <2>1, <2>2
<1>18. ASSUME NEW w \in Workers, ProcessRequest(w) PROVE TypeOK' /\ Shape'
  <2>1. params' \in [Workers -> Requests \cup {Nobody}]
    BY <1>18 DEF ProcessRequest, TypeOK
  <2>2. test_mode' \in [Workers -> BOOLEAN]
    <3>1. CASE UNCHANGED core
      BY <3>1 DEF TypeOK
    <3>2. CASE \E t \in TestModes(input[req[w]]) :
                  test_mode' = [test_mode EXCEPT ![w] = t]
      BY <3>2, TestModesType DEF TypeOK
    <3> QED
      BY <1>18, <3>1, <3>2 DEF ProcessRequest
  <2>3. TypeOK'
    BY <1>18, <2>1, <2>2 DEF ProcessRequest, TypeOK
  <2>4. Shape'
    BY <1>18 DEF ProcessRequest, TypeOK, Shape
  <2> QED
    BY <2>3, <2>4
<1>19. ASSUME NEW w \in Workers, Response(w) PROVE TypeOK' /\ Shape'
  <2>1. TypeOK'
    BY <1>19, AnswerType, SMTT(30) DEF Response, TypeOK, Shape, AfterResponse
  <2>2. Shape'
    BY <1>19, AnswerType DEF Response, TypeOK, Shape, AfterResponse
  <2> QED
    BY <2>1, <2>2
<1>20. ASSUME NEW w \in Workers, Acquire(w) PROVE TypeOK' /\ Shape'
  <2>1. <<"request">> \in Seq(Counter) /\ <<"request">> # <<>>
    BY DEF Counter
  <2>2. todo' \in [Workers -> Seq(Counter)] /\ todo'[w] # <<>>
    BY <1>20, <2>1 DEF Acquire, TypeOK
  <2>3. TypeOK'
    BY <1>20, <2>2 DEF Acquire, TypeOK
  <2>4. Shape'
    BY <1>20, <2>2 DEF Acquire, TypeOK, Shape
  <2> QED
    BY <2>3, <2>4
<1>21. ASSUME NEW w \in Workers, Load(w) PROVE TypeOK' /\ Shape'
  <2>1. Head(todo[w]) \in Counter
    BY <1>21 DEF Load, TypeOK, Shape
  <2>2. reg' \in [Workers -> Nat]
    BY <1>21, <2>1 DEF Load, TypeOK
  <2>3. TypeOK'
    BY <1>21, <2>2 DEF Load, TypeOK
  <2>4. Shape'
    BY <1>21 DEF Load, TypeOK, Shape
  <2> QED
    BY <2>3, <2>4
<1>22. ASSUME NEW w \in Workers, Store(w) PROVE TypeOK' /\ Shape'
  <2> DEFINE c == Head(todo[w])
  <2>1. todo[w] \in Seq(Counter) /\ todo[w] # <<>> /\ c \in Counter
    BY <1>22 DEF Store, TypeOK, Shape
  <2>2. Tail(todo[w]) \in Seq(Counter) /\ (Len(todo[w]) > 1 => Tail(todo[w]) # <<>>)
    BY <2>1, TailType
  <2> HIDE DEF c
  <2>3. reg[w] + 1 \in Nat /\ tally[c] + 1 \in Nat
    <3>1. reg[w] \in Nat /\ tally[c] \in Nat
      BY <2>1 DEF TypeOK
    <3> QED
      BY <3>1
  <2>4. counter' \in [Counter -> Nat] /\ tally' \in [Counter -> Nat]
    BY <1>22, <2>1, <2>3 DEF Store, TypeOK, c
  <2>5. todo' \in [Workers -> Seq(Counter)] /\ reg' \in [Workers -> Nat]
    BY <1>22, <2>2 DEF Store, TypeOK
  <2>6. pc' \in [Workers -> Place]
    BY <1>22 DEF Store, TypeOK
  <2>7. TypeOK'
    BY <1>22, <2>4, <2>5, <2>6 DEF Store, TypeOK
  <2>8. ASSUME NEW v \in Workers
        PROVE  pc'[v] \in {"count", "store"} => todo'[v] # <<>>
    BY <1>22, <2>2 DEF Store, TypeOK, Shape
  <2>9. ASSUME NEW v \in Workers
        PROVE  pc'[v] \in {"offer", "insert"} => it'[v] # 0
    BY <1>22 DEF Store, TypeOK, Shape
  <2>10. ASSUME NEW v \in Workers
         PROVE  pc'[v] \in {"acquire"} \cup Saving => pc[v] \in {"acquire"} \cup Saving
    BY <1>22 DEF Store, TypeOK
  <2>11. ASSUME NEW v \in Workers
         PROVE  pc'[v] = "respond" => pc[v] = "respond"
    BY <1>22 DEF Store, TypeOK
  <2>12. ASSUME NEW v \in Workers
         PROVE  pc'[v] \in Serving => pc[v] \in Serving
    BY <1>22 DEF Store, TypeOK
  <2>13. UNCHANGED <<req, params, input>>
    BY <1>22 DEF Store
  <2>14. Shape'
    BY <2>8, <2>9, <2>10, <2>11, <2>12, <2>13 DEF Shape
  <2> QED
    BY <2>7, <2>14
<1>23. ASSUME NEW w \in Workers, ReadParams(w) PROVE TypeOK' /\ Shape'
  <2>1. TypeOK'
    BY <1>23 DEF ReadParams, TypeOK, Shape
  <2>2. Shape'
    BY <1>23 DEF ReadParams, TypeOK, Shape
  <2> QED
    BY <2>1, <2>2
<1>24. ASSUME NEW w \in Workers, BuildOffer(w) PROVE TypeOK' /\ Shape'
  <2> DEFINE o == Offers(input[params[w]])[it[w]]
             d == [req |-> params[w], item |-> it[w], test |-> test_mode[w]]
  <2>1. d \in Document
    BY <1>24 DEF BuildOffer, TypeOK, Shape, Document
  <2>2. Increments(o) \in Seq(Counter) /\ Increments(o) # <<>>
    BY IncrementsType
  <2>3. documents' \in [Workers -> Seq(Document)]
    <3>1. documents' = documents \/ documents' = [documents EXCEPT ![w] = Append(@, d)]
      BY <1>24 DEF BuildOffer
    <3>2. Append(documents[w], d) \in Seq(Document)
      BY <2>1 DEF TypeOK
    <3> QED
      BY <3>1, <3>2 DEF TypeOK
  <2> HIDE DEF d
  <2>4. CASE Builds(o) /\ Counts(o)
    <3>1. /\ todo' = [todo EXCEPT ![w] = Increments(o)]
          /\ it' = [it EXCEPT ![w] = @ + 1]
          /\ pc' = [pc EXCEPT ![w] = "count"]
      BY <1>24, <2>4 DEF BuildOffer
    <3> HIDE DEF o
    <3>2. todo' \in [Workers -> Seq(Counter)] /\ todo'[w] # <<>>
      BY <2>2, <3>1 DEF TypeOK
    <3>3. it' \in [Workers -> Nat] /\ pc' \in [Workers -> Place]
      BY <3>1 DEF TypeOK
    <3>4. TypeOK'
      BY <1>24, <2>3, <3>2, <3>3 DEF BuildOffer, TypeOK
    <3>5. UNCHANGED <<req, params, input>> /\ pc[w] = "offer"
      BY <1>24 DEF BuildOffer
    <3>6. Shape'
      BY <3>1, <3>2, <3>5 DEF Shape, TypeOK
    <3> QED
      BY <3>4, <3>6
  <2>5. CASE ~(Builds(o) /\ Counts(o))
    <3>1. pc' = [pc EXCEPT ![w] = "unwind"] /\ UNCHANGED <<todo, it>>
      BY <1>24, <2>5 DEF BuildOffer
    <3>2. TypeOK'
      BY <1>24, <2>3, <3>1 DEF BuildOffer, TypeOK
    <3>3. UNCHANGED <<req, params, input>> /\ pc[w] = "offer"
      BY <1>24 DEF BuildOffer
    <3>4. Shape'
      BY <3>1, <3>3 DEF Shape, TypeOK
    <3> QED
      BY <3>2, <3>4
  <2> QED
    BY <2>4, <2>5
<1>25. ASSUME NEW w \in Workers, EndOffers(w) PROVE TypeOK' /\ Shape'
  <2>1. TypeOK'
    BY <1>25 DEF EndOffers, TypeOK, Shape
  <2>2. Shape'
    BY <1>25 DEF EndOffers, TypeOK, Shape
  <2> QED
    BY <2>1, <2>2
<1>26. ASSUME NEW w \in Workers, InsertOne(w) PROVE TypeOK' /\ Shape'
  <2>1. documents[w][it[w]] \in Document
    BY <1>26 DEF InsertOne, TypeOK, Shape
  <2>2. impressions' \in Seq(Document)
    BY <1>26, <2>1, InsertType DEF InsertOne, TypeOK
  <2>3. TypeOK'
    BY <1>26, <2>2 DEF InsertOne, TypeOK
  <2>4. Shape'
    BY <1>26 DEF InsertOne, TypeOK, Shape
  <2> QED
    BY <2>3, <2>4
<1>27. ASSUME NEW w \in Workers, EndSave(w) PROVE TypeOK' /\ Shape'
  <2>1. TypeOK'
    BY <1>27, SMTT(30) DEF EndSave, TypeOK, Shape, Leave
  <2>2. Shape'
    BY <1>27 DEF EndSave, TypeOK, Shape, Leave
  <2> QED
    BY <2>1, <2>2
<1>28. ASSUME NEW w \in Workers, Unwind(w) PROVE TypeOK' /\ Shape'
  <2>1. TypeOK'
    BY <1>28 DEF Unwind, TypeOK, Shape, Leave
  <2>2. Shape'
    BY <1>28 DEF Unwind, TypeOK, Shape, Leave
  <2> QED
    BY <2>1, <2>2
<1>29. ASSUME NEW w \in Workers, InitRequestFails(w) PROVE TypeOK' /\ Shape'
  <2>1. TypeOK'
    BY <1>29 DEF InitRequestFails, TypeOK, Shape
  <2>2. Shape'
    BY <1>29 DEF InitRequestFails, TypeOK, Shape
  <2> QED
    BY <2>1, <2>2
<1>30. ASSUME NEW w \in Workers, AcceptFails(w) PROVE TypeOK' /\ Shape'
  <2>1. TypeOK'
    BY <1>30 DEF AcceptFails, TypeOK, Shape
  <2>2. Shape'
    BY <1>30 DEF AcceptFails, TypeOK, Shape
  <2> QED
    BY <2>1, <2>2
<1>31. ASSUME NEW w \in Workers, ResponseFails(w) PROVE TypeOK' /\ Shape'
  <2>1. TypeOK'
    BY <1>31 DEF ResponseFails, TypeOK, Shape, AfterResponse
  <2>2. Shape'
    BY <1>31 DEF ResponseFails, TypeOK, Shape, AfterResponse
  <2> QED
    BY <2>1, <2>2
<1>32. ASSUME NEW w \in Workers, InsertThrows(w) PROVE TypeOK' /\ Shape'
  <2>1. TypeOK'
    BY <1>32 DEF InsertThrows, TypeOK, Shape
  <2>2. Shape'
    BY <1>32 DEF InsertThrows, TypeOK, Shape
  <2> QED
    BY <2>1, <2>2
<1>33. CASE UNCHANGED vars
  BY <1>33 DEF TypeOK, Shape
<1> QED
  BY <1>1, <1>2, <1>3, <1>4, <1>5, <1>6, <1>7, <1>8, <1>9, <1>10, <1>11,
     <1>12, <1>13, <1>14, <1>15, <1>16, <1>17, <1>18, <1>19, <1>20, <1>21,
     <1>22, <1>23, <1>24, <1>25, <1>26, <1>27, <1>28, <1>29, <1>30, <1>31,
     <1>32, <1>33
     DEF Next, Environment, MainStep, MainFails, WorkerStep, WorkerFails







-----------------------------------------------------------------------------
(* The accept mutex.                                                       *)

\* Every step preserves the pairing of accept_mutex with FCGX_Accept_r.
LEMMA StepAccept ==
    ASSUME TypeOK, AcceptExclusive, [Next]_vars PROVE AcceptExclusive'
<1> USE DEF vars, process, store, clients, status, locals, core, saving
<1> USE DEF Goto, Up
<1>1. CASE Start
  BY <1>1 DEF Start, TypeOK, AcceptExclusive
<1>2. CASE CheckLogDatabase
  BY <1>2 DEF CheckLogDatabase, TypeOK, AcceptExclusive
<1>3. CASE OpenSocket
  BY <1>3 DEF OpenSocket, TypeOK, AcceptExclusive
<1>4. CASE EndConstructor
  BY <1>4 DEF EndConstructor, TypeOK, AcceptExclusive
<1>5. CASE Destroy
  BY <1>5 DEF Destroy, TypeOK, AcceptExclusive
<1>6. CASE CheckLogDatabaseThrows
  BY <1>6, NamesAssumption DEF CheckLogDatabaseThrows, Die, TypeOK, AcceptExclusive
<1>7. CASE OpenSocketFails
  BY <1>7, NamesAssumption DEF OpenSocketFails, Die, TypeOK, AcceptExclusive
<1>8. CASE CreateThreadFails
  BY <1>8, NamesAssumption DEF CreateThreadFails, Die, TypeOK, AcceptExclusive
<1>9. CASE Exit
  BY <1>9, NamesAssumption DEF Exit, Die, TypeOK, AcceptExclusive
<1>10. CASE Kill
  BY <1>10, NamesAssumption DEF Kill, Die, TypeOK, AcceptExclusive
<1>11. ASSUME NEW r \in Requests, Arrive(r) PROVE AcceptExclusive'
  BY <1>11 DEF Arrive, TypeOK, AcceptExclusive
<1>12. ASSUME NEW w \in Workers, CreateThread(w) PROVE AcceptExclusive'
  BY <1>12 DEF CreateThread, TypeOK, AcceptExclusive
<1>13. ASSUME NEW w \in Workers, InitRequest(w) PROVE AcceptExclusive'
  BY <1>13 DEF InitRequest, TypeOK, AcceptExclusive
<1>14. ASSUME NEW w \in Workers, Lock(w) PROVE AcceptExclusive'
  BY <1>14, NamesAssumption DEF Lock, TypeOK, AcceptExclusive
<1>15. ASSUME NEW w \in Workers, Accept(w) PROVE AcceptExclusive'
  BY <1>15, NamesAssumption DEF Accept, TypeOK, AcceptExclusive
<1>16. ASSUME NEW w \in Workers, Loop(w) PROVE AcceptExclusive'
  BY <1>16 DEF Loop, TypeOK, AcceptExclusive
<1>17. ASSUME NEW w \in Workers, GiveUp(w) PROVE AcceptExclusive'
  BY <1>17 DEF GiveUp, TypeOK, AcceptExclusive
<1>18. ASSUME NEW w \in Workers, ProcessRequest(w) PROVE AcceptExclusive'
  BY <1>18 DEF ProcessRequest, TypeOK, AcceptExclusive
<1>19. ASSUME NEW w \in Workers, Response(w) PROVE AcceptExclusive'
  BY <1>19 DEF Response, AfterResponse, TypeOK, AcceptExclusive
<1>20. ASSUME NEW w \in Workers, Acquire(w) PROVE AcceptExclusive'
  BY <1>20 DEF Acquire, TypeOK, AcceptExclusive
<1>21. ASSUME NEW w \in Workers, Load(w) PROVE AcceptExclusive'
  BY <1>21 DEF Load, TypeOK, AcceptExclusive
<1>22. ASSUME NEW w \in Workers, Store(w) PROVE AcceptExclusive'
  BY <1>22 DEF Store, TypeOK, AcceptExclusive
<1>23. ASSUME NEW w \in Workers, ReadParams(w) PROVE AcceptExclusive'
  BY <1>23 DEF ReadParams, TypeOK, AcceptExclusive
<1>24. ASSUME NEW w \in Workers, BuildOffer(w) PROVE AcceptExclusive'
  BY <1>24 DEF BuildOffer, TypeOK, AcceptExclusive
<1>25. ASSUME NEW w \in Workers, EndOffers(w) PROVE AcceptExclusive'
  BY <1>25 DEF EndOffers, TypeOK, AcceptExclusive
<1>26. ASSUME NEW w \in Workers, InsertOne(w) PROVE AcceptExclusive'
  BY <1>26 DEF InsertOne, TypeOK, AcceptExclusive
<1>27. ASSUME NEW w \in Workers, EndSave(w) PROVE AcceptExclusive'
  BY <1>27 DEF EndSave, Leave, TypeOK, AcceptExclusive
<1>28. ASSUME NEW w \in Workers, Unwind(w) PROVE AcceptExclusive'
  BY <1>28 DEF Unwind, Leave, TypeOK, AcceptExclusive
<1>29. ASSUME NEW w \in Workers, InitRequestFails(w) PROVE AcceptExclusive'
  BY <1>29 DEF InitRequestFails, TypeOK, AcceptExclusive
<1>30. ASSUME NEW w \in Workers, AcceptFails(w) PROVE AcceptExclusive'
  BY <1>30, NamesAssumption DEF AcceptFails, TypeOK, AcceptExclusive
<1>31. ASSUME NEW w \in Workers, ResponseFails(w) PROVE AcceptExclusive'
  BY <1>31 DEF ResponseFails, AfterResponse, TypeOK, AcceptExclusive
<1>32. ASSUME NEW w \in Workers, InsertThrows(w) PROVE AcceptExclusive'
  BY <1>32 DEF InsertThrows, TypeOK, AcceptExclusive
<1>33. CASE UNCHANGED vars
  BY <1>33 DEF TypeOK, AcceptExclusive
<1> QED
  BY <1>1, <1>2, <1>3, <1>4, <1>5, <1>6, <1>7, <1>8, <1>9, <1>10, <1>11,
     <1>12, <1>13, <1>14, <1>15, <1>16, <1>17, <1>18, <1>19, <1>20, <1>21,
     <1>22, <1>23, <1>24, <1>25, <1>26, <1>27, <1>28, <1>29, <1>30, <1>31,
     <1>32, <1>33
     DEF Next, Environment, MainStep, MainFails, WorkerStep, WorkerFails

-----------------------------------------------------------------------------
(* The life of the process.                                                *)

\* There is no worker thread before the socket is open or after the process
\* is gone.
NoWorkersYet ==
    svc \in {"dead", "check", "socket"} => \A w \in Workers : pc[w] = "none"

\* Threads are created only by CreateThread, after OpenSocket.
LEMMA StepNoWorkersYet ==
    ASSUME TypeOK, NoWorkersYet, [Next]_vars PROVE NoWorkersYet'
<1> USE DEF vars, process, store, clients, status, locals, core, saving
<1> USE DEF Goto, Up, Listening
<1>1. CASE Start
  BY <1>1 DEF Start, TypeOK, NoWorkersYet
<1>2. CASE CheckLogDatabase
  BY <1>2 DEF CheckLogDatabase, TypeOK, NoWorkersYet
<1>3. CASE OpenSocket
  BY <1>3 DEF OpenSocket, TypeOK, NoWorkersYet
<1>4. CASE EndConstructor
  BY <1>4 DEF EndConstructor, TypeOK, NoWorkersYet
<1>5. CASE Destroy
  BY <1>5 DEF Destroy, TypeOK, NoWorkersYet
<1>6. CASE CheckLogDatabaseThrows
  BY <1>6 DEF CheckLogDatabaseThrows, Die, TypeOK, NoWorkersYet
<1>7. CASE OpenSocketFails
  BY <1>7 DEF OpenSocketFails, Die, TypeOK, NoWorkersYet
<1>8. CASE CreateThreadFails
  BY <1>8 DEF CreateThreadFails, Die, TypeOK, NoWorkersYet
<1>9. CASE Exit
  BY <1>9 DEF Exit, Die, TypeOK, NoWorkersYet
<1>10. CASE Kill
  BY <1>10 DEF Kill, Die, TypeOK, NoWorkersYet
<1>11. ASSUME NEW r \in Requests, Arrive(r) PROVE NoWorkersYet'
  BY <1>11 DEF Arrive, TypeOK, NoWorkersYet
<1>12. ASSUME NEW w \in Workers, CreateThread(w) PROVE NoWorkersYet'
  BY <1>12 DEF CreateThread, TypeOK, NoWorkersYet
<1>13. ASSUME NEW w \in Workers, InitRequest(w) PROVE NoWorkersYet'
  BY <1>13 DEF InitRequest, TypeOK, NoWorkersYet
<1>14. ASSUME NEW w \in Workers, Lock(w) PROVE NoWorkersYet'
  BY <1>14 DEF Lock, TypeOK, NoWorkersYet
<1>15. ASSUME NEW w \in Workers, Accept(w) PROVE NoWorkersYet'
  BY <1>15 DEF Accept, TypeOK, NoWorkersYet
<1>16. ASSUME NEW w \in Workers, Loop(w) PROVE NoWorkersYet'
  BY <1>16 DEF Loop, TypeOK, NoWorkersYet
<1>17. ASSUME NEW w \in Workers, GiveUp(w) PROVE NoWorkersYet'
  BY <1>17 DEF GiveUp, TypeOK, NoWorkersYet
<1>18. ASSUME NEW w \in Workers, ProcessRequest(w) PROVE NoWorkersYet'
  BY <1>18 DEF ProcessRequest, TypeOK, NoWorkersYet
<1>19. ASSUME NEW w \in Workers, Response(w) PROVE NoWorkersYet'
  BY <1>19 DEF Response, AfterResponse, TypeOK, NoWorkersYet
<1>20. ASSUME NEW w \in Workers, Acquire(w) PROVE NoWorkersYet'
  BY <1>20 DEF Acquire, TypeOK, NoWorkersYet
<1>21. ASSUME NEW w \in Workers, Load(w) PROVE NoWorkersYet'
  BY <1>21 DEF Load, TypeOK, NoWorkersYet
<1>22. ASSUME NEW w \in Workers, Store(w) PROVE NoWorkersYet'
  BY <1>22 DEF Store, TypeOK, NoWorkersYet
<1>23. ASSUME NEW w \in Workers, ReadParams(w) PROVE NoWorkersYet'
  BY <1>23 DEF ReadParams, TypeOK, NoWorkersYet
<1>24. ASSUME NEW w \in Workers, BuildOffer(w) PROVE NoWorkersYet'
  BY <1>24 DEF BuildOffer, TypeOK, NoWorkersYet
<1>25. ASSUME NEW w \in Workers, EndOffers(w) PROVE NoWorkersYet'
  BY <1>25 DEF EndOffers, TypeOK, NoWorkersYet
<1>26. ASSUME NEW w \in Workers, InsertOne(w) PROVE NoWorkersYet'
  BY <1>26 DEF InsertOne, TypeOK, NoWorkersYet
<1>27. ASSUME NEW w \in Workers, EndSave(w) PROVE NoWorkersYet'
  BY <1>27 DEF EndSave, Leave, TypeOK, NoWorkersYet
<1>28. ASSUME NEW w \in Workers, Unwind(w) PROVE NoWorkersYet'
  BY <1>28 DEF Unwind, Leave, TypeOK, NoWorkersYet
<1>29. ASSUME NEW w \in Workers, InitRequestFails(w) PROVE NoWorkersYet'
  BY <1>29 DEF InitRequestFails, TypeOK, NoWorkersYet
<1>30. ASSUME NEW w \in Workers, AcceptFails(w) PROVE NoWorkersYet'
  BY <1>30 DEF AcceptFails, TypeOK, NoWorkersYet
<1>31. ASSUME NEW w \in Workers, ResponseFails(w) PROVE NoWorkersYet'
  BY <1>31 DEF ResponseFails, AfterResponse, TypeOK, NoWorkersYet
<1>32. ASSUME NEW w \in Workers, InsertThrows(w) PROVE NoWorkersYet'
  BY <1>32 DEF InsertThrows, TypeOK, NoWorkersYet
<1>33. CASE UNCHANGED vars
  BY <1>33 DEF TypeOK, NoWorkersYet
<1> QED
  BY <1>1, <1>2, <1>3, <1>4, <1>5, <1>6, <1>7, <1>8, <1>9, <1>10, <1>11,
     <1>12, <1>13, <1>14, <1>15, <1>16, <1>17, <1>18, <1>19, <1>20, <1>21,
     <1>22, <1>23, <1>24, <1>25, <1>26, <1>27, <1>28, <1>29, <1>30, <1>31,
     <1>32, <1>33
     DEF Next, Environment, MainStep, MainFails, WorkerStep, WorkerFails

\* The destructor deletes bcore and the pool when no worker is left to use them.
NoUseAfterFree == svc = "deleted" => \A w \in Workers : pc[w] = "exited"

\* A worker that has exited never runs again.
LEMMA StepNoUseAfterFree ==
    ASSUME TypeOK, NoUseAfterFree, [Next]_vars PROVE NoUseAfterFree'
<1> USE DEF vars, process, store, clients, status, locals, core, saving
<1> USE DEF Goto, Up, Listening
<1>1. CASE Start
  BY <1>1 DEF Start, TypeOK, NoUseAfterFree
<1>2. CASE CheckLogDatabase
  BY <1>2 DEF CheckLogDatabase, TypeOK, NoUseAfterFree
<1>3. CASE OpenSocket
  BY <1>3 DEF OpenSocket, TypeOK, NoUseAfterFree
<1>4. CASE EndConstructor
  BY <1>4 DEF EndConstructor, TypeOK, NoUseAfterFree
<1>5. CASE Destroy
  BY <1>5 DEF Destroy, TypeOK, NoUseAfterFree
<1>6. CASE CheckLogDatabaseThrows
  BY <1>6 DEF CheckLogDatabaseThrows, Die, TypeOK, NoUseAfterFree
<1>7. CASE OpenSocketFails
  BY <1>7 DEF OpenSocketFails, Die, TypeOK, NoUseAfterFree
<1>8. CASE CreateThreadFails
  BY <1>8 DEF CreateThreadFails, Die, TypeOK, NoUseAfterFree
<1>9. CASE Exit
  BY <1>9 DEF Exit, Die, TypeOK, NoUseAfterFree
<1>10. CASE Kill
  BY <1>10 DEF Kill, Die, TypeOK, NoUseAfterFree
<1>11. ASSUME NEW r \in Requests, Arrive(r) PROVE NoUseAfterFree'
  BY <1>11 DEF Arrive, TypeOK, NoUseAfterFree
<1>12. ASSUME NEW w \in Workers, CreateThread(w) PROVE NoUseAfterFree'
  BY <1>12 DEF CreateThread, TypeOK, NoUseAfterFree
<1>13. ASSUME NEW w \in Workers, InitRequest(w) PROVE NoUseAfterFree'
  BY <1>13 DEF InitRequest, TypeOK, NoUseAfterFree
<1>14. ASSUME NEW w \in Workers, Lock(w) PROVE NoUseAfterFree'
  BY <1>14 DEF Lock, TypeOK, NoUseAfterFree
<1>15. ASSUME NEW w \in Workers, Accept(w) PROVE NoUseAfterFree'
  BY <1>15 DEF Accept, TypeOK, NoUseAfterFree
<1>16. ASSUME NEW w \in Workers, Loop(w) PROVE NoUseAfterFree'
  BY <1>16 DEF Loop, TypeOK, NoUseAfterFree
<1>17. ASSUME NEW w \in Workers, GiveUp(w) PROVE NoUseAfterFree'
  BY <1>17 DEF GiveUp, TypeOK, NoUseAfterFree
<1>18. ASSUME NEW w \in Workers, ProcessRequest(w) PROVE NoUseAfterFree'
  BY <1>18 DEF ProcessRequest, TypeOK, NoUseAfterFree
<1>19. ASSUME NEW w \in Workers, Response(w) PROVE NoUseAfterFree'
  BY <1>19 DEF Response, AfterResponse, TypeOK, NoUseAfterFree
<1>20. ASSUME NEW w \in Workers, Acquire(w) PROVE NoUseAfterFree'
  BY <1>20 DEF Acquire, TypeOK, NoUseAfterFree
<1>21. ASSUME NEW w \in Workers, Load(w) PROVE NoUseAfterFree'
  BY <1>21 DEF Load, TypeOK, NoUseAfterFree
<1>22. ASSUME NEW w \in Workers, Store(w) PROVE NoUseAfterFree'
  BY <1>22 DEF Store, TypeOK, NoUseAfterFree
<1>23. ASSUME NEW w \in Workers, ReadParams(w) PROVE NoUseAfterFree'
  BY <1>23 DEF ReadParams, TypeOK, NoUseAfterFree
<1>24. ASSUME NEW w \in Workers, BuildOffer(w) PROVE NoUseAfterFree'
  BY <1>24 DEF BuildOffer, TypeOK, NoUseAfterFree
<1>25. ASSUME NEW w \in Workers, EndOffers(w) PROVE NoUseAfterFree'
  BY <1>25 DEF EndOffers, TypeOK, NoUseAfterFree
<1>26. ASSUME NEW w \in Workers, InsertOne(w) PROVE NoUseAfterFree'
  BY <1>26 DEF InsertOne, TypeOK, NoUseAfterFree
<1>27. ASSUME NEW w \in Workers, EndSave(w) PROVE NoUseAfterFree'
  BY <1>27 DEF EndSave, Leave, TypeOK, NoUseAfterFree
<1>28. ASSUME NEW w \in Workers, Unwind(w) PROVE NoUseAfterFree'
  BY <1>28 DEF Unwind, Leave, TypeOK, NoUseAfterFree
<1>29. ASSUME NEW w \in Workers, InitRequestFails(w) PROVE NoUseAfterFree'
  BY <1>29 DEF InitRequestFails, TypeOK, NoUseAfterFree
<1>30. ASSUME NEW w \in Workers, AcceptFails(w) PROVE NoUseAfterFree'
  BY <1>30 DEF AcceptFails, TypeOK, NoUseAfterFree
<1>31. ASSUME NEW w \in Workers, ResponseFails(w) PROVE NoUseAfterFree'
  BY <1>31 DEF ResponseFails, AfterResponse, TypeOK, NoUseAfterFree
<1>32. ASSUME NEW w \in Workers, InsertThrows(w) PROVE NoUseAfterFree'
  BY <1>32 DEF InsertThrows, TypeOK, NoUseAfterFree
<1>33. CASE UNCHANGED vars
  BY <1>33 DEF TypeOK, NoUseAfterFree
<1> QED
  BY <1>1, <1>2, <1>3, <1>4, <1>5, <1>6, <1>7, <1>8, <1>9, <1>10, <1>11,
     <1>12, <1>13, <1>14, <1>15, <1>16, <1>17, <1>18, <1>19, <1>20, <1>21,
     <1>22, <1>23, <1>24, <1>25, <1>26, <1>27, <1>28, <1>29, <1>30, <1>31,
     <1>32, <1>33
     DEF Next, Environment, MainStep, MainFails, WorkerStep, WorkerFails

-----------------------------------------------------------------------------
(* The counters of the status page.                                        *)

\* A value a worker has loaded was not more than the true count then, and the
\* true count only grows.
LoadedIsOld ==
    \A w \in Workers : pc[w] = "store" => reg[w] <= tally[Head(todo[w])]

\* The inductive strengthening of StatusNeverOverreports.
StatusInv == StatusNeverOverreports /\ LoadedIsOld

\* Neither half of an increment can push a counter past the true count.
LEMMA StepStatus ==
    ASSUME TypeOK, Shape, StatusInv, [Next]_vars PROVE StatusInv'
<1> USE DEF vars, process, store, clients, status, locals, core, saving
<1> USE DEF Goto
<1>1. CASE Start
  BY <1>1 DEF Start, TypeOK, StatusInv, StatusNeverOverreports, LoadedIsOld
<1>2. CASE CheckLogDatabase
  BY <1>2 DEF CheckLogDatabase, TypeOK, StatusInv, StatusNeverOverreports,
     LoadedIsOld
<1>3. CASE OpenSocket
  BY <1>3 DEF OpenSocket, TypeOK, StatusInv, StatusNeverOverreports, LoadedIsOld
<1>4. CASE EndConstructor
  BY <1>4 DEF EndConstructor, TypeOK, StatusInv, StatusNeverOverreports, LoadedIsOld
<1>5. CASE Destroy
  BY <1>5 DEF Destroy, TypeOK, StatusInv, StatusNeverOverreports, LoadedIsOld
<1>6. CASE CheckLogDatabaseThrows
  BY <1>6 DEF CheckLogDatabaseThrows, Die, TypeOK, StatusInv,
     StatusNeverOverreports, LoadedIsOld
<1>7. CASE OpenSocketFails
  BY <1>7 DEF OpenSocketFails, Die, TypeOK, StatusInv, StatusNeverOverreports,
     LoadedIsOld
<1>8. CASE CreateThreadFails
  BY <1>8 DEF CreateThreadFails, Die, TypeOK, StatusInv,
     StatusNeverOverreports, LoadedIsOld
<1>9. CASE Exit
  BY <1>9 DEF Exit, Die, TypeOK, StatusInv, StatusNeverOverreports, LoadedIsOld
<1>10. CASE Kill
  BY <1>10 DEF Kill, Die, TypeOK, StatusInv, StatusNeverOverreports, LoadedIsOld
<1>11. ASSUME NEW r \in Requests, Arrive(r) PROVE StatusInv'
  BY <1>11 DEF Arrive, TypeOK, StatusInv, StatusNeverOverreports, LoadedIsOld
<1>12. ASSUME NEW w \in Workers, CreateThread(w) PROVE StatusInv'
  BY <1>12 DEF CreateThread, TypeOK, StatusInv, StatusNeverOverreports, LoadedIsOld
<1>13. ASSUME NEW w \in Workers, InitRequest(w) PROVE StatusInv'
  BY <1>13 DEF InitRequest, TypeOK, StatusInv, StatusNeverOverreports, LoadedIsOld
<1>14. ASSUME NEW w \in Workers, Lock(w) PROVE StatusInv'
  BY <1>14 DEF Lock, TypeOK, StatusInv, StatusNeverOverreports, LoadedIsOld
<1>15. ASSUME NEW w \in Workers, Accept(w) PROVE StatusInv'
  BY <1>15 DEF Accept, TypeOK, StatusInv, StatusNeverOverreports, LoadedIsOld
<1>16. ASSUME NEW w \in Workers, Loop(w) PROVE StatusInv'
  BY <1>16 DEF Loop, TypeOK, StatusInv, StatusNeverOverreports, LoadedIsOld
<1>17. ASSUME NEW w \in Workers, GiveUp(w) PROVE StatusInv'
  BY <1>17 DEF GiveUp, TypeOK, StatusInv, StatusNeverOverreports, LoadedIsOld
<1>18. ASSUME NEW w \in Workers, ProcessRequest(w) PROVE StatusInv'
  BY <1>18 DEF ProcessRequest, TypeOK, StatusInv, StatusNeverOverreports,
     LoadedIsOld
<1>19. ASSUME NEW w \in Workers, Response(w) PROVE StatusInv'
  BY <1>19 DEF Response, AfterResponse, TypeOK, StatusInv,
     StatusNeverOverreports, LoadedIsOld
<1>20. ASSUME NEW w \in Workers, Acquire(w) PROVE StatusInv'
  BY <1>20 DEF Acquire, TypeOK, StatusInv, StatusNeverOverreports, LoadedIsOld
<1>21. ASSUME NEW w \in Workers, Load(w) PROVE StatusInv'
  <2>1. Head(todo[w]) \in Counter
    BY <1>21 DEF Load, TypeOK, Shape
  <2>2. counter[Head(todo[w])] <= tally[Head(todo[w])]
    BY <2>1 DEF StatusInv, StatusNeverOverreports
  <2> QED
    BY <1>21, <2>1, <2>2 DEF Load, TypeOK, StatusInv, StatusNeverOverreports,
       LoadedIsOld
<1>22. ASSUME NEW w \in Workers, Store(w) PROVE StatusInv'
  <2> DEFINE c == Head(todo[w])
  <2>1. c \in Counter /\ reg[w] \in Nat /\ tally[c] \in Nat /\ reg[w] <= tally[c]
    BY <1>22 DEF Store, TypeOK, Shape, StatusInv, LoadedIsOld
  <2> HIDE DEF c
  <2>2. /\ counter' = [counter EXCEPT ![c] = reg[w] + 1]
        /\ tally' = [tally EXCEPT ![c] = tally[c] + 1]
    BY <1>22 DEF Store, c
  <2>3. StatusNeverOverreports'
    BY <2>1, <2>2 DEF StatusNeverOverreports, StatusInv, TypeOK
  <2>4. ASSUME NEW v \in Workers, pc'[v] = "store"
        PROVE  reg'[v] <= tally'[Head(todo'[v])]
    <3>1. v # w /\ pc[v] = "store" /\ reg'[v] = reg[v] /\ todo'[v] = todo[v]
      BY <1>22, <2>4 DEF Store, TypeOK
    <3> DEFINE e == Head(todo[v])
    <3>2. todo[v] \in Seq(Counter) /\ todo[v] # <<>>
      BY <3>1 DEF TypeOK, Shape
    <3>3. e \in Counter /\ reg[v] \in Nat /\ reg[v] <= tally[e]
      <4>1. e \in Counter
        BY <3>2
      <4>2. reg[v] \in Nat
        BY DEF TypeOK
      <4>3. reg[v] <= tally[e]
        BY <3>1 DEF StatusInv, LoadedIsOld
      <4> QED
        BY <4>1, <4>2, <4>3
    <3> HIDE DEF e
    <3>4. tally[e] \in Nat /\ (tally'[e] = tally[e] \/ tally'[e] = tally[e] + 1)
      BY <2>1, <2>2, <3>3 DEF TypeOK
    <3>5. reg[v] <= tally'[e]
      BY <3>3, <3>4
    <3> QED
      BY <3>1, <3>5 DEF e
  <2> QED
    BY <2>3, <2>4 DEF StatusInv, LoadedIsOld
<1>23. ASSUME NEW w \in Workers, ReadParams(w) PROVE StatusInv'
  BY <1>23 DEF ReadParams, TypeOK, StatusInv, StatusNeverOverreports, LoadedIsOld
<1>24. ASSUME NEW w \in Workers, BuildOffer(w) PROVE StatusInv'
  BY <1>24 DEF BuildOffer, TypeOK, StatusInv, StatusNeverOverreports, LoadedIsOld
<1>25. ASSUME NEW w \in Workers, EndOffers(w) PROVE StatusInv'
  BY <1>25 DEF EndOffers, TypeOK, StatusInv, StatusNeverOverreports, LoadedIsOld
<1>26. ASSUME NEW w \in Workers, InsertOne(w) PROVE StatusInv'
  BY <1>26 DEF InsertOne, TypeOK, StatusInv, StatusNeverOverreports, LoadedIsOld
<1>27. ASSUME NEW w \in Workers, EndSave(w) PROVE StatusInv'
  BY <1>27 DEF EndSave, Leave, TypeOK, StatusInv, StatusNeverOverreports,
     LoadedIsOld
<1>28. ASSUME NEW w \in Workers, Unwind(w) PROVE StatusInv'
  BY <1>28 DEF Unwind, Leave, TypeOK, StatusInv, StatusNeverOverreports, LoadedIsOld
<1>29. ASSUME NEW w \in Workers, InitRequestFails(w) PROVE StatusInv'
  BY <1>29 DEF InitRequestFails, TypeOK, StatusInv, StatusNeverOverreports,
     LoadedIsOld
<1>30. ASSUME NEW w \in Workers, AcceptFails(w) PROVE StatusInv'
  BY <1>30 DEF AcceptFails, TypeOK, StatusInv, StatusNeverOverreports, LoadedIsOld
<1>31. ASSUME NEW w \in Workers, ResponseFails(w) PROVE StatusInv'
  BY <1>31 DEF ResponseFails, AfterResponse, TypeOK, StatusInv,
     StatusNeverOverreports, LoadedIsOld
<1>32. ASSUME NEW w \in Workers, InsertThrows(w) PROVE StatusInv'
  BY <1>32 DEF InsertThrows, TypeOK, StatusInv, StatusNeverOverreports, LoadedIsOld
<1>33. CASE UNCHANGED vars
  BY <1>33 DEF TypeOK, StatusInv, StatusNeverOverreports, LoadedIsOld
<1> QED
  BY <1>1, <1>2, <1>3, <1>4, <1>5, <1>6, <1>7, <1>8, <1>9, <1>10, <1>11,
     <1>12, <1>13, <1>14, <1>15, <1>16, <1>17, <1>18, <1>19, <1>20, <1>21,
     <1>22, <1>23, <1>24, <1>25, <1>26, <1>27, <1>28, <1>29, <1>30, <1>31,
     <1>32, <1>33
     DEF Next, Environment, MainStep, MainFails, WorkerStep, WorkerFails

-----------------------------------------------------------------------------
(* The impression collection.                                              *)

\* Once a start of the service is past CheckLogDatabase the collection exists.
CollectionInv == collection = "absent" => svc \in {"dead", "check"}

\* Nothing removes the collection, and only CheckLogDatabase leads past itself.
LEMMA StepCollection ==
    ASSUME TypeOK, CollectionInv, [Next]_vars PROVE CollectionInv'
<1> USE DEF vars, process, store, clients, status, locals, core, saving
<1> USE DEF Up, Listening
<1>1. CASE Start
  BY <1>1 DEF Start, TypeOK, CollectionInv
<1>2. CASE CheckLogDatabase
  BY <1>2, BoundsAssumption
  DEF CheckLogDatabase, TypeOK, CollectionInv
<1>3. CASE OpenSocket
  BY <1>3 DEF OpenSocket, TypeOK, CollectionInv
<1>4. CASE EndConstructor
  BY <1>4 DEF EndConstructor, TypeOK, CollectionInv
<1>5. CASE Destroy
  BY <1>5 DEF Destroy, TypeOK, CollectionInv
<1>6. CASE CheckLogDatabaseThrows
  BY <1>6 DEF CheckLogDatabaseThrows, Die, TypeOK, CollectionInv
<1>7. CASE OpenSocketFails
  BY <1>7 DEF OpenSocketFails, Die, TypeOK, CollectionInv
<1>8. CASE CreateThreadFails
  BY <1>8 DEF CreateThreadFails, Die, TypeOK, CollectionInv
<1>9. CASE Exit
  BY <1>9 DEF Exit, Die, TypeOK, CollectionInv
<1>10. CASE Kill
  BY <1>10 DEF Kill, Die, TypeOK, CollectionInv
<1>11. ASSUME NEW r \in Requests, Arrive(r) PROVE CollectionInv'
  BY <1>11 DEF Arrive, TypeOK, CollectionInv
<1>12. ASSUME NEW w \in Workers, CreateThread(w) PROVE CollectionInv'
  BY <1>12 DEF CreateThread, TypeOK, CollectionInv
<1>13. ASSUME NEW w \in Workers, InitRequest(w) PROVE CollectionInv'
  BY <1>13 DEF InitRequest, TypeOK, CollectionInv
<1>14. ASSUME NEW w \in Workers, Lock(w) PROVE CollectionInv'
  BY <1>14 DEF Lock, TypeOK, CollectionInv
<1>15. ASSUME NEW w \in Workers, Accept(w) PROVE CollectionInv'
  BY <1>15 DEF Accept, TypeOK, CollectionInv
<1>16. ASSUME NEW w \in Workers, Loop(w) PROVE CollectionInv'
  BY <1>16 DEF Loop, TypeOK, CollectionInv
<1>17. ASSUME NEW w \in Workers, GiveUp(w) PROVE CollectionInv'
  BY <1>17 DEF GiveUp, TypeOK, CollectionInv
<1>18. ASSUME NEW w \in Workers, ProcessRequest(w) PROVE CollectionInv'
  BY <1>18 DEF ProcessRequest, TypeOK, CollectionInv
<1>19. ASSUME NEW w \in Workers, Response(w) PROVE CollectionInv'
  BY <1>19 DEF Response, AfterResponse, TypeOK, CollectionInv
<1>20. ASSUME NEW w \in Workers, Acquire(w) PROVE CollectionInv'
  BY <1>20 DEF Acquire, TypeOK, CollectionInv
<1>21. ASSUME NEW w \in Workers, Load(w) PROVE CollectionInv'
  BY <1>21 DEF Load, TypeOK, CollectionInv
<1>22. ASSUME NEW w \in Workers, Store(w) PROVE CollectionInv'
  BY <1>22 DEF Store, TypeOK, CollectionInv
<1>23. ASSUME NEW w \in Workers, ReadParams(w) PROVE CollectionInv'
  BY <1>23 DEF ReadParams, TypeOK, CollectionInv
<1>24. ASSUME NEW w \in Workers, BuildOffer(w) PROVE CollectionInv'
  BY <1>24 DEF BuildOffer, TypeOK, CollectionInv
<1>25. ASSUME NEW w \in Workers, EndOffers(w) PROVE CollectionInv'
  BY <1>25 DEF EndOffers, TypeOK, CollectionInv
<1>26. ASSUME NEW w \in Workers, InsertOne(w) PROVE CollectionInv'
  BY <1>26 DEF InsertOne, TypeOK, CollectionInv
<1>27. ASSUME NEW w \in Workers, EndSave(w) PROVE CollectionInv'
  BY <1>27 DEF EndSave, Leave, TypeOK, CollectionInv
<1>28. ASSUME NEW w \in Workers, Unwind(w) PROVE CollectionInv'
  BY <1>28 DEF Unwind, Leave, TypeOK, CollectionInv
<1>29. ASSUME NEW w \in Workers, InitRequestFails(w) PROVE CollectionInv'
  BY <1>29 DEF InitRequestFails, TypeOK, CollectionInv
<1>30. ASSUME NEW w \in Workers, AcceptFails(w) PROVE CollectionInv'
  BY <1>30 DEF AcceptFails, TypeOK, CollectionInv
<1>31. ASSUME NEW w \in Workers, ResponseFails(w) PROVE CollectionInv'
  BY <1>31 DEF ResponseFails, AfterResponse, TypeOK, CollectionInv
<1>32. ASSUME NEW w \in Workers, InsertThrows(w) PROVE CollectionInv'
  BY <1>32 DEF InsertThrows, TypeOK, CollectionInv
<1>33. CASE UNCHANGED vars
  BY <1>33 DEF TypeOK, CollectionInv
<1> QED
  BY <1>1, <1>2, <1>3, <1>4, <1>5, <1>6, <1>7, <1>8, <1>9, <1>10, <1>11,
     <1>12, <1>13, <1>14, <1>15, <1>16, <1>17, <1>18, <1>19, <1>20, <1>21,
     <1>22, <1>23, <1>24, <1>25, <1>26, <1>27, <1>28, <1>29, <1>30, <1>31,
     <1>32, <1>33
     DEF Next, Environment, MainStep, MainFails, WorkerStep, WorkerFails

-----------------------------------------------------------------------------
(* The pool of MongoDB clients.                                            *)

\* FS_AddElement and its like speak of finite sets only.
PoolInv == PoolConserved /\ IsFiniteSet(inUse)

\* The end of the process takes the pool with it.
LEMMA DiePool == ASSUME Die PROVE PoolInv'
<1>1. IsFiniteSet({}) /\ Cardinality({}) = 0
  BY FS_EmptySet
<1>2. inUse' = {} /\ svc' = "dead" /\ \A w \in Workers : pc'[w] = "none"
  BY DEF Die
<1>3. Cardinality(inUse') <= PoolSize /\ IsFiniteSet(inUse')
  BY <1>1, <1>2, BoundsAssumption
<1> QED
  BY <1>2, <1>3 DEF PoolInv, PoolConserved, Creating, Saving

\* Every step preserves the pairing of clients with their scopes.
LEMMA StepPool ==
    ASSUME TypeOK, NoWorkersYet, PoolInv, [Next]_vars PROVE PoolInv'
<1> USE DEF vars, process, store, clients, status, locals, core, saving
<1> USE DEF Goto, Release, Up, Listening, Creating, Saving
<1>1. CASE Start
  <2>1. inUse' = {Main} /\ \A w \in Workers : pc'[w] = "none"
    BY <1>1 DEF Start, NoWorkersYet
  <2>2. IsFiniteSet({Main}) /\ Cardinality({Main}) = 1
    BY FS_Singleton
  <2>3. Cardinality(inUse') <= PoolSize /\ IsFiniteSet(inUse')
    BY <2>1, <2>2, BoundsAssumption
  <2> QED
    BY <1>1, <2>1, <2>3, NamesAssumption DEF Start, PoolInv, PoolConserved
<1>2. CASE CheckLogDatabase
  BY <1>2 DEF CheckLogDatabase, TypeOK, PoolInv, PoolConserved
<1>3. CASE OpenSocket
  BY <1>3 DEF OpenSocket, TypeOK, PoolInv, PoolConserved
<1>4. CASE EndConstructor
  <2>1. IsFiniteSet(inUse') /\ Cardinality(inUse') <= Cardinality(inUse)
    BY <1>4, FS_Subset DEF EndConstructor, PoolInv
  <2>2. Cardinality(inUse') \in Nat /\ Cardinality(inUse) \in Nat
    BY <2>1, FS_CardinalityType DEF PoolInv
  <2>3. Cardinality(inUse') <= PoolSize
    BY <2>1, <2>2, BoundsAssumption DEF PoolInv, PoolConserved
  <2> QED
    BY <1>4, <2>1, <2>3, NamesAssumption DEF EndConstructor, TypeOK, PoolInv,
       PoolConserved
<1>5. CASE Destroy
  BY <1>5 DEF Destroy, TypeOK, PoolInv, PoolConserved
<1>6. CASE CheckLogDatabaseThrows
  BY <1>6, DiePool DEF CheckLogDatabaseThrows
<1>7. CASE OpenSocketFails
  BY <1>7, DiePool DEF OpenSocketFails
<1>8. CASE CreateThreadFails
  BY <1>8, DiePool DEF CreateThreadFails
<1>9. CASE Exit
  BY <1>9, DiePool DEF Exit
<1>10. CASE Kill
  BY <1>10, DiePool DEF Kill
<1>11. ASSUME NEW r \in Requests, Arrive(r) PROVE PoolInv'
  BY <1>11 DEF Arrive, TypeOK, PoolInv, PoolConserved
<1>12. ASSUME NEW w \in Workers, CreateThread(w) PROVE PoolInv'
  BY <1>12 DEF CreateThread, TypeOK, PoolInv, PoolConserved
<1>13. ASSUME NEW w \in Workers, InitRequest(w) PROVE PoolInv'
  BY <1>13 DEF InitRequest, TypeOK, PoolInv, PoolConserved
<1>14. ASSUME NEW w \in Workers, Lock(w) PROVE PoolInv'
  BY <1>14 DEF Lock, TypeOK, PoolInv, PoolConserved
<1>15. ASSUME NEW w \in Workers, Accept(w) PROVE PoolInv'
  BY <1>15 DEF Accept, TypeOK, PoolInv, PoolConserved
<1>16. ASSUME NEW w \in Workers, Loop(w) PROVE PoolInv'
  BY <1>16 DEF Loop, TypeOK, PoolInv, PoolConserved
<1>17. ASSUME NEW w \in Workers, GiveUp(w) PROVE PoolInv'
  BY <1>17 DEF GiveUp, TypeOK, PoolInv, PoolConserved
<1>18. ASSUME NEW w \in Workers, ProcessRequest(w) PROVE PoolInv'
  BY <1>18 DEF ProcessRequest, TypeOK, PoolInv, PoolConserved
<1>19. ASSUME NEW w \in Workers, Response(w) PROVE PoolInv'
  BY <1>19 DEF Response, AfterResponse, TypeOK, PoolInv, PoolConserved
<1>20. ASSUME NEW w \in Workers, Acquire(w) PROVE PoolInv'
  <2>1. w \notin inUse /\ IsFiniteSet(inUse) /\ inUse' = inUse \cup {w}
    BY <1>20 DEF Acquire, PoolInv, PoolConserved
  <2>2. IsFiniteSet(inUse') /\ Cardinality(inUse') = Cardinality(inUse) + 1
    BY <2>1, FS_AddElement
  <2>3. Cardinality(inUse) \in Nat /\ Cardinality(inUse) < PoolSize
    BY <1>20, <2>1, FS_CardinalityType DEF Acquire
  <2>4. Cardinality(inUse') <= PoolSize
    BY <2>2, <2>3, BoundsAssumption
  <2> QED
    BY <1>20, <2>2, <2>4, NamesAssumption DEF Acquire, TypeOK, PoolInv,
       PoolConserved
<1>21. ASSUME NEW w \in Workers, Load(w) PROVE PoolInv'
  BY <1>21 DEF Load, TypeOK, PoolInv, PoolConserved
<1>22. ASSUME NEW w \in Workers, Store(w) PROVE PoolInv'
  BY <1>22 DEF Store, TypeOK, PoolInv, PoolConserved
<1>23. ASSUME NEW w \in Workers, ReadParams(w) PROVE PoolInv'
  BY <1>23 DEF ReadParams, TypeOK, PoolInv, PoolConserved
<1>24. ASSUME NEW w \in Workers, BuildOffer(w) PROVE PoolInv'
  BY <1>24 DEF BuildOffer, TypeOK, PoolInv, PoolConserved
<1>25. ASSUME NEW w \in Workers, EndOffers(w) PROVE PoolInv'
  BY <1>25 DEF EndOffers, TypeOK, PoolInv, PoolConserved
<1>26. ASSUME NEW w \in Workers, InsertOne(w) PROVE PoolInv'
  BY <1>26 DEF InsertOne, TypeOK, PoolInv, PoolConserved
<1>27. ASSUME NEW w \in Workers, EndSave(w) PROVE PoolInv'
  <2>1. IsFiniteSet(inUse') /\ Cardinality(inUse') <= Cardinality(inUse)
    BY <1>27, FS_Subset DEF EndSave, Leave, PoolInv
  <2>2. Cardinality(inUse') \in Nat /\ Cardinality(inUse) \in Nat
    BY <2>1, FS_CardinalityType DEF PoolInv
  <2>3. Cardinality(inUse') <= PoolSize
    BY <2>1, <2>2, BoundsAssumption DEF PoolInv, PoolConserved
  <2> QED
    BY <1>27, <2>1, <2>3, NamesAssumption DEF EndSave, Leave, TypeOK, PoolInv,
       PoolConserved
<1>28. ASSUME NEW w \in Workers, Unwind(w) PROVE PoolInv'
  <2>1. IsFiniteSet(inUse') /\ Cardinality(inUse') <= Cardinality(inUse)
    BY <1>28, FS_Subset DEF Unwind, Leave, PoolInv
  <2>2. Cardinality(inUse') \in Nat /\ Cardinality(inUse) \in Nat
    BY <2>1, FS_CardinalityType DEF PoolInv
  <2>3. Cardinality(inUse') <= PoolSize
    BY <2>1, <2>2, BoundsAssumption DEF PoolInv, PoolConserved
  <2> QED
    BY <1>28, <2>1, <2>3, NamesAssumption DEF Unwind, Leave, TypeOK, PoolInv,
       PoolConserved
<1>29. ASSUME NEW w \in Workers, InitRequestFails(w) PROVE PoolInv'
  BY <1>29 DEF InitRequestFails, TypeOK, PoolInv, PoolConserved
<1>30. ASSUME NEW w \in Workers, AcceptFails(w) PROVE PoolInv'
  BY <1>30 DEF AcceptFails, TypeOK, PoolInv, PoolConserved
<1>31. ASSUME NEW w \in Workers, ResponseFails(w) PROVE PoolInv'
  BY <1>31 DEF ResponseFails, AfterResponse, TypeOK, PoolInv, PoolConserved
<1>32. ASSUME NEW w \in Workers, InsertThrows(w) PROVE PoolInv'
  BY <1>32 DEF InsertThrows, TypeOK, PoolInv, PoolConserved
<1>33. CASE UNCHANGED vars
  BY <1>33 DEF TypeOK, PoolInv, PoolConserved
<1> QED
  BY <1>1, <1>2, <1>3, <1>4, <1>5, <1>6, <1>7, <1>8, <1>9, <1>10, <1>11,
     <1>12, <1>13, <1>14, <1>15, <1>16, <1>17, <1>18, <1>19, <1>20, <1>21,
     <1>22, <1>23, <1>24, <1>25, <1>26, <1>27, <1>28, <1>29, <1>30, <1>31,
     <1>32, <1>33
     DEF Next, Environment, MainStep, MainFails, WorkerStep, WorkerFails

-----------------------------------------------------------------------------
(* The connections.                                                        *)

\* The backlog holds each queued connection once.
QueueOK ==
    /\ \A i \in 1..Len(queue) : conn[queue[i]] = "queued"
    /\ \A i, j \in 1..Len(queue) : queue[i] = queue[j] => i = j

\* A worker's FCGX_Request describes an accepted connection, or none.
RequestOK == \A w \in Workers :
    /\ req[w] # Nobody => conn[req[w]] \in {"open", "finished"}
    /\ pc[w] \in {"none", "init", "accept", "exited"} => req[w] = Nobody

\* The inductive strengthening of ConnectionOwned.
OwnedInv == ConnectionOwned /\ QueueOK /\ RequestOK

\* The end of the process closes every connection.
LEMMA DieOwned == ASSUME TypeOK, Die PROVE OwnedInv'
<1>1. /\ queue' = <<>> /\ \A w \in Workers : req'[w] = Nobody /\ pc'[w] = "none"
      /\ \A r \in Requests : conn'[r] # "open"
  BY DEF Die
<1>2. QueueOK'
  BY <1>1 DEF QueueOK
<1>3. RequestOK' /\ ConnectionOwned'
  BY <1>1 DEF RequestOK, ConnectionOwned
<1> QED
  BY <1>2, <1>3 DEF OwnedInv

\* Every step preserves the ownership of the accepted connections.
LEMMA StepOwned ==
    ASSUME TypeOK, Shape, OwnedInv, [Next]_vars PROVE OwnedInv'
<1> USE DEF vars, process, store, clients, status, locals, core, saving
<1> USE DEF Goto, Up
<1>1. CASE Start
  BY <1>1 DEF Start, TypeOK, Shape, OwnedInv, ConnectionOwned, QueueOK, RequestOK
<1>2. CASE CheckLogDatabase
  BY <1>2 DEF CheckLogDatabase, TypeOK, Shape, OwnedInv, ConnectionOwned,
     QueueOK, RequestOK
<1>3. CASE OpenSocket
  BY <1>3 DEF OpenSocket, TypeOK, Shape, OwnedInv, ConnectionOwned, QueueOK,
     RequestOK
<1>4. CASE EndConstructor
  BY <1>4 DEF EndConstructor, TypeOK, Shape, OwnedInv, ConnectionOwned,
     QueueOK, RequestOK
<1>5. CASE Destroy
  BY <1>5 DEF Destroy, TypeOK, Shape, OwnedInv, ConnectionOwned, QueueOK, RequestOK
<1>6. CASE CheckLogDatabaseThrows
  BY <1>6, DieOwned DEF CheckLogDatabaseThrows
<1>7. CASE OpenSocketFails
  BY <1>7, DieOwned DEF OpenSocketFails
<1>8. CASE CreateThreadFails
  BY <1>8, DieOwned DEF CreateThreadFails
<1>9. CASE Exit
  BY <1>9, DieOwned DEF Exit
<1>10. CASE Kill
  BY <1>10, DieOwned DEF Kill
<1>11. ASSUME NEW r \in Requests, Arrive(r) PROVE OwnedInv'
  <2>1. queue \in Seq(Requests) /\ Len(queue) \in Nat
    BY DEF TypeOK
  <2>2. /\ queue' = Append(queue, r) /\ conn[r] = "none"
        /\ conn' = [conn EXCEPT ![r] = "queued"] /\ UNCHANGED <<pc, req>>
    BY <1>11 DEF Arrive
  <2>3. /\ Len(queue') = Len(queue) + 1 /\ queue'[Len(queue) + 1] = r
        /\ \A i \in 1..Len(queue) : queue'[i] = queue[i] /\ queue'[i] \in Requests
    BY <2>1, <2>2
  <2>4. \A i \in 1..Len(queue) : queue[i] # r
    BY <2>2 DEF OwnedInv, QueueOK
  <2>5. QueueOK'
    <3>1. \A i \in 1..Len(queue') : i \in 1..Len(queue) \/ i = Len(queue) + 1
      BY <2>1, <2>3
    <3>2. \A i \in 1..Len(queue') : conn'[queue'[i]] = "queued"
      BY <2>2, <2>3, <3>1 DEF OwnedInv, QueueOK, TypeOK
    <3>3. ASSUME NEW i \in 1..Len(queue'), NEW j \in 1..Len(queue'),
                 queue'[i] = queue'[j]
          PROVE  i = j
      BY <2>3, <2>4, <3>1, <3>3 DEF OwnedInv, QueueOK
    <3> QED
      BY <3>2, <3>3 DEF QueueOK
  <2>6. ConnectionOwned' /\ RequestOK'
    BY <2>2, NamesAssumption DEF TypeOK, Shape, OwnedInv, ConnectionOwned,
       RequestOK, Serving
  <2> QED
    BY <2>5, <2>6 DEF OwnedInv
<1>12. ASSUME NEW w \in Workers, CreateThread(w) PROVE OwnedInv'
  BY <1>12 DEF CreateThread, TypeOK, Shape, OwnedInv, ConnectionOwned,
     QueueOK, RequestOK
<1>13. ASSUME NEW w \in Workers, InitRequest(w) PROVE OwnedInv'
  BY <1>13 DEF InitRequest, TypeOK, Shape, OwnedInv, ConnectionOwned, QueueOK,
     RequestOK
<1>14. ASSUME NEW w \in Workers, Lock(w) PROVE OwnedInv'
  <2>1. /\ conn' = [r \in Requests |-> IF r = req[w] THEN "finished" ELSE conn[r]]
        /\ req' = [req EXCEPT ![w] = Nobody] /\ pc' = [pc EXCEPT ![w] = "accept"]
        /\ UNCHANGED queue
    BY <1>14 DEF Lock
  <2>2. QueueOK'
    <3>1. ASSUME NEW i \in 1..Len(queue) PROVE conn'[queue[i]] = "queued"
      <4>1. queue[i] \in Requests /\ conn[queue[i]] = "queued"
        BY SMTT(30) DEF TypeOK, OwnedInv, QueueOK
      <4>2. queue[i] # req[w]
        BY <4>1, NamesAssumption DEF OwnedInv, RequestOK
      <4> QED
        BY <2>1, <4>1, <4>2
    <3> QED
      BY <2>1, <3>1 DEF OwnedInv, QueueOK
  <2>3. ConnectionOwned' /\ RequestOK'
    BY <2>1, NamesAssumption DEF TypeOK, Shape, OwnedInv, ConnectionOwned,
       RequestOK, Serving
  <2> QED
    BY <2>2, <2>3 DEF OwnedInv
<1>15. ASSUME NEW w \in Workers, Accept(w) PROVE OwnedInv'
  <2> DEFINE h == Head(queue)
  <2>1. queue \in Seq(Requests) /\ queue # <<>> /\ 1 \in 1..Len(queue)
    BY <1>15 DEF Accept, TypeOK
  <2>2. h \in Requests /\ h = queue[1] /\ conn[h] = "queued"
    BY <2>1 DEF OwnedInv, QueueOK
  <2>3. /\ Len(Tail(queue)) = Len(queue) - 1 /\ Len(queue) \in Nat
        /\ \A i \in 1..Len(Tail(queue)) : Tail(queue)[i] = queue[i + 1]
    BY <2>1, HeadTailProperties
  <2> HIDE DEF h
  <2>4. /\ queue' = Tail(queue) /\ conn' = [conn EXCEPT ![h] = "open"]
        /\ req' = [req EXCEPT ![w] = h] /\ pc' = [pc EXCEPT ![w] = "process"]
        /\ pc[w] = "accept"
    BY <1>15 DEF Accept, h
  <2>5. QueueOK'
    <3>1. ASSUME NEW i \in 1..Len(queue')
          PROVE  /\ i + 1 \in 1..Len(queue) /\ i + 1 # 1
                 /\ queue'[i] = queue[i + 1]
      BY <2>3, <2>4
    <3>2. ASSUME NEW i \in 1..Len(queue') PROVE conn'[queue'[i]] = "queued"
      <4>1. queue[i + 1] \in Requests /\ queue[i + 1] # h
        BY <2>1, <2>2, <3>1 DEF OwnedInv, QueueOK
      <4> QED
        BY <2>4, <3>1, <4>1 DEF TypeOK, OwnedInv, QueueOK
    <3>3. ASSUME NEW i \in 1..Len(queue'), NEW j \in 1..Len(queue'),
                 queue'[i] = queue'[j]
          PROVE  i = j
      <4>1. i + 1 = j + 1
        BY <3>1, <3>3 DEF OwnedInv, QueueOK
      <4> QED
        BY <4>1
    <3> QED
      BY <3>2, <3>3 DEF QueueOK
  <2>6. \A v \in Workers : req[v] # h
    BY <2>2, NamesAssumption DEF OwnedInv, RequestOK
  <2>7. req[w] = Nobody
    BY <2>4 DEF OwnedInv, RequestOK
  <2>8. RequestOK'
    BY <2>2, <2>4, <2>6 DEF TypeOK, OwnedInv, RequestOK
  <2>9. ASSUME NEW r \in Requests, conn'[r] = "open"
        PROVE  \E v \in Workers : req'[v] = r
    <3>1. CASE r = h
      BY <2>4, <3>1 DEF TypeOK
    <3>2. CASE r # h
      <4>1. PICK v \in Workers : req[v] = r
        BY <2>4, <2>9, <3>2 DEF TypeOK, OwnedInv, ConnectionOwned
      <4>2. v # w
        BY <2>7, <4>1, NamesAssumption
      <4> QED
        BY <2>4, <4>1, <4>2 DEF TypeOK
    <3> QED
      BY <3>1, <3>2
  <2>10. ASSUME NEW u \in Workers, NEW v \in Workers,
                req'[u] = req'[v], req'[v] # Nobody
         PROVE  u = v
    BY <2>4, <2>6, <2>10 DEF TypeOK, OwnedInv, ConnectionOwned
  <2>11. ASSUME NEW v \in Workers, pc'[v] \in {"process", "respond"}
         PROVE  conn'[req'[v]] = "open"
    BY <2>2, <2>4, <2>6, <2>11 DEF TypeOK, Shape, Serving, OwnedInv, ConnectionOwned
  <2> QED
    BY <2>5, <2>8, <2>9, <2>10, <2>11 DEF OwnedInv, ConnectionOwned
<1>16. ASSUME NEW w \in Workers, Loop(w) PROVE OwnedInv'
  BY <1>16 DEF Loop, TypeOK, Shape, OwnedInv, ConnectionOwned, QueueOK, RequestOK
<1>17. ASSUME NEW w \in Workers, GiveUp(w) PROVE OwnedInv'
  BY <1>17 DEF GiveUp, TypeOK, Shape, OwnedInv, ConnectionOwned, QueueOK, RequestOK
<1>18. ASSUME NEW w \in Workers, ProcessRequest(w) PROVE OwnedInv'
  <2>1. /\ pc' = [pc EXCEPT ![w] = "respond"] /\ pc[w] = "process"
        /\ UNCHANGED <<queue, conn, req>>
    BY <1>18 DEF ProcessRequest
  <2> QED
    BY <2>1 DEF TypeOK, OwnedInv, ConnectionOwned, QueueOK, RequestOK
<1>19. ASSUME NEW w \in Workers, Response(w) PROVE OwnedInv'
  <2>1. /\ conn' = [conn EXCEPT ![req[w]] = "finished"]
        /\ pc' \in {[pc EXCEPT ![w] = "acquire"], [pc EXCEPT ![w] = "loop"]}
        /\ UNCHANGED <<queue, req>> /\ pc[w] = "respond"
    BY <1>19 DEF Response, AfterResponse
  <2>2. req[w] \in Requests /\ conn[req[w]] = "open"
    BY <2>1 DEF Shape, Serving, OwnedInv, ConnectionOwned
  <2>3. QueueOK'
    <3>1. QueueOK /\ queue \in Seq(Requests) /\ queue' = queue /\ conn \in [Requests -> {"none", "queued", "open", "finished"}]
      BY <2>1 DEF TypeOK, OwnedInv
    <3>2. \A i \in 1..Len(queue) : queue[i] \in Requests /\ conn[queue[i]] = "queued"
      BY <3>1 DEF QueueOK
    <3>3. \A i \in 1..Len(queue) : conn'[queue[i]] = conn[queue[i]]
      BY <2>1, <2>2, <3>1, <3>2
    <3> QED
      BY <3>1, <3>2, <3>3 DEF QueueOK
  <2>4. RequestOK'
    BY <2>1, <2>2, NamesAssumption DEF TypeOK, OwnedInv, RequestOK
  <2>5. \A r \in Requests : conn'[r] = "open" => conn[r] = "open"
    BY <2>1, <2>2 DEF TypeOK
  <2>6. ASSUME NEW v \in Workers, pc'[v] \in {"process", "respond"}
        PROVE  conn'[req[v]] = "open"
    <3>1. v # w /\ pc[v] \in {"process", "respond"}
      BY <2>1, <2>6 DEF TypeOK
    <3>2. req[v] \in Requests /\ conn[req[v]] = "open"
      BY <3>1 DEF Shape, Serving, OwnedInv, ConnectionOwned
    <3>3. req[v] # req[w]
      BY <2>2, <3>1, NamesAssumption DEF OwnedInv, ConnectionOwned
    <3> QED
      BY <2>1, <3>2, <3>3 DEF TypeOK
  <2>7. ConnectionOwned'
    BY <2>1, <2>5, <2>6 DEF OwnedInv, ConnectionOwned
  <2> QED
    BY <2>3, <2>4, <2>7 DEF OwnedInv
<1>20. ASSUME NEW w \in Workers, Acquire(w) PROVE OwnedInv'
  BY <1>20 DEF Acquire, TypeOK, Shape, OwnedInv, ConnectionOwned, QueueOK, RequestOK
<1>21. ASSUME NEW w \in Workers, Load(w) PROVE OwnedInv'
  BY <1>21 DEF Load, TypeOK, Shape, OwnedInv, ConnectionOwned, QueueOK, RequestOK
<1>22. ASSUME NEW w \in Workers, Store(w) PROVE OwnedInv'
  BY <1>22, SMTT(30) DEF Store, TypeOK, Shape, OwnedInv, ConnectionOwned, QueueOK, RequestOK
<1>23. ASSUME NEW w \in Workers, ReadParams(w) PROVE OwnedInv'
  BY <1>23 DEF ReadParams, TypeOK, Shape, OwnedInv, ConnectionOwned, QueueOK,
     RequestOK
<1>24. ASSUME NEW w \in Workers, BuildOffer(w) PROVE OwnedInv'
  <2>1. /\ pc' \in {[pc EXCEPT ![w] = "count"], [pc EXCEPT ![w] = "unwind"]}
        /\ pc[w] = "offer" /\ UNCHANGED <<queue, conn, req>>
    BY <1>24 DEF BuildOffer
  <2>2. ASSUME NEW v \in Workers
        PROVE  pc'[v] \in {"process", "respond", "none", "init", "accept", "exited"}
                   => pc'[v] = pc[v]
    BY <2>1 DEF TypeOK
  <2> QED
    BY <2>1, <2>2 DEF OwnedInv, ConnectionOwned, QueueOK, RequestOK
<1>25. ASSUME NEW w \in Workers, EndOffers(w) PROVE OwnedInv'
  BY <1>25 DEF EndOffers, TypeOK, Shape, OwnedInv, ConnectionOwned, QueueOK,
     RequestOK
<1>26. ASSUME NEW w \in Workers, InsertOne(w) PROVE OwnedInv'
  BY <1>26 DEF InsertOne, TypeOK, Shape, OwnedInv, ConnectionOwned, QueueOK,
     RequestOK
<1>27. ASSUME NEW w \in Workers, EndSave(w) PROVE OwnedInv'
  BY <1>27 DEF EndSave, Leave, TypeOK, Shape, OwnedInv, ConnectionOwned,
     QueueOK, RequestOK
<1>28. ASSUME NEW w \in Workers, Unwind(w) PROVE OwnedInv'
  BY <1>28 DEF Unwind, Leave, TypeOK, Shape, OwnedInv, ConnectionOwned,
     QueueOK, RequestOK
<1>29. ASSUME NEW w \in Workers, InitRequestFails(w) PROVE OwnedInv'
  BY <1>29 DEF InitRequestFails, TypeOK, Shape, OwnedInv, ConnectionOwned,
     QueueOK, RequestOK
<1>30. ASSUME NEW w \in Workers, AcceptFails(w) PROVE OwnedInv'
  BY <1>30 DEF AcceptFails, TypeOK, Shape, OwnedInv, ConnectionOwned, QueueOK,
     RequestOK
<1>31. ASSUME NEW w \in Workers, ResponseFails(w) PROVE OwnedInv'
  BY <1>31 DEF ResponseFails, AfterResponse, TypeOK, Shape, OwnedInv,
     ConnectionOwned, QueueOK, RequestOK
<1>32. ASSUME NEW w \in Workers, InsertThrows(w) PROVE OwnedInv'
  BY <1>32 DEF InsertThrows, TypeOK, Shape, OwnedInv, ConnectionOwned,
     QueueOK, RequestOK
<1>33. CASE UNCHANGED vars
  BY <1>33 DEF TypeOK, Shape, OwnedInv, ConnectionOwned, QueueOK, RequestOK
<1> QED
  BY <1>1, <1>2, <1>3, <1>4, <1>5, <1>6, <1>7, <1>8, <1>9, <1>10, <1>11,
     <1>12, <1>13, <1>14, <1>15, <1>16, <1>17, <1>18, <1>19, <1>20, <1>21,
     <1>22, <1>23, <1>24, <1>25, <1>26, <1>27, <1>28, <1>29, <1>30, <1>31,
     <1>32, <1>33
     DEF Next, Environment, MainStep, MainFails, WorkerStep, WorkerFails

-----------------------------------------------------------------------------
(* The theorems.                                                           *)

\* The inductive invariant of the service.
Inv ==
    /\ TypeOK /\ Shape /\ AcceptExclusive
    /\ NoWorkersYet /\ NoUseAfterFree
    /\ StatusInv /\ CollectionInv /\ PoolInv /\ OwnedInv

\* Inv holds initially.
LEMMA InitInv == Init => Inv
<1> SUFFICES ASSUME Init PROVE Inv
  OBVIOUS
<1>1. TypeOK /\ Shape
  BY InitShape
<1>2. AcceptExclusive
  BY NamesAssumption DEF Init, AcceptExclusive
<1>3. NoWorkersYet /\ NoUseAfterFree
  BY DEF Init, NoWorkersYet, NoUseAfterFree
<1>4. StatusInv
  BY DEF Init, StatusInv, StatusNeverOverreports, LoadedIsOld
<1>5. CollectionInv
  BY DEF Init, CollectionInv
<1>6. PoolInv
  <2>1. IsFiniteSet({}) /\ Cardinality({}) = 0
    BY FS_EmptySet
  <2> QED
    BY <2>1, BoundsAssumption DEF Init, PoolInv, PoolConserved, Creating, Saving
<1>7. OwnedInv
  BY DEF Init, OwnedInv, ConnectionOwned, QueueOK, RequestOK
<1> QED
  BY <1>1, <1>2, <1>3, <1>4, <1>5, <1>6, <1>7 DEF Inv

\* Inv is preserved by every step.
LEMMA NextInv == Inv /\ [Next]_vars => Inv'
<1> SUFFICES ASSUME Inv, [Next]_vars PROVE Inv'
  OBVIOUS
<1> USE DEF Inv
<1>1. TypeOK' /\ Shape'
  BY StepShape
<1>2. AcceptExclusive'
  BY StepAccept
<1>3. NoWorkersYet' /\ NoUseAfterFree'
  BY StepNoWorkersYet, StepNoUseAfterFree
<1>4. StatusInv' /\ CollectionInv'
  BY StepStatus, StepCollection
<1>5. PoolInv' /\ OwnedInv'
  BY StepPool, StepOwned
<1> QED
  BY <1>1, <1>2, <1>3, <1>4, <1>5

\* Inv holds in every reachable state.
THEOREM Invariance == Spec => []Inv
  BY InitInv, NextInv, PTL DEF Spec

\* The variables keep their types: in particular every offer, document,
\* counter and request the threads of ProcessRequest index exists.
THEOREM TypeCorrect == Spec => []TypeOK
<1>1. Inv => TypeOK
  BY DEF Inv
<1> QED
  BY <1>1, Invariance, PTL

\* Serve never has two threads in FCGX_Accept_r, and accept_mutex is free
\* whenever none is.
THEOREM AcceptIsExclusive == Spec => []AcceptExclusive
<1>1. Inv => AcceptExclusive
  BY DEF Inv
<1> QED
  BY <1>1, Invariance, PTL

\* Every accepted connection Serve has not finished has exactly one worker.
THEOREM ConnectionsAreOwned == Spec => []ConnectionOwned
<1>1. Inv => ConnectionOwned
  BY DEF Inv, OwnedInv
<1> QED
  BY <1>1, Invariance, PTL

\* pool.acquire is paired with a release on every path of ProcessRequest.
THEOREM PoolIsConserved == Spec => []PoolConserved
<1>1. Inv => PoolConserved
  BY DEF Inv, PoolInv
<1> QED
  BY <1>1, Invariance, PTL

\* BaseCore::Status never shows more than was processed, with any number of
\* threads racing on the counters.
THEOREM StatusIsLowerBound == Spec => []StatusNeverOverreports
<1>1. Inv => StatusNeverOverreports
  BY DEF Inv, StatusInv
<1> QED
  BY <1>1, Invariance, PTL

\* ~CgiService destroys a pool that has all its clients, and the exit after it
\* cuts off no accepted connection.
THEOREM EndIsOrderly == Spec => []OrderlyEnd
<1>1. ASSUME Inv PROVE OrderlyEnd
  <2> SUFFICES ASSUME svc = "deleted" PROVE inUse = {} /\ \A r \in Requests : conn[r] # "open"
    BY DEF OrderlyEnd
  <2>1. \A w \in Workers : pc[w] = "exited"
    BY <1>1 DEF Inv, NoUseAfterFree
  <2>2. \A w \in Workers : w \notin inUse /\ req[w] = Nobody
    BY <1>1, <2>1 DEF Inv, PoolInv, PoolConserved, Saving, OwnedInv, RequestOK
  <2>3. Main \notin inUse
    BY <1>1 DEF Inv, PoolInv, PoolConserved, Creating
  <2>4. inUse = {}
    BY <1>1, <2>2, <2>3 DEF Inv, TypeOK
  <2>5. \A r \in Requests : conn[r] # "open"
    BY <1>1, <2>2, NamesAssumption DEF Inv, OwnedInv, ConnectionOwned
  <2> QED
    BY <2>4, <2>5
<1> QED
  BY <1>1, Invariance, PTL

\* insert_many never creates the impression collection: only a worker inserts,
\* and no worker runs before CheckLogDatabase has created it.
LEMMA NoImplicitCreation ==
    ASSUME Inv, [Next]_vars PROVE collection = "absent" => collection' # "plain"
<1> USE DEF vars, process, store, clients, status, locals, core, saving
<1> SUFFICES ASSUME collection = "absent", collection' # "absent"
             PROVE  collection' = "capped"
  BY DEF Inv, TypeOK
<1>1. ~Up
  BY DEF Inv, CollectionInv, Up, Listening
<1>2. CASE CheckLogDatabase
  BY <1>2 DEF CheckLogDatabase
<1>3. CASE Start \/ OpenSocket \/ EndConstructor \/ Destroy \/ UNCHANGED vars
  BY <1>3 DEF Start, OpenSocket, EndConstructor, Destroy
<1>4. CASE CheckLogDatabaseThrows \/ OpenSocketFails \/ CreateThreadFails \/ Exit \/ Kill
  BY <1>4 DEF CheckLogDatabaseThrows, OpenSocketFails, CreateThreadFails,
     Exit, Kill, Die
<1>5. CASE (\E w \in Workers : CreateThread(w)) \/ (\E r \in Requests : Arrive(r))
  BY <1>5 DEF CreateThread, Arrive
<1>6. ASSUME NEW w \in Workers, WorkerStep(w) \/ WorkerFails(w) PROVE FALSE
  BY <1>1, <1>6 DEF WorkerStep, WorkerFails, InitRequest, Lock, Accept, Loop,
     GiveUp,
     ProcessRequest, Response, Acquire, Load, Store, ReadParams, BuildOffer,
     EndOffers, InsertOne, EndSave, Unwind, InitRequestFails, AcceptFails,
     ResponseFails, InsertThrows
<1> QED
  BY <1>2, <1>3, <1>4, <1>5, <1>6 DEF Next, Environment, MainStep, MainFails

\* The action property: no insert_many of any worker, over any number of failed
\* starts and crashes, finds the collection missing.
THEOREM CollectionIsOurs == Spec => NeverImplicitlyCreated
<1>1. Inv /\ [Next]_vars => [collection = "absent" => collection' # "plain"]_vars
  BY NoImplicitCreation
<1> QED
  BY <1>1, Invariance, PTL DEF Spec, NeverImplicitlyCreated

-----------------------------------------------------------------------------
(* CgiService implements ImpressionLog: every step of every thread, and     *)
(* every crash and restart, does to the impression collection what Log or   *)
(* Close allows, or nothing.                                                *)

\* The document of the k-th offer of the request w has in hand.
OwnDocument(w, k) == [req |-> req[w], item |-> k, test |-> test_mode[w]]

\* The offers the loop of ProcessSaveResults has left behind had all been
\* converted, and their documents are what the local vector holds.
BatchSoFar(w) ==
    LET in == input[req[w]] IN
    /\ ParamsConvert(in)
    /\ Len(documents[w]) = it[w] - 1 /\ it[w] - 1 <= Len(Offers(in))
    /\ \A k \in 1..(it[w] - 1) : Builds(Offers(in)[k]) /\ Counts(Offers(in)[k])

\* What a worker's place says of the request it serves.
Admitted(w) ==
    LET in == input[req[w]] IN
    /\ pc[w] \in {"respond", "acquire"} \cup Saving => in.addr /\ in.script
    /\ pc[w] \in {"acquire"} \cup Saving => Answer(in) = "OK"
    /\ pc[w] \in {"respond", "acquire"} \cup Saving /\ Answer(in) = "OK" =>
          test_mode[w] \in TestModes(in)

\* ... and of the batch it saves.
BatchOK(w) ==
    /\ \A k \in 1..Len(documents[w]) : documents[w][k] = OwnDocument(w, k)
    /\ pc[w] \notin Saving => documents[w] = <<>> /\ it[w] = 0
    /\ pc[w] = "params" => it[w] = 0
    /\ pc[w] \in {"count", "store", "params"} /\ it[w] = 0 => documents[w] = <<>>
    /\ pc[w] \in {"count", "store", "offer"} /\ it[w] # 0 => BatchSoFar(w)
    /\ pc[w] = "insert" =>
          /\ Convertible(input[req[w]])
          /\ Len(documents[w]) = Len(Offers(input[req[w]]))
          /\ it[w] <= Len(documents[w]) + 1

\* Every worker saves only what its own request sent.
SavingInv == \A w \in Workers : Admitted(w) /\ BatchOK(w)

\* A response is written once, by what the request is, before its connection
\* is finished.
ReplyOnce == \A r \in Requests :
    reply[r] # <<>> => reply[r] = <<Answer(input[r])>> /\ conn[r] = "finished"

\* Every document in the collection is of a request that was accepted.
LogAdmitted == \A i \in DOMAIN impressions :
    LET in == input[impressions[i].req] IN
    Answer(in) = "OK" /\ impressions[i].test \in TestModes(in)

-----------------------------------------------------------------------------
(* The saving of a batch.                                                  *)

\* The items of a request are a sequence, whatever its body was.
LEMMA OffersType == ASSUME NEW in \in Input PROVE Offers(in) \in Seq(Offer)
  BY DEF Offers, Input

\* ... in particular those of the request a worker serves.
LEMMA OffersInHand ==
    ASSUME TypeOK, Shape, NEW w \in Workers, pc[w] \in Serving
    PROVE  Offers(input[req[w]]) \in Seq(Offer)
<1>1. input[req[w]] \in Input
  BY InputsAssumption DEF TypeOK, Shape
<1> QED
  BY <1>1, OffersType

\* The state of w that SavingInv speaks of is the same after the step.
SameSave(w) ==
    /\ UNCHANGED <<pc[w], req[w], test_mode[w], it[w], documents[w]>>
    /\ UNCHANGED input

\* What SavingInv says of w depends on nothing else.
LEMMA SaveFrame ==
    ASSUME NEW w \in Workers, Admitted(w), BatchOK(w), SameSave(w)
    PROVE  Admitted(w)' /\ BatchOK(w)'
BY DEF Admitted, BatchOK, SameSave, BatchSoFar, OwnDocument

\* A worker that serves no request has nothing to save.
LEMMA IdleSave ==
    ASSUME NEW w \in Workers, documents[w] = <<>>, it[w] = 0,
           pc[w] \notin {"respond", "acquire"} \cup Saving
    PROVE  Admitted(w) /\ BatchOK(w)
BY DEF Admitted, BatchOK, Saving

\* The end of the process leaves nothing to save.
LEMMA DieSave == ASSUME Die PROVE SavingInv'
<1> SUFFICES ASSUME NEW w \in Workers PROVE Admitted(w)' /\ BatchOK(w)'
  BY DEF SavingInv
<1>1. documents'[w] = <<>> /\ it'[w] = 0 /\ pc'[w] = "none"
  BY DEF Die
<1> QED
  BY <1>1 DEF Admitted, BatchOK, Saving

\* A step of w leaves the batches of the other workers alone.
LEMMA OthersSave ==
    ASSUME TypeOK, SavingInv, NEW w \in Workers,
           \A v \in Workers \ {w} : SameSave(v),
           Admitted(w)' /\ BatchOK(w)'
    PROVE  SavingInv'
BY SaveFrame DEF SavingInv

\* Every step preserves what is known of the batches.
LEMMA StepSave ==
    ASSUME TypeOK, Shape, SavingInv, [Next]_vars PROVE SavingInv'
<1> USE DEF vars, process, store, clients, status, locals, core, saving
<1> USE DEF Goto, Saving
<1> DEFINE Mine(w) == Admitted(w)' /\ BatchOK(w)'
<1> DEFINE Others(w) == \A v \in Workers \ {w} : SameSave(v)
<1>1. CASE \/ Start \/ CheckLogDatabase \/ OpenSocket \/ EndConstructor \/ Destroy
           \/ (\E r \in Requests : Arrive(r)) \/ UNCHANGED vars
  <2>1. \A w \in Workers : SameSave(w)
    BY <1>1 DEF Start, CheckLogDatabase, OpenSocket, EndConstructor, Destroy,
       Arrive, SameSave
  <2> QED
    BY <2>1, SaveFrame DEF SavingInv
<1>2. CASE CheckLogDatabaseThrows \/ OpenSocketFails \/ CreateThreadFails \/ Exit \/ Kill
  BY <1>2, DieSave DEF CheckLogDatabaseThrows, OpenSocketFails, CreateThreadFails,
     Exit, Kill
<1>3. ASSUME NEW w \in Workers,
             \/ CreateThread(w) \/ InitRequest(w) \/ InitRequestFails(w)
             \/ Lock(w) \/ Accept(w) \/ AcceptFails(w) \/ Loop(w) \/ GiveUp(w)
      PROVE  SavingInv'
  <2>1. /\ pc[w] \in {"none", "init", "lock", "accept", "loop", "process"}
        /\ pc'[w] \in {"init", "exited", "accept", "process", "lock", "loop"}
        /\ UNCHANGED <<documents, it>>
    BY <1>3 DEF CreateThread, InitRequest, InitRequestFails, Lock, Accept,
       AcceptFails, Loop, GiveUp, TypeOK
  <2>2. documents'[w] = <<>> /\ it'[w] = 0
    BY <2>1 DEF SavingInv, BatchOK
  <2>3. Mine(w)
    BY <2>1, <2>2 DEF Admitted, BatchOK
  <2>4. Others(w)
    BY <1>3 DEF CreateThread, InitRequest, InitRequestFails, Lock, Accept,
       AcceptFails, Loop, GiveUp, TypeOK, SameSave
  <2> QED
    BY <2>3, <2>4, OthersSave
<1>4. ASSUME NEW w \in Workers, ProcessRequest(w) PROVE SavingInv'
  <2>1. /\ pc[w] = "process" /\ pc'[w] = "respond"
        /\ UNCHANGED <<documents, it, input, req>>
        /\ input[req[w]].addr /\ input[req[w]].script
    BY <1>4 DEF ProcessRequest, TypeOK
  <2>2. Answer(input[req[w]]) = "OK" => test_mode'[w] \in TestModes(input[req[w]])
    BY <1>4 DEF ProcessRequest, TypeOK
  <2>3. documents'[w] = <<>> /\ it'[w] = 0
    BY <2>1 DEF SavingInv, BatchOK
  <2>4. Mine(w)
    BY <2>1, <2>2, <2>3 DEF Admitted, BatchOK
  <2>5. Others(w)
    BY <1>4 DEF ProcessRequest, TypeOK, SameSave
  <2> QED
    BY <2>4, <2>5, OthersSave
<1>5. ASSUME NEW w \in Workers, Response(w) \/ ResponseFails(w) PROVE SavingInv'
  <2>1. /\ pc[w] = "respond"
        /\ UNCHANGED <<documents, it, input, req, test_mode>>
        /\ \/ pc'[w] = "loop"
           \/ pc'[w] = "acquire" /\ Answer(input[req[w]]) = "OK"
    BY <1>5 DEF Response, ResponseFails, AfterResponse, TypeOK
  <2>2. Mine(w)
    BY <2>1 DEF SavingInv, Admitted, BatchOK
  <2>3. Others(w)
    BY <1>5 DEF Response, ResponseFails, AfterResponse, TypeOK, SameSave
  <2> QED
    BY <2>2, <2>3, OthersSave
<1>6. ASSUME NEW w \in Workers, Acquire(w) \/ Load(w) PROVE SavingInv'
  <2>1. /\ UNCHANGED <<documents, it, input, req, test_mode>>
        /\ \/ pc[w] = "acquire" /\ pc'[w] = "count"
           \/ pc[w] = "count" /\ pc'[w] = "store"
    BY <1>6 DEF Acquire, Load, TypeOK
  <2>2. Mine(w)
    BY <2>1 DEF SavingInv, Admitted, BatchOK, BatchSoFar, OwnDocument
  <2>3. Others(w)
    BY <1>6 DEF Acquire, Load, TypeOK, SameSave
  <2> QED
    BY <2>2, <2>3, OthersSave
<1>7. ASSUME NEW w \in Workers, Store(w) PROVE SavingInv'
  <2>1. /\ UNCHANGED <<documents, it, input, req, test_mode>>
        /\ pc[w] = "store"
        /\ \/ pc'[w] = "count"
           \/ pc'[w] = "params" /\ it[w] = 0
           \/ pc'[w] = "offer" /\ it[w] # 0
    BY <1>7 DEF Store, TypeOK
  <2>2. Mine(w)
    BY <2>1 DEF SavingInv, Admitted, BatchOK, BatchSoFar, OwnDocument
  <2>3. Others(w)
    BY <1>7 DEF Store, TypeOK, SameSave
  <2> QED
    BY <2>2, <2>3, OthersSave
<1>8. ASSUME NEW w \in Workers, ReadParams(w) PROVE SavingInv'
  <2>1. /\ UNCHANGED <<documents, input, req, test_mode>>
        /\ pc[w] = "params" /\ it'[w] = 1 /\ it[w] = 0 /\ documents[w] = <<>>
        /\ \/ pc'[w] = "unwind"
           \/ pc'[w] = "offer" /\ ParamsConvert(input[req[w]])
    BY <1>8 DEF ReadParams, TypeOK, Shape, SavingInv, BatchOK
  <2>2. Mine(w)
    <3>1. Admitted(w)'
      BY <2>1 DEF SavingInv, Admitted
    <3>2. BatchOK(w)'
      <4>1. Offers(input[req[w]]) \in Seq(Offer)
        BY <2>1, OffersInHand DEF Serving
      <4> QED
        BY <2>1, <4>1 DEF BatchOK, BatchSoFar
    <3> QED
      BY <3>1, <3>2
  <2>3. Others(w)
    BY <1>8 DEF ReadParams, TypeOK, SameSave
  <2> QED
    BY <2>2, <2>3, OthersSave
<1>9. ASSUME NEW w \in Workers, BuildOffer(w) PROVE SavingInv'
  <2> DEFINE offers == Offers(input[req[w]])
  <2> DEFINE o == offers[it[w]]
  <2> DEFINE d == OwnDocument(w, it[w])
  <2>1. /\ UNCHANGED <<input, req, test_mode>>
        /\ pc[w] = "offer" /\ params[w] = req[w] /\ it[w] <= Len(offers)
        /\ it[w] \in Nat \ {0} /\ documents[w] \in Seq(Document)
    BY <1>9 DEF BuildOffer, TypeOK, Shape
  <2>2. offers \in Seq(Offer)
    BY <2>1, OffersInHand DEF Serving
  <2>3. BatchSoFar(w) /\ \A k \in 1..Len(documents[w]) : documents[w][k] = OwnDocument(w, k)
    BY <2>1 DEF SavingInv, BatchOK
  <2>4. Len(documents[w]) = it[w] - 1
    BY <2>3 DEF BatchSoFar
  <2>5. documents'[w] = IF Builds(o) THEN Append(documents[w], d) ELSE documents[w]
    BY <1>9, <2>1 DEF BuildOffer, TypeOK, OwnDocument
  <2>6. \A k : OwnDocument(w, k)' = OwnDocument(w, k)
    BY <2>1 DEF OwnDocument
  <2>7. \A k \in 1..Len(documents'[w]) : documents'[w][k] = OwnDocument(w, k)
    <3> HIDE DEF d, o
    <3>1. CASE ~Builds(o)
      BY <2>3, <2>5, <3>1
    <3>2. CASE Builds(o)
      <4>1. documents'[w] = Append(documents[w], d)
        BY <2>5, <3>2
      <4>2. Len(documents'[w]) = it[w]
        BY <2>1, <2>4, <4>1
      <4>3. ASSUME NEW k \in 1..it[w] PROVE documents'[w][k] = OwnDocument(w, k)
        <5>1. CASE k = it[w]
          BY <2>1, <2>4, <4>1, <5>1 DEF d
        <5>2. CASE k # it[w]
          <6>1. k \in 1..Len(documents[w])
            BY <2>1, <2>4, <5>2
          <6>2. documents'[w][k] = documents[w][k]
            BY <2>1, <4>1, <6>1
          <6> QED
            BY <2>3, <6>1, <6>2
        <5> QED
          BY <5>1, <5>2
      <4> QED
        BY <4>2, <4>3
    <3> QED
      BY <3>1, <3>2
  <2>8. Others(w)
    BY <1>9 DEF BuildOffer, TypeOK, SameSave
  <2>9. CASE Builds(o) /\ Counts(o)
    <3>1. pc'[w] = "count" /\ it'[w] = it[w] + 1
      BY <1>9, <2>1, <2>9 DEF BuildOffer, TypeOK
    <3>2. Len(documents'[w]) = it[w]
      BY <2>1, <2>4, <2>5, <2>9
    <3>3. \A k \in 1..it[w] : Builds(offers[k]) /\ Counts(offers[k])
      BY <2>1, <2>3, <2>9 DEF BatchSoFar
    <3>4. BatchSoFar(w)'
      <4>1. ParamsConvert(input[req[w]])
        BY <2>3 DEF BatchSoFar
      <4>2. it'[w] - 1 = it[w] /\ input'[req'[w]] = input[req[w]]
        BY <2>1, <3>1
      <4> QED
        BY <2>1, <3>2, <3>3, <4>1, <4>2 DEF BatchSoFar
    <3>5. BatchOK(w)'
      BY <2>1, <2>6, <2>7, <3>1, <3>4 DEF BatchOK
    <3>6. Admitted(w)'
      BY <2>1, <3>1 DEF SavingInv, Admitted
    <3> QED
      BY <2>8, <3>5, <3>6, OthersSave
  <2>10. CASE ~(Builds(o) /\ Counts(o))
    <3>1. pc'[w] = "unwind" /\ it' = it
      BY <1>9, <2>1, <2>10 DEF BuildOffer, TypeOK
    <3>2. BatchOK(w)'
      BY <2>1, <2>6, <2>7, <3>1 DEF BatchOK
    <3>3. Admitted(w)'
      BY <2>1, <3>1 DEF SavingInv, Admitted
    <3> QED
      BY <2>8, <3>2, <3>3, OthersSave
  <2> QED
    BY <2>9, <2>10
<1>10. ASSUME NEW w \in Workers, EndOffers(w) PROVE SavingInv'
  <2> DEFINE offers == Offers(input[req[w]])
  <2>1. /\ UNCHANGED <<documents, input, req, test_mode>>
        /\ pc[w] = "offer" /\ pc'[w] = "insert" /\ params[w] = req[w]
        /\ it[w] > Len(offers) /\ it[w] \in Nat \ {0} /\ it'[w] = 1
    BY <1>10 DEF EndOffers, TypeOK, Shape
  <2>2. offers \in Seq(Offer)
    BY <2>1, OffersInHand DEF Serving
  <2>3. BatchSoFar(w)
    BY <2>1 DEF SavingInv, BatchOK
  <2>4. it[w] - 1 = Len(offers) /\ Len(documents[w]) = Len(offers)
    BY <2>1, <2>2, <2>3 DEF BatchSoFar
  <2>5. Convertible(input[req[w]])
    <3>1. DOMAIN offers = 1..(it[w] - 1)
      BY <2>2, <2>4
    <3> QED
      BY <2>3, <3>1 DEF BatchSoFar, Convertible
  <2>6. Admitted(w)'
    BY <2>1 DEF SavingInv, Admitted
  <2>7. BatchOK(w)'
    BY <2>1, <2>2, <2>4, <2>5 DEF SavingInv, BatchOK, OwnDocument
  <2>8. Others(w)
    BY <1>10 DEF EndOffers, TypeOK, SameSave
  <2> QED
    BY <2>6, <2>7, <2>8, OthersSave
<1>11. ASSUME NEW w \in Workers, InsertOne(w) PROVE SavingInv'
  <2>1. /\ UNCHANGED <<documents, input, req, test_mode, pc>>
        /\ pc[w] = "insert" /\ it[w] \in Nat \ {0} /\ it'[w] = it[w] + 1
        /\ it[w] <= Len(documents[w]) /\ Len(documents[w]) \in Nat
    BY <1>11 DEF InsertOne, TypeOK, Shape
  <2>2. Mine(w)
    BY <2>1 DEF SavingInv, Admitted, BatchOK, OwnDocument
  <2>3. Others(w)
    BY <1>11 DEF InsertOne, TypeOK, SameSave
  <2> QED
    BY <2>2, <2>3, OthersSave
<1>12. ASSUME NEW w \in Workers, InsertThrows(w) PROVE SavingInv'
  <2>1. /\ UNCHANGED <<documents, input, req, test_mode, it>>
        /\ pc[w] = "insert" /\ pc'[w] = "unwind"
    BY <1>12 DEF InsertThrows, TypeOK
  <2>2. Mine(w)
    BY <2>1 DEF SavingInv, Admitted, BatchOK, OwnDocument
  <2>3. Others(w)
    BY <1>12 DEF InsertThrows, TypeOK, SameSave
  <2> QED
    BY <2>2, <2>3, OthersSave
<1>13. ASSUME NEW w \in Workers, EndSave(w) \/ Unwind(w) PROVE SavingInv'
  <2>1. documents'[w] = <<>> /\ it'[w] = 0 /\ pc'[w] = "loop"
    BY <1>13 DEF EndSave, Unwind, Leave, TypeOK
  <2>2. Mine(w)
    BY <2>1 DEF Admitted, BatchOK
  <2>3. Others(w)
    BY <1>13 DEF EndSave, Unwind, Leave, TypeOK, SameSave
  <2> QED
    BY <2>2, <2>3, OthersSave
<1> QED
  BY <1>1, <1>2, <1>3, <1>4, <1>5, <1>6, <1>7, <1>8, <1>9, <1>10, <1>11, <1>12, <1>13
     DEF Next, Environment, MainStep, MainFails, WorkerStep, WorkerFails

-----------------------------------------------------------------------------
(* The connections.                                                        *)

\* FCGX_Accept_r has returned the connection, to a worker that may be done by now.
Accepted(r) == conn[r] \in {"open", "finished"}

\* No step undoes the accept of a connection, opens a finished one again or
\* changes what a client sent.
LEMMA StepConn ==
    ASSUME TypeOK, Shape, OwnedInv, [Next]_vars
    PROVE  /\ input' = input
           /\ \A r \in Requests : Accepted(r) => Accepted(r)'
           /\ \A r \in Requests : conn[r] = "finished" => conn'[r] = "finished"
<1> USE DEF vars, process, store, clients, status, locals, core, saving, Accepted
<1>1. CASE \E w \in Workers : Accept(w)
  <2>1. PICK w \in Workers : Accept(w)
    BY <1>1
  <2>2. queue \in Seq(Requests) /\ queue # <<>>
    BY <2>1 DEF Accept, TypeOK
  <2>3. Head(queue) \in Requests /\ conn[Head(queue)] = "queued"
    BY <2>2, HeadTailProperties DEF OwnedInv, QueueOK
  <2> QED
    BY <2>1, <2>3 DEF Accept, TypeOK
<1>2. CASE \E w \in Workers : Lock(w) \/ Response(w)
  BY <1>2 DEF Lock, Response, TypeOK
<1>3. CASE \E r \in Requests : Arrive(r)
  BY <1>3 DEF Arrive, TypeOK
<1>4. CASE CheckLogDatabaseThrows \/ OpenSocketFails \/ CreateThreadFails \/ Exit \/ Kill
  <2>1. Die
    BY <1>4 DEF CheckLogDatabaseThrows, OpenSocketFails, CreateThreadFails, Exit,
       Kill
  <2>2. \A r \in Requests :
           conn'[r] = IF conn[r] \in {"queued", "open"} THEN "finished" ELSE conn[r]
    BY <2>1 DEF Die
  <2>3. input' = input
    BY <2>1 DEF Die
  <2> QED
    BY <2>2, <2>3
<1>5. CASE /\ ~\E w \in Workers : Accept(w) \/ Lock(w) \/ Response(w)
           /\ ~\E r \in Requests : Arrive(r)
           /\ ~(CheckLogDatabaseThrows \/ OpenSocketFails \/ CreateThreadFails
                 \/ Exit \/ Kill)
  <2>1. UNCHANGED <<conn, input>>
    BY <1>5, ZenonT(40) DEF Next, Environment, MainStep, MainFails, WorkerStep, WorkerFails,
       Start, CheckLogDatabase, OpenSocket, EndConstructor, Destroy,
       CreateThread, InitRequest, InitRequestFails, AcceptFails, Loop,
       GiveUp, ProcessRequest, ResponseFails, Acquire, Load, Store, ReadParams,
       BuildOffer, EndOffers, InsertOne, InsertThrows, EndSave, Unwind, Leave
  <2> QED
    BY <2>1
<1> QED
  BY <1>1, <1>2, <1>3, <1>4, <1>5

-----------------------------------------------------------------------------
(* The responses.                                                          *)

\* Every step but Response leaves the responses alone, and no step takes a
\* finished connection back.
LEMMA StepReply ==
    ASSUME TypeOK, Shape, OwnedInv, ReplyOnce, [Next]_vars PROVE ReplyOnce'
<1>1. /\ input' = input
      /\ \A r \in Requests : conn[r] = "finished" => conn'[r] = "finished"
  BY StepConn DEF Accepted
<1> USE DEF vars, process, store, clients, status, locals, core, saving
<1>2. SUFFICES ASSUME NEW r \in Requests, reply'[r] # <<>>
               PROVE  reply'[r] = <<Answer(input[r])>> /\ conn'[r] = "finished"
  BY <1>1 DEF ReplyOnce
<1>3. CASE \E w \in Workers : Response(w)
  <2>1. PICK w \in Workers : Response(w)
    BY <1>3
  <2>2. req[w] \in Requests /\ conn[req[w]] = "open"
    BY <2>1 DEF Response, Shape, Serving, OwnedInv, ConnectionOwned
  <2>3. reply[req[w]] = <<>>
    BY <2>2 DEF ReplyOnce
  <2>4. Append(<<>>, Answer(input[req[w]])) = <<Answer(input[req[w]])>>
    OBVIOUS
  <2>5. /\ reply' = [reply EXCEPT ![req[w]] = <<Answer(input[req[w]])>>]
        /\ conn' = [conn EXCEPT ![req[w]] = "finished"]
    BY <2>1, <2>3, <2>4 DEF Response
  <2> QED
    BY <1>2, <2>2, <2>5 DEF TypeOK, ReplyOnce
<1>4. CASE ~\E w \in Workers : Response(w)
  <2>1. reply' = reply
    BY <1>4, ZenonT(40) DEF Next, Environment, MainStep, MainFails, WorkerStep, WorkerFails,
       Start, CheckLogDatabase, OpenSocket, EndConstructor, Destroy, Arrive,
       CheckLogDatabaseThrows, OpenSocketFails, CreateThreadFails, Exit, Kill, Die,
       CreateThread, InitRequest, InitRequestFails, Lock, Accept, AcceptFails, Loop,
       GiveUp, ProcessRequest, ResponseFails, Acquire, Load, Store,
       ReadParams, BuildOffer, EndOffers, InsertOne, InsertThrows, EndSave, Unwind,
       Leave
  <2>2. reply[r] = <<Answer(input[r])>> /\ conn[r] = "finished"
    BY <1>2, <2>1 DEF ReplyOnce
  <2>3. conn'[r] = "finished"
    BY <1>1, <2>2
  <2> QED
    BY <2>1, <2>2, <2>3
<1> QED
  BY <1>3, <1>4

-----------------------------------------------------------------------------
(* The documents.                                                          *)

\* Only insert_many touches the documents of the collection.
LEMMA OnlyInsertOne ==
    ASSUME [Next]_vars, \A w \in Workers : ~InsertOne(w)
    PROVE  impressions' = impressions
BY ZenonT(40) DEF vars, process, store, clients, status, locals, core, saving, Next,
   Environment, MainStep, MainFails, WorkerStep, WorkerFails, Start,
   CheckLogDatabase, OpenSocket, EndConstructor, Destroy, Arrive,
   CheckLogDatabaseThrows, OpenSocketFails, CreateThreadFails, Exit, Kill, Die,
   CreateThread, InitRequest, InitRequestFails, Lock, Accept, AcceptFails, Loop,
   GiveUp, ProcessRequest, Response, ResponseFails, Acquire, Load, Store,
   ReadParams, BuildOffer, EndOffers, InsertThrows, EndSave, Unwind, Leave

\* What is in the collection after an insert was there or is the new document.
LEMMA InsertMembers ==
    ASSUME NEW log \in Seq(Document), NEW d \in Document,
           NEW i \in DOMAIN Insert(log, d)
    PROVE  Insert(log, d)[i] = d \/ \E j \in DOMAIN log : Insert(log, d)[i] = log[j]
<1>1. CASE collection = "capped" /\ Len(log) >= CapMax
  <2>1. log # <<>>
    BY <1>1, BoundsAssumption
  <2>2. /\ Tail(log) \in Seq(Document) /\ Len(Tail(log)) = Len(log) - 1
        /\ \A j \in 1..Len(Tail(log)) : Tail(log)[j] = log[j + 1]
    BY <2>1, HeadTailProperties
  <2>3. Insert(log, d) = Append(Tail(log), d)
    BY <1>1 DEF Insert
  <2>4. i \in 1..Len(log)
    BY <2>2, <2>3
  <2>5. CASE i = Len(log)
    BY <2>2, <2>3, <2>5
  <2>6. CASE i # Len(log)
    <3>1. i \in 1..Len(Tail(log)) /\ i + 1 \in 1..Len(log)
      BY <2>2, <2>4, <2>6
    <3>2. Insert(log, d)[i] = log[i + 1]
      BY <2>2, <2>3, <3>1
    <3> QED
      BY <3>1, <3>2
  <2> QED
    BY <2>5, <2>6
<1>2. CASE ~(collection = "capped" /\ Len(log) >= CapMax)
  <2>1. Insert(log, d) = Append(log, d)
    BY <1>2 DEF Insert
  <2> QED
    BY <2>1
<1> QED
  BY <1>1, <1>2

\* What a worker is about to insert.
LEMMA NextDocument ==
    ASSUME TypeOK, Shape, SavingInv, NEW w \in Workers, InsertOne(w)
    PROVE  LET d == documents[w][it[w]] IN
           /\ d = OwnDocument(w, it[w]) /\ d \in Document
           /\ req[w] \in Requests /\ Loggable(input[req[w]])
           /\ test_mode[w] \in TestModes(input[req[w]])
           /\ it[w] \in 1..Len(Offers(input[req[w]]))
<1>1. /\ pc[w] = "insert" /\ req[w] \in Requests
      /\ it[w] \in Nat /\ it[w] # 0 /\ it[w] <= Len(documents[w])
      /\ documents[w] \in Seq(Document)
  BY DEF InsertOne, TypeOK, Shape, Serving, Saving
<1>2. it[w] \in 1..Len(documents[w])
  BY <1>1
<1>3. BatchOK(w) /\ Admitted(w)
  BY DEF SavingInv
<1>4. documents[w][it[w]] = OwnDocument(w, it[w])
  BY <1>2, <1>3 DEF BatchOK
<1>5. Len(documents[w]) = Len(Offers(input[req[w]])) /\ Convertible(input[req[w]])
  BY <1>1, <1>3 DEF BatchOK
<1>6. /\ input[req[w]].addr /\ input[req[w]].script /\ Answer(input[req[w]]) = "OK"
      /\ test_mode[w] \in TestModes(input[req[w]])
  BY <1>1, <1>3 DEF Admitted, Saving
<1> QED
  BY <1>1, <1>2, <1>4, <1>5, <1>6 DEF Loggable

\* Nothing reaches the collection but documents of accepted requests.
LEMMA StepLogAdmitted ==
    ASSUME TypeOK, Shape, OwnedInv, SavingInv, LogAdmitted, [Next]_vars
    PROVE  LogAdmitted'
<1>1. input' = input
  BY StepConn
<1>2. CASE \A w \in Workers : ~InsertOne(w)
  <2>1. impressions' = impressions
    BY <1>2, OnlyInsertOne
  <2> QED
    BY <1>1, <2>1 DEF LogAdmitted
<1>3. CASE \E w \in Workers : InsertOne(w)
  <2>1. PICK w \in Workers : InsertOne(w)
    BY <1>3
  <2> DEFINE d == documents[w][it[w]]
  <2>2. impressions' = Insert(impressions, d)
    BY <2>1 DEF InsertOne
  <2>3. /\ d \in Document /\ d.req = req[w] /\ d.test = test_mode[w]
        /\ Answer(input[req[w]]) = "OK" /\ test_mode[w] \in TestModes(input[req[w]])
    <3>1. /\ d \in Document /\ d = OwnDocument(w, it[w])
          /\ Loggable(input[req[w]]) /\ test_mode[w] \in TestModes(input[req[w]])
      BY <2>1, NextDocument
    <3> HIDE DEF d
    <3> QED
      BY <3>1 DEF OwnDocument, Loggable
  <2> HIDE DEF d
  <2>4. SUFFICES ASSUME NEW i \in DOMAIN impressions'
                 PROVE  /\ Answer(input[impressions'[i].req]) = "OK"
                        /\ impressions'[i].test \in TestModes(input[impressions'[i].req])
    BY <1>1 DEF LogAdmitted
  <2>5. impressions'[i] = d \/ \E j \in DOMAIN impressions : impressions'[i] = impressions[j]
    BY <2>2, <2>3, InsertMembers DEF TypeOK
  <2> QED
    BY <2>3, <2>5 DEF LogAdmitted
<1> QED
  BY <1>2, <1>3

-----------------------------------------------------------------------------
(* The invariant, and the properties it carries.                           *)

\* The inductive invariant: CgiServiceProofs' Inv, the batches in progress, the
\* responses written and the documents inserted.
SaveInv == Inv /\ SavingInv /\ ReplyOnce /\ LogAdmitted

\* SaveInv holds initially and is preserved by every step.
LEMMA SaveInvariance == Spec => []SaveInv
<1>1. Init => SaveInv
  <2> SUFFICES ASSUME Init PROVE SaveInv
    OBVIOUS
  <2>1. SavingInv
    BY IdleSave DEF Init, SavingInv, Saving
  <2>2. ReplyOnce /\ LogAdmitted
    BY DEF Init, ReplyOnce, LogAdmitted
  <2> QED
    BY <2>1, <2>2, InitInv DEF SaveInv
<1>2. SaveInv /\ [Next]_vars => SaveInv'
  <2> SUFFICES ASSUME SaveInv, [Next]_vars PROVE SaveInv'
    OBVIOUS
  <2>1. Inv /\ TypeOK /\ Shape /\ OwnedInv /\ SavingInv /\ ReplyOnce /\ LogAdmitted
    BY DEF SaveInv, Inv
  <2>2. Inv'
    BY <2>1, NextInv
  <2>3. SavingInv'
    BY <2>1, StepSave
  <2>4. ReplyOnce' /\ LogAdmitted'
    BY <2>1, StepReply, StepLogAdmitted
  <2> QED
    BY <2>2, <2>3, <2>4 DEF SaveInv
<1> QED
  BY <1>1, <1>2, PTL DEF Spec

\* ProcessRequest answers a client once at most, whatever the save that follows
\* the response throws, and nothing of a client it refused is logged.
THEOREM OneReplyOnly == Spec => []AtMostOneReply
<1>1. SaveInv => AtMostOneReply
  <2> SUFFICES ASSUME SaveInv, NEW r \in Requests
               PROVE  /\ Len(reply[r]) <= 1
                      /\ reply[r] = <<"503">> =>
                            \A i \in DOMAIN impressions : impressions[i].req # r
    BY DEF AtMostOneReply
  <2>1. reply[r] = <<>> \/ reply[r] = <<Answer(input[r])>>
    BY DEF SaveInv, ReplyOnce
  <2>2. Len(reply[r]) <= 1
    <3> DEFINE a == Answer(input[r])
    <3> HIDE DEF a
    <3>1. CASE reply[r] = <<>>
      <4>1. Len(reply[r]) = 0
        BY <3>1
      <4> QED
        BY <4>1
    <3>2. CASE reply[r] = <<a>>
      <4>1. Len(<<a>>) = 1
        OBVIOUS
      <4>2. Len(reply[r]) = 1
        BY <3>2, <4>1, Zenon
      <4> QED
        BY <4>2
    <3> QED
      BY <2>1, <3>1, <3>2 DEF a
  <2>3. ASSUME reply[r] = <<"503">> PROVE Answer(input[r]) # "OK"
    <3>1. <<"503">> # <<>> /\ (<<Answer(input[r])>> = <<"503">> => Answer(input[r]) = "503")
      OBVIOUS
    <3> QED
      BY <2>1, <2>3, <3>1
  <2> QED
    BY <2>2, <2>3 DEF SaveInv, LogAdmitted
<1> QED
  BY <1>1, SaveInvariance, PTL

\* Core::params is the request in hand whenever ProcessSaveResults reads it, and
\* every document carries its own request's test flag, for any number of threads
\* and any RecycleAt.
THEOREM DocumentsAreAttributed == Spec => []Attributed
<1>1. SaveInv => Attributed
  <2> SUFFICES ASSUME SaveInv PROVE Attributed
    OBVIOUS
  <2>1. ASSUME NEW w \in Workers, pc[w] \in Saving
        PROVE  /\ params[w] = req[w] /\ params[w] # Nobody
               /\ \A k \in DOMAIN documents[w] : documents[w][k].req = req[w]
    <3>1. params[w] = req[w] /\ req[w] \in Requests
      BY <2>1 DEF SaveInv, Inv, Shape, Serving
    <3>2. documents[w] \in Seq(Document) /\ BatchOK(w)
      BY DEF SaveInv, Inv, TypeOK, SavingInv
    <3>3. \A k \in DOMAIN documents[w] : documents[w][k] = OwnDocument(w, k)
      BY <3>2 DEF BatchOK
    <3>4. \A k : OwnDocument(w, k).req = req[w]
      BY DEF OwnDocument
    <3>5. params[w] # Nobody
      BY <3>1, NamesAssumption
    <3> QED
      BY <3>1, <3>3, <3>4, <3>5
  <2> QED
    BY <2>1 DEF Attributed, SaveInv, LogAdmitted
<1> QED
  BY <1>1, SaveInvariance, PTL

-----------------------------------------------------------------------------
(* The refinement mapping.                                                 *)

\* What writtenOf is without its CHOOSE: a request has one worker at most.
WrittenOK ==
    /\ writtenOf = [r \in Requests |-> writtenOf[r]]
    /\ \A r \in Requests :
          /\ \A w \in Workers : Inserting(w, r) => writtenOf[r] = it[w] - 1
          /\ (\A w \in Workers : ~Inserting(w, r)) => writtenOf[r] = 0

\* ConnectionOwned makes the CHOOSE in writtenOf pick the one worker there is.
LEMMA WrittenIs == Inv => WrittenOK
<1> SUFFICES ASSUME Inv PROVE WrittenOK
  OBVIOUS
<1>1. writtenOf = [r \in Requests |-> writtenOf[r]]
  BY DEF writtenOf
<1>2. ASSUME NEW r \in Requests, NEW w \in Workers, Inserting(w, r)
      PROVE  writtenOf[r] = it[w] - 1
  <2> DEFINE v == CHOOSE u \in Workers : Inserting(u, r)
  <2>1. v \in Workers /\ Inserting(v, r)
    BY <1>2
  <2>2. writtenOf[r] = it[v] - 1
    BY <1>2 DEF writtenOf
  <2> HIDE DEF v
  <2>3. req[w] = r /\ req[v] = r /\ r # Nobody
    BY <1>2, <2>1, NamesAssumption DEF Inserting
  <2>4. v = w
    BY <2>1, <2>3 DEF Inv, OwnedInv, ConnectionOwned
  <2> QED
    BY <2>2, <2>4
<1>3. ASSUME NEW r \in Requests, \A w \in Workers : ~Inserting(w, r)
      PROVE  writtenOf[r] = 0
  BY <1>3 DEF writtenOf
<1> QED
  BY <1>1, <1>2, <1>3 DEF WrittenOK

\* A closed request has nothing written.
LEMMA ClosedWritten ==
    ASSUME WrittenOK, NEW r \in closedOnes PROVE r \in Requests /\ writtenOf[r] = 0
BY DEF WrittenOK, closedOnes, Inserting, Serves, Saving

\* A step that leaves those alone who insert documents of r, leaves r alone.
LEMMA SameWritten ==
    ASSUME WrittenOK, WrittenOK', NEW r \in Requests,
           \A w \in Workers : Inserting(w, r)' <=> Inserting(w, r),
           \A w \in Workers : Inserting(w, r) => it'[w] = it[w]
    PROVE  writtenOf'[r] = writtenOf[r]
BY DEF WrittenOK, Inserting

\* A step that logs nothing and only ever closes requests is Close or a stutter.
LEMMA CloseOrStutter ==
    ASSUME WrittenOK, WrittenOK', UNCHANGED <<input, impressions>>,
           closedOnes \subseteq closedOnes',
           \A r \in Requests \ closedOnes' : writtenOf'[r] = writtenOf[r]
    PROVE  [Promise!Next]_(Promise!vars)
<1> DEFINE R == closedOnes' \ closedOnes
<1>1. \A r \in closedOnes : r \in Requests /\ writtenOf[r] = 0
  BY ClosedWritten
<1>2. \A r \in closedOnes' : r \in Requests /\ writtenOf'[r] = 0
  BY DEF WrittenOK, closedOnes, Inserting, Serves, Saving
<1>3. \A r \in Requests : writtenOf'[r] = IF r \in R THEN 0 ELSE writtenOf[r]
  BY <1>1, <1>2
<1>4. writtenOf' = [r \in Requests |-> writtenOf'[r]]
  BY DEF WrittenOK
<1>5. CASE R = {}
  <2>1. closedOnes' = closedOnes
    BY <1>5
  <2>2. writtenOf' = writtenOf
    BY <1>3, <1>4, <1>5 DEF WrittenOK
  <2> QED
    BY <2>1, <2>2 DEF Promise!vars
<1>6. CASE R # {}
  <2>1. R \in SUBSET Requests /\ R \subseteq Requests \ closedOnes
    BY <1>2
  <2>2. closedOnes' = closedOnes \cup R
    OBVIOUS
  <2>3. writtenOf' = [r \in Requests |-> IF r \in R THEN 0 ELSE writtenOf[r]]
    BY <1>3, <1>4
  <2> HIDE DEF R
  <2>4. Promise!Close(R)
    BY <1>6, <2>1, <2>2, <2>3 DEF Promise!Close
  <2> QED
    BY <2>1, <2>4 DEF Promise!Next
<1> QED
  BY <1>5, <1>6

-----------------------------------------------------------------------------
(* Every step is allowed.                                                  *)

\* A step that starts no insert, moves none on, and lets a worker serve only a
\* connection it just accepted.
Quiet ==
    /\ \A w \in Workers : (pc'[w] = "insert") <=> (pc[w] = "insert")
    /\ \A w \in Workers : pc[w] = "insert" => req'[w] = req[w] /\ it'[w] = it[w]
    /\ \A w \in Workers, r \in Requests :
          Serves(w, r)' /\ Accepted(r) => Serves(w, r)

\* No request is closed by such a step and served again later.
LEMMA QuietRefines ==
    ASSUME SaveInv, [Next]_vars, WrittenOK, WrittenOK', Quiet,
           impressions' = impressions
    PROVE  [Promise!Next]_(Promise!vars)
<1>1. input' = input /\ \A r \in Requests : Accepted(r) => Accepted(r)'
  BY StepConn DEF SaveInv, Inv
<1>2. closedOnes \subseteq closedOnes'
  BY <1>1 DEF Quiet, closedOnes, Accepted
<1>3. ASSUME NEW r \in Requests PROVE writtenOf'[r] = writtenOf[r]
  BY <1>3, SameWritten DEF Quiet, Inserting
<1> QED
  BY <1>1, <1>2, <1>3, CloseOrStutter

\* A worker that leaves the insert closes the request it served.
LEMMA LeaveRefines ==
    ASSUME SaveInv, [Next]_vars, WrittenOK, WrittenOK',
           NEW w \in Workers, InsertThrows(w) \/ EndSave(w)
    PROVE  [Promise!Next]_(Promise!vars)
<1> USE DEF vars, process, store, clients, status, locals, core, saving
<1> DEFINE q == req[w]
<1>1. TypeOK /\ Shape /\ OwnedInv
  BY DEF SaveInv, Inv
<1>2. input' = input /\ \A r \in Requests : Accepted(r) => Accepted(r)'
  BY <1>1, StepConn
<1>3. /\ pc[w] = "insert" /\ pc'[w] \in {"unwind", "loop"}
      /\ \A v \in Workers \ {w} : UNCHANGED <<pc[v], it[v]>>
      /\ UNCHANGED <<req, impressions, conn>>
  BY <1>1 DEF InsertThrows, EndSave, Leave, Goto, TypeOK
<1>4. q \in Requests /\ Accepted(q) /\ q # Nobody
  BY <1>1, <1>3, NamesAssumption DEF Shape, Serving, Saving, OwnedInv, RequestOK,
     Accepted
<1>5. \A v \in Workers : req[v] = q => v = w
  BY <1>1, <1>4 DEF OwnedInv, ConnectionOwned
<1>6. ~Serves(w, q)' /\ ~Inserting(w, q)'
  BY <1>3 DEF Serves, Inserting, Saving
<1>7. q \in closedOnes'
  BY <1>2, <1>3, <1>4, <1>5, <1>6 DEF closedOnes, Accepted, Serves
<1>8. closedOnes \subseteq closedOnes'
  BY <1>2, <1>3, <1>6 DEF closedOnes, Accepted, Serves, Saving
<1>9. ASSUME NEW r \in Requests, r # q PROVE writtenOf'[r] = writtenOf[r]
  BY <1>3, <1>9, SameWritten DEF Inserting
<1> QED
  BY <1>2, <1>3, <1>7, <1>8, <1>9, CloseOrStutter

\* The first document is still to be inserted when the loop over the offers ends.
LEMMA EndOffersRefines ==
    ASSUME SaveInv, [Next]_vars, WrittenOK, WrittenOK',
           NEW w \in Workers, EndOffers(w)
    PROVE  [Promise!Next]_(Promise!vars)
<1> USE DEF vars, process, store, clients, status, locals, core, saving
<1> DEFINE q == req[w]
<1>1. TypeOK /\ Shape /\ OwnedInv
  BY DEF SaveInv, Inv
<1>2. input' = input /\ \A r \in Requests : Accepted(r) => Accepted(r)'
  BY <1>1, StepConn
<1>3. /\ pc[w] = "offer" /\ pc'[w] = "insert" /\ it'[w] = 1
      /\ \A v \in Workers \ {w} : UNCHANGED <<pc[v], it[v]>>
      /\ UNCHANGED <<req, impressions, conn>>
  BY <1>1 DEF EndOffers, Goto, TypeOK
<1>4. q \in Requests /\ q # Nobody
  BY <1>1, <1>3, NamesAssumption DEF Shape, Serving, Saving
<1>5. \A v \in Workers : req[v] = q => v = w
  BY <1>1, <1>4 DEF OwnedInv, ConnectionOwned
<1>6. closedOnes \subseteq closedOnes'
  BY <1>2, <1>3 DEF closedOnes, Accepted, Serves, Saving
<1>7. ASSUME NEW r \in Requests, r # q PROVE writtenOf'[r] = writtenOf[r]
  BY <1>3, <1>7, SameWritten DEF Inserting
<1>8. writtenOf[q] = 0
  BY <1>3, <1>4, <1>5 DEF WrittenOK, Inserting
<1>9. writtenOf'[q] = 0
  BY <1>3, <1>4 DEF WrittenOK, Inserting
<1> QED
  BY <1>2, <1>3, <1>6, <1>7, <1>8, <1>9, CloseOrStutter

\* The end of the process closes every accepted request.
LEMMA DieRefines ==
    ASSUME SaveInv, [Next]_vars, WrittenOK, WrittenOK', Die
    PROVE  [Promise!Next]_(Promise!vars)
<1>1. TypeOK /\ Shape /\ OwnedInv
  BY DEF SaveInv, Inv
<1>2. input' = input /\ \A r \in Requests : Accepted(r) => Accepted(r)'
  BY <1>1, StepConn
<1>3. /\ \A w \in Workers : pc'[w] = "none"
      /\ impressions' = impressions
      /\ \A r \in Requests : conn'[r] = "finished" \/ conn'[r] = conn[r]
      /\ \A r \in Requests : conn[r] \in {"queued", "open"} => conn'[r] = "finished"
  BY DEF Die, store
<1>4. closedOnes \subseteq closedOnes'
  BY <1>2, <1>3 DEF closedOnes, Accepted, Serves, Saving
<1>5. ASSUME NEW r \in Requests \ closedOnes' PROVE writtenOf'[r] = writtenOf[r]
  <2>1. conn[r] = "none"
    BY <1>1, <1>2, <1>3, <1>5 DEF TypeOK, closedOnes, Accepted, Serves, Saving
  <2>2. \A w \in Workers : req[w] # r
    BY <1>1, <2>1, NamesAssumption DEF OwnedInv, RequestOK
  <2> QED
    BY <1>3, <2>2 DEF WrittenOK, Inserting
<1> QED
  BY <1>2, <1>3, <1>4, <1>5, CloseOrStutter

\* ImpressionLog reads a request as Params does.
LEMMA SameParams ==
    \A in : Promise!Offers(in) = Offers(in) /\ Promise!TestModes(in) = TestModes(in)
BY DEF Promise!Offers, Promise!Json, Promise!TestModes, Promise!Param,
   Promise!IsBoolean, Offers, Json, TestModes, Param, IsBoolean

\* insert_many logs the next document of a request that is not closed.
LEMMA InsertOneRefines ==
    ASSUME SaveInv, [Next]_vars, WrittenOK, WrittenOK',
           NEW w \in Workers, InsertOne(w)
    PROVE  [Promise!Next]_(Promise!vars)
<1> USE DEF vars, process, store, clients, status, locals, core, saving
<1> DEFINE q == req[w]
<1> DEFINE d == documents[w][it[w]]
<1>1. TypeOK /\ Shape /\ OwnedInv /\ SavingInv
  BY DEF SaveInv, Inv
<1>2. /\ pc[w] = "insert" /\ it'[w] = it[w] + 1 /\ it[w] \in Nat
      /\ \A v \in Workers \ {w} : it'[v] = it[v]
      /\ UNCHANGED <<pc, req, conn, input>>
      /\ impressions' = Insert(impressions, d)
  BY <1>1 DEF InsertOne, TypeOK
<1>3. /\ d = OwnDocument(w, it[w])
      /\ q \in Requests /\ Loggable(input[q])
      /\ test_mode[w] \in TestModes(input[q])
      /\ it[w] \in 1..Len(Offers(input[q]))
  BY <1>1, NextDocument
<1>4. closedOnes' = closedOnes /\ q \notin closedOnes
  BY <1>2, <1>3 DEF closedOnes, Serves, Saving
<1>5. writtenOf[q] = it[w] - 1 /\ writtenOf'[q] = it[w]
  BY <1>2, <1>3 DEF WrittenOK, Inserting
<1>6. ASSUME NEW r \in Requests, r # q PROVE writtenOf'[r] = writtenOf[r]
  BY <1>2, <1>6, SameWritten DEF Inserting
<1> HIDE DEF d
<1>7. writtenOf' = [writtenOf EXCEPT ![q] = @ + 1]
  BY <1>2, <1>3, <1>5, <1>6 DEF WrittenOK
<1>8. d = [req |-> q, item |-> writtenOf[q] + 1, test |-> test_mode[w]]
  <2>1. writtenOf[q] + 1 = it[w]
    BY <1>2, <1>5
  <2> QED
    BY <1>3, <2>1 DEF OwnDocument
<1>9. \/ impressions' = Append(impressions, d)
      \/ Len(impressions) >= CapMax /\ impressions' = Append(Tail(impressions), d)
  BY <1>2 DEF Insert
<1>10. writtenOf[q] < Len(Offers(input[q]))
  <2>1. Offers(input[q]) \in Seq(Offer)
    BY <1>1, <1>2, OffersInHand DEF Serving, Saving
  <2> QED
    BY <1>2, <1>3, <1>5, <2>1
<1>11. Promise!Log(q)
  <2> DEFINE Logged(t) ==
        LET e == [req |-> q, item |-> writtenOf[q] + 1, test |-> t] IN
        \/ impressions' = Append(impressions, e)
        \/ Len(impressions) >= CapMax /\ impressions' = Append(Tail(impressions), e)
  <2>1. Logged(test_mode[w])
    BY <1>8, <1>9
  <2>2. \E t \in TestModes(input[q]) : Logged(t)
    BY <1>3, <2>1
  <2>3. UNCHANGED <<input, closedOnes>>
    BY <1>2, <1>4
  <2> QED
    BY <1>3, <1>4, <1>7, <1>10, <2>2, <2>3, SameParams DEF Promise!Log
<1> QED
  BY <1>3, <1>11 DEF Promise!Next

\* Every step of every thread is Log, Close or a stutter of ImpressionLog.
LEMMA StepRefines ==
    SaveInv /\ WrittenOK /\ WrittenOK' /\ [Next]_vars => [Promise!Next]_(Promise!vars)
<1> SUFFICES ASSUME SaveInv, WrittenOK, WrittenOK', [Next]_vars
             PROVE  [Promise!Next]_(Promise!vars)
  OBVIOUS
<1> TypeOK /\ Shape /\ OwnedInv
  BY DEF SaveInv, Inv
<1>1. ASSUME NEW w \in Workers, InsertOne(w) PROVE [Promise!Next]_(Promise!vars)
  BY <1>1, InsertOneRefines
<1>2. ASSUME NEW w \in Workers, InsertThrows(w) \/ EndSave(w)
      PROVE  [Promise!Next]_(Promise!vars)
  BY <1>2, LeaveRefines
<1>3. ASSUME NEW w \in Workers, EndOffers(w) PROVE [Promise!Next]_(Promise!vars)
  BY <1>3, EndOffersRefines
<1>4. CASE CheckLogDatabaseThrows \/ OpenSocketFails \/ CreateThreadFails \/ Exit \/ Kill
  BY <1>4, DieRefines DEF CheckLogDatabaseThrows, OpenSocketFails,
     CreateThreadFails, Exit, Kill
<1> USE DEF vars, process, store, clients, status, locals, core, saving, Goto
<1>5. CASE \/ Start \/ CheckLogDatabase \/ OpenSocket \/ EndConstructor \/ Destroy
           \/ (\E r \in Requests : Arrive(r)) \/ UNCHANGED vars
  <2>1. UNCHANGED <<pc, req, it, impressions>>
    BY <1>5 DEF Start, CheckLogDatabase, OpenSocket, EndConstructor, Destroy, Arrive
  <2>2. Quiet
    BY <2>1 DEF Quiet, Serves
  <2> QED
    BY <2>1, <2>2, QuietRefines
<1>6. ASSUME NEW w \in Workers, Accept(w) PROVE [Promise!Next]_(Promise!vars)
  <2>1. queue \in Seq(Requests) /\ queue # <<>>
    BY <1>6 DEF Accept, TypeOK
  <2>2. Head(queue) \in Requests /\ ~Accepted(Head(queue))
    BY <2>1, HeadTailProperties DEF OwnedInv, QueueOK, Accepted
  <2>3. /\ req'[w] = Head(queue) /\ pc[w] = "accept" /\ pc'[w] = "process"
        /\ \A v \in Workers \ {w} : UNCHANGED <<pc[v], req[v]>>
        /\ UNCHANGED <<it, impressions>>
    BY <1>6 DEF Accept, TypeOK
  <2>4. Quiet
    BY <2>2, <2>3 DEF Quiet, Serves
  <2> QED
    BY <2>3, <2>4, QuietRefines
<1>7. ASSUME NEW w \in Workers,
             \/ CreateThread(w) \/ InitRequest(w) \/ InitRequestFails(w) \/ Lock(w)
             \/ AcceptFails(w) \/ Loop(w) \/ GiveUp(w) \/ Unwind(w)
      PROVE  [Promise!Next]_(Promise!vars)
  <2>1. /\ pc[w] \in {"none", "init", "lock", "accept", "loop", "process", "unwind"}
        /\ pc'[w] \in {"init", "exited", "accept", "lock", "loop"}
        /\ \A v \in Workers \ {w} : UNCHANGED <<pc[v], req[v], it[v]>>
        /\ impressions' = impressions
    BY <1>7 DEF CreateThread, InitRequest, InitRequestFails, Lock, AcceptFails,
       Loop, GiveUp, Unwind, Leave, TypeOK
  <2>2. Quiet
    BY <2>1 DEF Quiet, Serves, Saving
  <2> QED
    BY <2>1, <2>2, QuietRefines
<1>8. ASSUME NEW w \in Workers,
             \/ ProcessRequest(w) \/ Response(w) \/ ResponseFails(w) \/ Acquire(w)
             \/ Load(w) \/ Store(w) \/ ReadParams(w) \/ BuildOffer(w)
      PROVE  [Promise!Next]_(Promise!vars)
  <2>1. /\ pc[w] \in {"process", "respond", "acquire"} \cup (Saving \ {"unwind", "insert"})
        /\ pc'[w] # "insert" /\ pc'[w] \in Place
        /\ \A v \in Workers \ {w} : UNCHANGED <<pc[v], it[v]>>
        /\ UNCHANGED <<req, impressions>>
    BY <1>8, ZenonT(40) DEF ProcessRequest, Response, ResponseFails, AfterResponse, Acquire,
       Load, Store, ReadParams, BuildOffer, Saving, Place, TypeOK
  <2>2. Quiet
    BY <2>1 DEF Quiet, Serves, Saving
  <2> QED
    BY <2>1, <2>2, QuietRefines
<1> QED
  BY <1>1, <1>2, <1>3, <1>4, <1>5, <1>6, <1>7, <1>8
     DEF Next, Environment, MainStep, MainFails, WorkerStep, WorkerFails

\* CgiService implements ImpressionLog: whatever the threads, the failures, the
\* crashes and the restarts, the collection only grows by the next offer of a
\* request that is loggable and not closed.
THEOREM ServiceKeepsItsPromise == Spec => ImplementsImpressionLog
<1>1. Init => Promise!Init
  <2> SUFFICES ASSUME Init PROVE Promise!Init
    OBVIOUS
  <2>1. /\ \A w \in Workers : pc[w] = "none"
        /\ \A r \in Requests : conn[r] = "none"
        /\ input \in [Requests -> Inputs] /\ impressions = <<>>
    BY DEF Init
  <2>2. closedOnes = {}
    BY <2>1 DEF closedOnes
  <2>3. writtenOf = [r \in Requests |-> 0]
    BY <2>1 DEF writtenOf, Inserting
  <2> QED
    BY <2>1, <2>2, <2>3 DEF Promise!Init
<1>2. SaveInv => WrittenOK
  BY WrittenIs DEF SaveInv
<1> QED
  BY <1>1, <1>2, SaveInvariance, StepRefines, PTL
     DEF Spec, ImplementsImpressionLog, Promise!Spec

-----------------------------------------------------------------------------
(* What follows from that promise: whole batches, in order.                *)

\* The documents of the collection are those of requests whose batch could be
\* saved as a whole: a conversion that throws at any offer keeps the offers before
\* it out of the log as well, because insert_many comes after all of them.
WholeBatchesOnly ==
    \A i \in DOMAIN impressions : Loggable(input[impressions[i].req])

\* Nothing is logged twice and a request's impressions keep the order of its
\* offers, whatever other threads insert in between and however often the
\* process is restarted.
LoggedInOrder ==
    \A i, j \in DOMAIN impressions :
        i < j /\ impressions[i].req = impressions[j].req => impressions[i].item < impressions[j].item

\* Why: an open request has nothing in the log beyond what was written of it.
WrittenBounds ==
    \A i \in DOMAIN impressions :
        impressions[i].req \notin closedOnes => impressions[i].item <= writtenOf[impressions[i].req]

\* The documents that Log appends, and the type of what the promise is about.
Logged == [req : Requests, item : Nat, test : UNION {TestModes(in) : in \in Inputs}]
LogType ==
    /\ input \in [Requests -> Inputs]
    /\ impressions \in Seq(Logged)
    /\ writtenOf \in [Requests -> Nat]

PromiseInv == LogType /\ WholeBatchesOnly /\ LoggedInOrder /\ WrittenBounds

\* The invariant holds of the empty collection (Init).
LEMMA PromiseStarts == Promise!Init => PromiseInv
BY DEF Promise!Init, PromiseInv, LogType, WholeBatchesOnly, LoggedInOrder, WrittenBounds

\* A document at the end of the log, of an open request and with the next number,
\* keeps the order, whether the oldest document goes for it or not.
LEMMA LogKeeps ==
    ASSUME CapMax \in Nat \ {0}, PromiseInv, NEW r \in Requests, Promise!Log(r) PROVE PromiseInv'
<1>1. PICK t \in TestModes(input[r]) :
        LET new == [req |-> r, item |-> writtenOf[r] + 1, test |-> t] IN
        \/ impressions' = Append(impressions, new)
        \/ Len(impressions) >= CapMax /\ impressions' = Append(Tail(impressions), new)
    BY SameParams DEF Promise!Log
<1> DEFINE d == [req |-> r, item |-> writtenOf[r] + 1, test |-> t]
<1>2. d \in Logged
    BY DEF PromiseInv, LogType, Logged
<1>3. /\ input' = input /\ closedOnes' = closedOnes /\ r \notin closedOnes
      /\ Loggable(input[r])
      /\ writtenOf' = [writtenOf EXCEPT ![r] = @ + 1]
    BY DEF Promise!Log
<1>4. /\ impressions \in Seq(Logged) /\ writtenOf \in [Requests -> Nat]
      /\ input \in [Requests -> Inputs]
    BY DEF PromiseInv, LogType
<1>5. /\ d.req = r /\ d.item = writtenOf[r] + 1
      /\ \/ impressions' = Append(impressions, d)
         \/ Len(impressions) >= CapMax /\ impressions' = Append(Tail(impressions), d)
    BY <1>1
<1> HIDE DEF d
\* Every document but the last one was there before, dropped places further on.
<1>6. PICK dropped \in {0, 1} :
        /\ impressions' \in Seq(Logged)
        /\ dropped <= Len(impressions) /\ Len(impressions') = Len(impressions) - dropped + 1
        /\ impressions'[Len(impressions')] = d
        /\ \A i \in 1..(Len(impressions') - 1) : i + dropped \in DOMAIN impressions /\ impressions'[i] = impressions[i + dropped]
  <2>1. CASE impressions' = Append(impressions, d)
    BY <1>2, <1>4, <2>1
  <2>2. CASE Len(impressions) >= CapMax /\ impressions' = Append(Tail(impressions), d)
    <3>1. /\ Len(impressions) \in Nat \ {0} /\ impressions # <<>>
      BY <1>4, <2>2
    <3>2. /\ Tail(impressions) \in Seq(Logged) /\ Len(Tail(impressions)) = Len(impressions) - 1
          /\ \A i \in 1..(Len(impressions) - 1) : Tail(impressions)[i] = impressions[i + 1]
      BY <1>4, <3>1
    <3>3. /\ impressions' \in Seq(Logged) /\ Len(impressions') = Len(Tail(impressions)) + 1
          /\ impressions'[Len(impressions')] = d
          /\ \A i \in 1..Len(Tail(impressions)) : impressions'[i] = Tail(impressions)[i]
      BY <1>2, <2>2, <3>2
    <3>4. \A i \in 1..(Len(impressions') - 1) : i + 1 \in DOMAIN impressions /\ impressions'[i] = impressions[i + 1]
      BY <1>4, <3>1, <3>2, <3>3
    <3> WITNESS 1 \in {0, 1}
    <3> QED
      BY <3>1, <3>2, <3>3, <3>4
  <2> QED
    BY <1>5, <2>1, <2>2
<1>7. DOMAIN impressions = 1..Len(impressions) /\ DOMAIN impressions' = 1..Len(impressions') /\ Len(impressions) \in Nat
    BY <1>4, <1>6
<1>8. ASSUME NEW i \in DOMAIN impressions', i # Len(impressions')
      PROVE  /\ i \in 1..(Len(impressions') - 1)
             /\ i + dropped \in DOMAIN impressions /\ impressions'[i] = impressions[i + dropped]
    BY <1>6, <1>7, <1>8
<1>9. ASSUME NEW i \in DOMAIN impressions PROVE impressions[i].req \in Requests /\ impressions[i].item \in Nat
  <2>1. impressions[i] \in Logged
    BY <1>4, <1>7, <1>9
  <2> QED
    BY <2>1 DEF Logged
<1>10. LogType'
    BY <1>3, <1>4, <1>6 DEF LogType
<1>11. WholeBatchesOnly'
    BY <1>3, <1>5, <1>6, <1>8 DEF PromiseInv, WholeBatchesOnly
<1>12. WrittenBounds'
  <2> SUFFICES ASSUME NEW i \in DOMAIN impressions', impressions'[i].req \notin closedOnes
               PROVE  impressions'[i].item <= writtenOf'[impressions'[i].req]
    BY <1>3 DEF WrittenBounds
  <2>1. CASE i = Len(impressions')
    BY <1>3, <1>4, <1>5, <1>6, <2>1
  <2>2. CASE i # Len(impressions')
    BY <1>3, <1>4, <1>8, <1>9, <2>2 DEF PromiseInv, WrittenBounds
  <2> QED
    BY <2>1, <2>2
<1>13. LoggedInOrder'
  <2> SUFFICES ASSUME NEW i \in DOMAIN impressions', NEW j \in DOMAIN impressions',
                      i < j, impressions'[i].req = impressions'[j].req
               PROVE  impressions'[i].item < impressions'[j].item
    BY DEF LoggedInOrder
  <2>1. i # Len(impressions')
    BY <1>6, <1>7
  <2>2. CASE j = Len(impressions')
    <3>1. impressions'[j].req = r /\ impressions'[j].item = writtenOf[r] + 1
      BY <1>5, <1>6, <2>2
    <3>2. /\ i + dropped \in DOMAIN impressions /\ impressions'[i] = impressions[i + dropped]
          /\ impressions[i + dropped].req = r /\ impressions[i + dropped].item \in Nat
      BY <1>8, <1>9, <2>1, <3>1
    <3>3. impressions[i + dropped].item <= writtenOf[r]
      BY <1>3, <3>2 DEF PromiseInv, WrittenBounds
    <3> QED
      BY <1>4, <3>1, <3>2, <3>3
  <2>3. CASE j # Len(impressions')
    <3>1. /\ i + dropped \in DOMAIN impressions /\ impressions'[i] = impressions[i + dropped]
          /\ j + dropped \in DOMAIN impressions /\ impressions'[j] = impressions[j + dropped]
      BY <1>8, <2>1, <2>3
    <3>2. i + dropped < j + dropped
      BY <1>6, <1>7
    <3> QED
      BY <3>1, <3>2 DEF PromiseInv, LoggedInOrder
  <2> QED
    BY <2>2, <2>3
<1> QED
    BY <1>10, <1>11, <1>12, <1>13 DEF PromiseInv

\* Closing requests takes nothing out of the log.
LEMMA CloseKeeps ==
    ASSUME PromiseInv, NEW R \in SUBSET Requests, Promise!Close(R) PROVE PromiseInv'
<1>1. /\ input' = input /\ impressions' = impressions /\ closedOnes' = closedOnes \cup R
      /\ writtenOf' = [r \in Requests |-> IF r \in R THEN 0 ELSE writtenOf[r]]
    BY DEF Promise!Close
<1>2. LogType'
    BY <1>1 DEF PromiseInv, LogType
<1>3. WrittenBounds'
  <2> SUFFICES ASSUME NEW i \in DOMAIN impressions, impressions[i].req \notin closedOnes \cup R
               PROVE  impressions[i].item <= writtenOf'[impressions[i].req]
    BY <1>1 DEF WrittenBounds
  <2>1. impressions[i].req \in Requests
    <3>1. impressions[i] \in Logged
      BY DEF PromiseInv, LogType
    <3> QED
      BY <3>1 DEF Logged
  <2> QED
    BY <1>1, <2>1 DEF PromiseInv, WrittenBounds
<1> QED
    BY <1>1, <1>2, <1>3 DEF PromiseInv, WholeBatchesOnly, LoggedInOrder

\* Neither Log nor Close leads out of the invariant.
LEMMA PromiseKeeps == ASSUME CapMax \in Nat \ {0} PROVE PromiseInv /\ [Promise!Next]_(Promise!vars) => PromiseInv'
<1> SUFFICES ASSUME PromiseInv, [Promise!Next]_(Promise!vars) PROVE PromiseInv'
    OBVIOUS
<1>1. CASE \E r \in Requests : Promise!Log(r)
    BY <1>1, LogKeeps
<1>2. CASE \E R \in SUBSET Requests : Promise!Close(R)
    BY <1>2, CloseKeeps
<1>3. CASE UNCHANGED (Promise!vars)
    BY <1>3 DEF Promise!vars, PromiseInv, LogType, WholeBatchesOnly, LoggedInOrder, WrittenBounds
<1> QED
    BY <1>1, <1>2, <1>3 DEF Promise!Next

\* Whatever keeps the promise of ImpressionLog logs documents of whole batches
\* only, each at most once and in order, for any number of requests.
THEOREM LogIsOrdered == ImplementsImpressionLog => [](WholeBatchesOnly /\ LoggedInOrder)
<1>1. PromiseInv => WholeBatchesOnly /\ LoggedInOrder
  BY DEF PromiseInv
<1>2. PromiseInv /\ [Promise!Next]_(Promise!vars) => PromiseInv'
  BY PromiseKeeps, BoundsAssumption
<1> QED
  BY <1>1, <1>2, PromiseStarts, PTL DEF ImplementsImpressionLog, Promise!Spec

\* The impressions of the service are of whole batches, each at most once and
\* each request's in the order of its offers, for any number of threads and over
\* any number of crashes.
THEOREM ServiceLogIsOrdered == Spec => [](WholeBatchesOnly /\ LoggedInOrder)
BY LogIsOrdered, ServiceKeepsItsPromise, PTL
-----------------------------------------------------------------------------
(* What the status page says of the log, with one worker and one start.    *)

\* The offers counted as shown or retargeted.
Shown == counter["offer"] + counter["retargeting"]

\* The documents w is about to add, on top of those in the collection.
Held(w) == Len(impressions) + Len(documents[w])

\* What BuildOffer may have left to count.
NewOffer == {<<"offer">>, <<"retargeting">>,
             <<"offer", "social">>, <<"retargeting", "social">>}

\* The counters w has still to increment: those of the request, those of the
\* document it has just pushed, or the second of them.
Counting(w) ==
    \/ it[w] = 0 /\ todo[w] = <<"request">>
    \/ it[w] # 0 /\ todo[w] \in NewOffer /\ Held(w) <= Shown + 1
    \/ it[w] # 0 /\ todo[w] = <<"social">> /\ Held(w) <= Shown
       /\ counter["social"] < Shown

\* A document is pushed before it is counted, and all are counted before the
\* first is inserted: what is in hand is covered up to the last document, and
\* at the insert what is left to insert is covered too.
Covered(w) ==
    /\ Len(impressions) <= Shown /\ counter["social"] <= Shown
    /\ pc[w] \in {"count", "store"} => Counting(w)
    /\ pc[w] = "store" => reg[w] = counter[Head(todo[w])]
    /\ pc[w] = "offer" => Held(w) <= Shown
    /\ pc[w] = "insert" => Held(w) <= Shown + (it[w] - 1)

\* The end of the process zeroes the counters and keeps the log, so all this
\* holds before and during the first start only.
CoverInv(w) ==
    /\ starts <= 1 /\ (svc # "dead" => starts = 1)
    /\ svc # "dead" \/ starts = 0 => Covered(w)

\* The state Covered(w) speaks of is the same after the step.
SameCover(w) ==
    /\ UNCHANGED <<impressions, counter, documents[w], todo[w], it[w], reg[w]>>
    /\ UNCHANGED pc[w]

\* A worker outside the four places that build, count and insert owes nothing.
LEMMA QuietCover ==
    ASSUME NEW w \in Workers, Covered(w), UNCHANGED <<impressions, counter>>,
           pc'[w] \notin {"count", "store", "offer", "insert"}
    PROVE  Covered(w)'
BY DEF Covered, Shown

\* Two sequences of one element make the pair.
LEMMA PairIsConcat ==
    ASSUME NEW c, NEW e PROVE <<c>> \o <<e>> = <<c, e>>
<1> DEFINE S == {c, e}
<1>1. c \in S /\ e \in S
  OBVIOUS
<1> HIDE DEF S
<1>2. <<c>> \in Seq(S) /\ <<e>> \in Seq(S) /\ <<c, e>> \in Seq(S)
  BY <1>1
<1>3. Len(<<c>>) = 1 /\ Len(<<e>>) = 1 /\ <<c>>[1] = c /\ <<e>>[1] = e
  OBVIOUS
<1>4. Len(<<c, e>>) = 2 /\ <<c, e>>[1] = c /\ <<c, e>>[2] = e
  OBVIOUS
<1>5. <<c>> \o <<e>> \in Seq(S) /\ Len(<<c>> \o <<e>>) = 2
  BY <1>2, <1>3, ConcatProperties
<1>6. (<<c>> \o <<e>>)[1] = c /\ (<<c>> \o <<e>>)[2] = e
  BY <1>2, <1>3, ConcatProperties
<1> DEFINE s == <<c>> \o <<e>>
<1> DEFINE t == <<c, e>>
<1>7. /\ s \in Seq(S) /\ t \in Seq(S) /\ Len(s) = 2 /\ Len(t) = 2
      /\ s[1] = t[1] /\ s[2] = t[2]
  BY <1>2, <1>4, <1>5, <1>6
<1> HIDE DEF s, t
<1>8. \A i \in 1..Len(s) : s[i] = t[i]
  BY <1>7
<1>9. s = t
  BY <1>7, <1>8, SeqEqual
<1> QED
  BY <1>9 DEF s, t

\* BuildOffer leaves one of NewOffer.
LEMMA IncrementsNew == ASSUME NEW o PROVE Increments(o) \in NewOffer
<1>1. /\ <<"offer">> \o <<"social">> = <<"offer", "social">>
      /\ <<"retargeting">> \o <<"social">> = <<"retargeting", "social">>
  BY PairIsConcat
<1>2. <<"offer">> \o <<>> = <<"offer">> /\ <<"retargeting">> \o <<>> = <<"retargeting">>
  BY ConcatEmptySeq
<1> QED
  BY <1>1, <1>2 DEF Increments, NewOffer

\* An insert adds one document at most.
LEMMA InsertLength ==
    ASSUME NEW log \in Seq(Document), NEW d \in Document
    PROVE  Len(Insert(log, d)) <= Len(log) + 1
<1>1. CASE collection = "capped" /\ Len(log) >= CapMax
  <2>1. log # <<>>
    BY <1>1, BoundsAssumption
  <2>2. Tail(log) \in Seq(Document) /\ Len(Tail(log)) = Len(log) - 1
    BY <2>1, HeadTailProperties
  <2>3. Insert(log, d) = Append(Tail(log), d)
    BY <1>1 DEF Insert
  <2> QED
    BY <2>2, <2>3
<1>2. CASE ~(collection = "capped" /\ Len(log) >= CapMax)
  <2>1. Insert(log, d) = Append(log, d)
    BY <1>2 DEF Insert
  <2> QED
    BY <2>1
<1> QED
  BY <1>1, <1>2

\* The arithmetic of a document that is pushed, or inserted.
LEMMA OneMore ==
    ASSUME NEW n \in Nat, NEW d \in Nat, NEW s \in Nat, NEW i \in Nat, NEW m \in Nat
    PROVE  /\ n + d <= s => n + (d + 1) <= s + 1
           /\ m <= n + 1 /\ n + d <= s + (i - 1) => m + d <= s + ((i + 1) - 1)
           /\ m <= n + 1 /\ n + d <= s + (i - 1) /\ i <= d => m <= s
OBVIOUS

\* Every step of a process with one worker keeps the log covered.
LEMMA StepCover ==
    ASSUME NEW w \in Workers, Workers = {w}, MaxStarts = 1,
           TypeOK, Shape, SavingInv, CoverInv(w), [Next]_vars
    PROVE  CoverInv(w)'
<1> USE DEF vars, process, store, clients, status, locals, core, saving, Goto
<1> DEFINE Live == svc # "dead" \/ starts = 0
<1>0. /\ counter \in [Counter -> Nat] /\ impressions \in Seq(Document)
      /\ documents[w] \in Seq(Document) /\ todo[w] \in Seq(Counter)
      /\ it[w] \in Nat /\ reg[w] \in Nat /\ starts \in Nat
      /\ pc \in [Workers -> Place] /\ svc \in Phase
  BY DEF TypeOK
<1>00. /\ Shown \in Nat /\ Len(impressions) \in Nat /\ Len(documents[w]) \in Nat
       /\ counter["social"] \in Nat /\ counter["offer"] \in Nat
       /\ counter["retargeting"] \in Nat
  BY <1>0 DEF Shown, Counter
<1>1. CASE \/ Start \/ CheckLogDatabase \/ OpenSocket \/ EndConstructor \/ Destroy
           \/ (\E r \in Requests : Arrive(r)) \/ UNCHANGED vars
  <2>1. SameCover(w)
    BY <1>1 DEF Start, CheckLogDatabase, OpenSocket, EndConstructor, Destroy,
       Arrive, SameCover
  <2>2. Live' => Live
    BY <1>1, <1>0 DEF Start, CheckLogDatabase, OpenSocket, EndConstructor, Destroy,
       Arrive, CoverInv
  <2>3. starts' <= 1 /\ (svc' # "dead" => starts' = 1)
    BY <1>1, <1>0 DEF Start, CheckLogDatabase, OpenSocket, EndConstructor, Destroy,
       Arrive, CoverInv
  <2>4. Covered(w) => Covered(w)'
    BY <2>1 DEF SameCover, Covered, Counting, Held, Shown
  <2> QED
    BY <2>2, <2>3, <2>4 DEF CoverInv
<1>2. CASE CheckLogDatabaseThrows \/ OpenSocketFails \/ CreateThreadFails \/ Exit \/ Kill
  <2>1. svc # "dead" /\ svc' = "dead" /\ starts' = starts
    BY <1>2 DEF CheckLogDatabaseThrows, OpenSocketFails, CreateThreadFails, Exit,
       Kill, Die
  <2> QED
    BY <2>1 DEF CoverInv
<1>3. ASSUME NEW v \in Workers, CreateThread(v) \/ WorkerStep(v) \/ WorkerFails(v)
      PROVE  CoverInv(w)'
  <2>1. v = w
    OBVIOUS
  <2>2. svc # "dead" /\ UNCHANGED <<svc, starts>>
    BY <1>3 DEF CreateThread, WorkerStep, WorkerFails, InitRequest,
       InitRequestFails, Lock, Accept, AcceptFails, Loop, GiveUp, ProcessRequest,
       Response, ResponseFails, Acquire, Load, Store, ReadParams, BuildOffer,
       EndOffers, InsertOne, InsertThrows, EndSave, Unwind, Leave, Up, Listening,
       Creating
  <2>3. Covered(w)
    BY <2>2 DEF CoverInv
  <2>4. SUFFICES Covered(w)'
    BY <2>2 DEF CoverInv
  <2>5. BatchOK(w)
    BY DEF SavingInv
  <2>6. CASE \/ CreateThread(w) \/ InitRequest(w) \/ InitRequestFails(w) \/ Lock(w)
             \/ Accept(w) \/ AcceptFails(w) \/ Loop(w) \/ GiveUp(w)
             \/ ProcessRequest(w) \/ Response(w) \/ ResponseFails(w)
             \/ InsertThrows(w) \/ EndSave(w) \/ Unwind(w)
    <3>1. /\ UNCHANGED <<impressions, counter>>
          /\ pc'[w] \notin {"count", "store", "offer", "insert"}
      BY <2>6, <1>0 DEF CreateThread, InitRequest, InitRequestFails, Lock, Accept,
         AcceptFails, Loop, GiveUp, ProcessRequest, Response, ResponseFails,
         AfterResponse, InsertThrows, EndSave, Unwind, Leave
    <3> QED
      BY <2>3, <3>1, QuietCover
  <2>7. CASE Acquire(w)
    <3>1. /\ UNCHANGED <<impressions, counter, it>> /\ pc[w] = "acquire"
          /\ pc'[w] = "count" /\ todo'[w] = <<"request">>
      BY <2>7, <1>0 DEF Acquire, TypeOK
    <3>2. it[w] = 0
      BY <3>1, <2>5 DEF BatchOK, Saving
    <3> QED
      BY <2>3, <3>1, <3>2 DEF Covered, Counting, Shown
  <2>8. CASE Load(w)
    <3>1. /\ UNCHANGED <<impressions, counter, it, documents, todo>>
          /\ pc[w] = "count" /\ pc'[w] = "store" /\ reg'[w] = counter[Head(todo[w])]
      BY <2>8, <1>0 DEF Load, TypeOK
    <3> QED
      BY <2>3, <3>1 DEF Covered, Counting, Held, Shown
  <2>9. CASE Store(w)
    <3> DEFINE c == Head(todo[w])
    <3>1. /\ UNCHANGED <<impressions, it, documents>> /\ pc[w] = "store"
          /\ counter' = [counter EXCEPT ![c] = counter[c] + 1]
          /\ todo'[w] = Tail(todo[w])
          /\ pc'[w] = IF Len(todo[w]) > 1 THEN "count"
                      ELSE IF it[w] = 0 THEN "params" ELSE "offer"
      BY <2>9, <2>3, <1>0 DEF Store, TypeOK, Covered
    <3>2. Counting(w) /\ Len(impressions) <= Shown /\ counter["social"] <= Shown
      BY <2>3, <3>1 DEF Covered
    <3>3. CASE it[w] = 0 /\ todo[w] = <<"request">>
      <4>1. c = "request" /\ Len(todo[w]) = 1
        BY <3>3
      <4>2. \A k \in {"offer", "retargeting", "social"} : counter'[k] = counter[k]
        BY <3>1, <4>1, <1>0 DEF Counter
      <4>3. pc'[w] = "params"
        BY <3>1, <3>3, <4>1
      <4> QED
        BY <3>1, <3>2, <4>2, <4>3 DEF Covered, Shown
    <3>4. CASE it[w] # 0 /\ todo[w] \in NewOffer /\ Held(w) <= Shown + 1
      <4>1. c \in {"offer", "retargeting"}
        BY <3>4 DEF NewOffer
      <4>2. \/ Len(todo[w]) = 1
            \/ Len(todo[w]) = 2 /\ Tail(todo[w]) = <<"social">>
        <5>1. CASE todo[w] = <<"offer">> \/ todo[w] = <<"retargeting">>
          <6>1. Len(<<"offer">>) = 1 /\ Len(<<"retargeting">>) = 1
            OBVIOUS
          <6> QED
            BY <5>1, <6>1
        <5>2. CASE todo[w] = <<"offer", "social">>
          <6>1. Tail(<<"offer", "social">>) = <<"social">>
            OBVIOUS
          <6> QED
            BY <5>2, <6>1
        <5>3. CASE todo[w] = <<"retargeting", "social">>
          <6>1. Tail(<<"retargeting", "social">>) = <<"social">>
            OBVIOUS
          <6> QED
            BY <5>3, <6>1
        <5> QED
          BY <3>4, <5>1, <5>2, <5>3 DEF NewOffer
      <4>3. Shown' = Shown + 1 /\ counter'["social"] = counter["social"]
        <5> HIDE DEF c
        <5>1. CASE c = "offer"
          <6>1. /\ counter'["offer"] = counter["offer"] + 1
                /\ counter'["retargeting"] = counter["retargeting"]
                /\ counter'["social"] = counter["social"]
            BY <3>1, <5>1, <1>0 DEF Counter
          <6>2. Shown' = (counter["offer"] + 1) + counter["retargeting"]
            BY <6>1 DEF Shown
          <6>3. Shown = counter["offer"] + counter["retargeting"]
            BY DEF Shown
          <6>4. \A m, n \in Nat : (m + 1) + n = (m + n) + 1 /\ m + (n + 1) = (m + n) + 1
            OBVIOUS
          <6> QED
            BY <6>1, <6>2, <6>3, <6>4, <1>00
        <5>2. CASE c = "retargeting"
          <6>1. /\ counter'["retargeting"] = counter["retargeting"] + 1
                /\ counter'["offer"] = counter["offer"]
                /\ counter'["social"] = counter["social"]
            BY <3>1, <5>2, <1>0 DEF Counter
          <6>2. Shown' = counter["offer"] + (counter["retargeting"] + 1)
            BY <6>1 DEF Shown
          <6>3. Shown = counter["offer"] + counter["retargeting"]
            BY DEF Shown
          <6>4. \A m, n \in Nat : (m + 1) + n = (m + n) + 1 /\ m + (n + 1) = (m + n) + 1
            OBVIOUS
          <6> QED
            BY <6>1, <6>2, <6>3, <6>4, <1>00
        <5> QED
          BY <4>1, <5>1, <5>2
      <4>4. Held(w)' = Held(w) /\ Len(impressions') = Len(impressions)
        BY <3>1 DEF Held
      <4>5. \/ pc'[w] = "offer"
            \/ pc'[w] = "count" /\ todo'[w] = <<"social">>
        <5>1. CASE Len(todo[w]) = 1
          BY <3>1, <3>4, <5>1
        <5>2. CASE Len(todo[w]) = 2 /\ Tail(todo[w]) = <<"social">>
          BY <3>1, <5>2
        <5> QED
          BY <4>2, <5>1, <5>2
      <4>6. Held(w)' <= Shown' /\ Len(impressions') <= Shown' /\ counter'["social"] < Shown'
        <5> HIDE DEF c
        <5>1. Held(w) \in Nat
          BY <1>00 DEF Held
        <5> QED
          BY <3>2, <3>4, <4>3, <4>4, <1>00, <5>1
      <4>7. counter'["social"] <= Shown'
        BY <4>6, <4>3, <1>00
      <4> QED
        BY <3>1, <3>4, <4>5, <4>6, <4>7 DEF Covered, Counting
    <3>5. CASE /\ it[w] # 0 /\ todo[w] = <<"social">> /\ Held(w) <= Shown
               /\ counter["social"] < Shown
      <4>1. c = "social" /\ Len(todo[w]) = 1
        BY <3>5
      <4>2. Shown' = Shown /\ counter'["social"] = counter["social"] + 1
        BY <3>1, <4>1, <1>0, <1>00 DEF Counter, Shown
      <4>3. pc'[w] = "offer"
        BY <3>1, <3>5, <4>1
      <4>4. Held(w)' = Held(w) /\ Len(impressions') = Len(impressions)
        BY <3>1 DEF Held
      <4>5. counter'["social"] <= Shown'
        BY <3>5, <4>2, <1>00
      <4> QED
        BY <3>2, <3>5, <4>2, <4>3, <4>4, <4>5 DEF Covered
    <3> QED
      BY <3>2, <3>3, <3>4, <3>5 DEF Counting
  <2>10. CASE ReadParams(w)
    <3>1. /\ UNCHANGED <<impressions, counter, documents>> /\ pc[w] = "params"
          /\ pc'[w] \in {"offer", "unwind"}
      BY <2>10, <1>0 DEF ReadParams, TypeOK
    <3>2. Len(documents[w]) = 0
      BY <3>1, <2>5 DEF BatchOK, TypeOK, Shape
    <3> QED
      BY <2>3, <3>1, <3>2, <1>00 DEF Covered, Held, Shown
  <2>11. CASE BuildOffer(w)
    <3> DEFINE o == Offers(input[params[w]])[it[w]]
    <3> DEFINE d == [req |-> params[w], item |-> it[w], test |-> test_mode[w]]
    <3>1. /\ UNCHANGED <<impressions, counter>> /\ pc[w] = "offer"
          /\ \/ pc'[w] = "unwind"
             \/ /\ pc'[w] = "count" /\ it'[w] = it[w] + 1
                /\ todo'[w] = Increments(o)
                /\ documents'[w] = Append(documents[w], d)
      BY <2>11, <1>0 DEF BuildOffer, TypeOK
    <3> HIDE DEF o, d
    <3>2. CASE pc'[w] = "unwind"
      BY <2>3, <3>1, <3>2, QuietCover
    <3>3. CASE /\ pc'[w] = "count" /\ it'[w] = it[w] + 1
               /\ todo'[w] = Increments(o)
               /\ documents'[w] = Append(documents[w], d)
      <4>1. todo'[w] \in NewOffer
        BY <3>3, IncrementsNew
      <4>2. Len(documents'[w]) = Len(documents[w]) + 1
        BY <3>3, <1>0
      <4>3. it'[w] # 0
        BY <3>3, <1>0
      <4>4. Held(w) <= Shown
        BY <2>3, <3>1 DEF Covered
      <4>5. Held(w)' <= Shown' + 1
        <5>1. Shown' = Shown /\ Len(impressions') = Len(impressions)
          BY <3>1 DEF Shown
        <5>2. Held(w)' = Len(impressions) + (Len(documents[w]) + 1)
          BY <4>2, <5>1 DEF Held
        <5>3. Len(impressions) + Len(documents[w]) <= Shown
          BY <4>4 DEF Held
        <5>4. Len(impressions) + (Len(documents[w]) + 1) <= Shown + 1
          BY <5>3, <1>00, OneMore
        <5> QED
          BY <5>1, <5>2, <5>4
      <4> QED
        BY <2>3, <3>1, <3>3, <4>1, <4>3, <4>5 DEF Covered, Counting, Shown
    <3> QED
      BY <3>1, <3>2, <3>3
  <2>12. CASE EndOffers(w)
    <3>1. /\ UNCHANGED <<impressions, counter, documents>> /\ pc[w] = "offer"
          /\ pc'[w] = "insert" /\ it'[w] = 1
      BY <2>12, <1>0 DEF EndOffers, TypeOK
    <3> QED
      BY <2>3, <3>1, <1>00 DEF Covered, Held, Shown
  <2>13. CASE InsertOne(w)
    <3> DEFINE d == documents[w][it[w]]
    <3>1. /\ UNCHANGED <<counter, documents, pc>> /\ pc[w] = "insert"
          /\ it'[w] = it[w] + 1 /\ it[w] <= Len(documents[w])
          /\ impressions' = Insert(impressions, d)
      BY <2>13, <1>0 DEF InsertOne, TypeOK
    <3>2. d \in Document
      BY <2>13, NextDocument
    <3> HIDE DEF d
    <3>3. Len(impressions') <= Len(impressions) + 1 /\ Len(impressions') \in Nat
      <4>1. Len(impressions') <= Len(impressions) + 1
        BY <3>1, <3>2, <1>0, InsertLength
      <4>2. Insert(impressions, d) \in Seq(Document)
        BY <3>2, <1>0, InsertType
      <4> QED
        BY <3>1, <4>1, <4>2
    <3>4. Held(w) <= Shown + (it[w] - 1)
      BY <2>3, <3>1 DEF Covered
    <3>5. Shown' = Shown /\ documents'[w] = documents[w]
      BY <3>1 DEF Shown
    <3>6. Len(impressions) + Len(documents[w]) <= Shown + (it[w] - 1)
      BY <3>4 DEF Held
    <3>7. /\ Len(impressions') + Len(documents[w]) <= Shown + ((it[w] + 1) - 1)
          /\ Len(impressions') <= Shown
      <4>1. it[w] <= Len(documents[w])
        BY <3>1
      <4> QED
        BY <3>3, <3>6, <4>1, <1>0, <1>00, OneMore, ZenonT(40)
    <3>8. Held(w)' <= Shown' + (it'[w] - 1)
      BY <3>1, <3>5, <3>7 DEF Held
    <3>9. Len(impressions') <= Shown'
      BY <3>5, <3>7
    <3> QED
      BY <2>3, <3>1, <3>8, <3>9 DEF Covered, Shown
  <2> QED
    BY <1>3, <2>1, <2>6, <2>7, <2>8, <2>9, <2>10, <2>11, <2>12, <2>13
       DEF WorkerStep, WorkerFails
<1> QED
  BY <1>1, <1>2, <1>3 DEF Next, Environment, MainStep, MainFails

\* With one worker and one start of the process, every document in the
\* collection was counted by Core::ProcessSaveResults before it was inserted, and
\* every social offer it counted is among the shown and the retargeted ones.
THEOREM StatusCoversTheLog ==
    ASSUME NEW w \in Workers, Workers = {w}, MaxStarts = 1
    PROVE  Spec => []StatusCoversLog
<1>1. Init => CoverInv(w)
  BY DEF Init, CoverInv, Covered, Shown, Counter
<1>2. SaveInv /\ CoverInv(w) /\ [Next]_vars => CoverInv(w)'
  BY StepCover DEF SaveInv, Inv
<1>3. CoverInv(w) => StatusCoversLog
  BY DEF CoverInv, Covered, Shown, StatusCoversLog, Up, Listening, Creating
<1> QED
  BY <1>1, <1>2, <1>3, SaveInvariance, PTL DEF Spec
=============================================================================
