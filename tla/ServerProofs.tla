---------------------------- MODULE ServerProofs ----------------------------
(***************************************************************************)
(* Proofs about Server: the state keeps its type and a database interprets *)
(* one document at a time, for any clients, databases and bounds.          *)
(***************************************************************************)
EXTENDS Server, SequenceTheorems, TLAPS

\* A client that sends the input of a request has a request left.
Asking == \A c \in Clients : client[c] = "sending" => asked[c] < MaxRequests

\* A thread that interprets a document holds the mutex of its database.
HoldsLock == \A c \in Clients : InRun(c) => holder[db[c]] = c

ServerInduction == TypeOK /\ Asking /\ HoldsLock

\* What a reader leaves of a sequence of messages.
LEMMA RestTyped ==
    ASSUME NEW S, NEW s \in Seq(S), NEW k \in 1 .. Len(s)
    PROVE  /\ Rest(s, k) \in Seq(S)
           /\ SubSeq(s, 1, k) \in Seq(S)
           /\ Head(s) \in S
           /\ Tail(s) \in Seq(S)
<1>1. Len(s) \in Nat /\ k \in Nat
  BY LenProperties
<1>2. s # <<>>
  BY <1>1, EmptySeq
<1> QED
  BY <1>1, <1>2, SMT DEF Rest

LEMMA KeptTyped ==
    ASSUME NEW s \in Seq(FromClient), NEW k \in 0 .. Len(s), NEW whole \in BOOLEAN
    PROVE  Kept(s, k, whole) \in Seq(FromClient)
<1>1. Len(s) \in Nat /\ k \in Nat
  BY LenProperties
<1>2. ASSUME NEW i \in 1 .. k
      PROVE  [s[i] EXCEPT !.whole = @ /\ (i < k \/ whole)] \in FromClient
  <2>1. i \in 1 .. Len(s)
    BY <1>1
  <2>2. s[i] \in FromClient
    BY <2>1, ElementOfSeq
  <2>3. (s[i].whole /\ (i < k \/ whole)) \in BOOLEAN
    OBVIOUS
  <2> QED
    BY <2>2, <2>3 DEF FromClient
<1> QED
  BY <1>1, <1>2, IsASeq DEF Kept

LEMMA MessagesTyped ==
    /\ \A n \in 0 .. MaxRequests :
          \A what \in {"name", "json", "xml", "document"} : Sent(what, n) \in FromClient
    /\ \A n \in 0 .. MaxRequests :
          \A what \in {"ack", "include", "answer"} : Reply(what, n) \in FromServer
  BY DEF Sent, Reply, FromClient, FromServer

\* Writing a message of a type, in either direction.
LEMMA WriteTyped ==
    ASSUME TypeOK, NEW c \in Clients
    PROVE  /\ \A m \in FromClient : Write(c, m) =>
                 toServer' \in [Clients -> Seq(FromClient)]
           /\ \A m \in FromServer : Tell(c, m) =>
                 toClient' \in [Clients -> Seq(FromServer)]
<1>1. ASSUME NEW m \in FromClient, Write(c, m)
      PROVE  toServer' \in [Clients -> Seq(FromClient)]
  <2>1. Append(toServer[c], m) \in Seq(FromClient)
    BY AppendProperties DEF TypeOK
  <2> QED
    BY <1>1, <2>1 DEF Write, TypeOK
<1>2. ASSUME NEW m \in FromServer, Tell(c, m)
      PROVE  toClient' \in [Clients -> Seq(FromServer)]
  <2>1. Append(toClient[c], m) \in Seq(FromServer)
    BY AppendProperties DEF TypeOK
  <2> QED
    BY <1>2, <2>1 DEF Tell, TypeOK
<1> QED
  BY <1>1, <1>2

-----------------------------------------------------------------------------
(* The steps of a client and of the accept loop *)

LEMMA ClientKeeps ==
    ASSUME ServerInduction, NEW c \in Clients,
           \/ Connect(c) \/ SendJson(c) \/ AnswerInclude(c) \/ Leave(c)
           \/ ClientProtocol(c)
    PROVE  ServerInduction'
<1>1. MaxRequests \in Nat /\ 0 \in 0 .. MaxRequests
  BY ServerBounds
<1>2. TypeOK /\ Asking /\ HoldsLock
  BY DEF ServerInduction
<1>3. UNCHANGED <<handler, db, holder>>
  BY DEF Connect, SendName, ReadAck, SendJson, SendXml, AnswerInclude, ReadAnswer,
     Leave, ReadEnd, ClientProtocol, InCalls, threadVars, lockVars
<1>4. HoldsLock'
  BY <1>2, <1>3 DEF HoldsLock, InRun
<1>5. CASE Connect(c)
  <2>1. backlog' \in Seq(Clients)
    BY <1>2, <1>5, AppendProperties DEF Connect, TypeOK
  <2>2. client' \in [Clients -> ClientStates]
    BY <1>2, <1>5 DEF Connect, Become, TypeOK, ClientStates
  <2>3. TypeOK'
    BY <1>2, <1>5, <2>1, <2>2 DEF Connect, TypeOK, threadVars, lockVars
  <2>4. Asking'
    BY <1>2, <1>5 DEF Connect, Become, TypeOK, Asking
  <2> QED
    BY <1>4, <2>3, <2>4 DEF ServerInduction
<1>6. CASE SendName(c)
  <2>1. toServer' \in [Clients -> Seq(FromClient)]
    BY <1>1, <1>2, <1>6, MessagesTyped, WriteTyped DEF SendName
  <2>2. client' \in [Clients -> ClientStates]
    BY <1>2, <1>6 DEF SendName, Become, TypeOK, ClientStates
  <2>3. TypeOK'
    BY <1>2, <1>6, <2>1, <2>2 DEF SendName, TypeOK, threadVars, lockVars, acceptVars
  <2>4. Asking'
    BY <1>2, <1>6 DEF SendName, Become, TypeOK, Asking
  <2> QED
    BY <1>4, <2>3, <2>4 DEF ServerInduction
<1>7. CASE ReadAck(c)
  <2>1. toClient' \in [Clients -> Seq(FromServer)] /\ garbled' \subseteq Clients
    <3>1. CASE UNCHANGED <<toClient, garbled>>
      BY <1>2, <3>1 DEF TypeOK
    <3>2. ASSUME NEW k \in 1 .. Len(toClient[c]), Garble(c, toClient[c], "ack", k),
                 toClient' = [toClient EXCEPT ![c] = Rest(@, k)]
          PROVE  toClient' \in [Clients -> Seq(FromServer)] /\ garbled' \subseteq Clients
      BY <1>2, <3>2, RestTyped DEF TypeOK, Garble
    <3> QED
      BY <1>7, <3>1, <3>2 DEF ReadAck
  <2>2. client' \in [Clients -> ClientStates]
    BY <1>2, <1>7 DEF ReadAck, Become, TypeOK, ClientStates
  <2>3. TypeOK'
    BY <1>2, <1>7, <2>1, <2>2 DEF ReadAck, TypeOK, threadVars, lockVars, acceptVars
  <2>4. Asking'
    BY <1>2, <1>7 DEF ReadAck, Become, TypeOK, Asking
  <2> QED
    BY <1>4, <2>3, <2>4 DEF ServerInduction
<1>8. CASE SendJson(c)
  <2>1. asked[c] + 1 \in 0 .. MaxRequests /\ asked[c] < MaxRequests
    <3>1. asked[c] \in 0 .. MaxRequests
      BY <1>2 DEF TypeOK
    <3>2. asked[c] < MaxRequests
      BY <1>8 DEF SendJson
    <3> QED
      BY <1>1, <3>1, <3>2
  <2>2. toServer' \in [Clients -> Seq(FromClient)]
    BY <1>2, <1>8, <2>1, MessagesTyped, WriteTyped DEF SendJson
  <2>3. client' \in [Clients -> ClientStates]
    BY <1>2, <1>8 DEF SendJson, Become, TypeOK, ClientStates
  <2>4. TypeOK'
    BY <1>2, <1>8, <2>2, <2>3 DEF SendJson, TypeOK, threadVars, lockVars, acceptVars
  <2>5. Asking'
    BY <1>2, <1>8, <2>1 DEF SendJson, Become, TypeOK, Asking
  <2> QED
    BY <1>4, <2>4, <2>5 DEF ServerInduction
<1>9. CASE SendXml(c)
  <2>1. asked[c] + 1 \in 0 .. MaxRequests
    BY <1>1, <1>2, <1>9 DEF SendXml, TypeOK, Asking
  <2>2. toServer' \in [Clients -> Seq(FromClient)]
    BY <1>2, <1>9, <2>1, MessagesTyped, WriteTyped DEF SendXml
  <2>3. /\ client' \in [Clients -> ClientStates]
        /\ asked' \in [Clients -> 0 .. MaxRequests]
    BY <1>2, <1>9, <2>1 DEF SendXml, Become, TypeOK, ClientStates
  <2>4. TypeOK'
    BY <1>2, <1>9, <2>2, <2>3 DEF SendXml, TypeOK, threadVars, lockVars, acceptVars
  <2>5. Asking'
    BY <1>2, <1>9 DEF SendXml, Become, TypeOK, Asking
  <2> QED
    BY <1>4, <2>4, <2>5 DEF ServerInduction
<1>10. CASE AnswerInclude(c)
  <2>1. asked[c] \in 0 .. MaxRequests
    BY <1>2 DEF TypeOK
  <2>2. toServer' \in [Clients -> Seq(FromClient)]
    BY <1>2, <1>10, <2>1, MessagesTyped, WriteTyped DEF AnswerInclude
  <2>3. toClient' \in [Clients -> Seq(FromServer)]
    <3>1. Tail(toClient[c]) \in Seq(FromServer)
      BY <1>2, <1>10, HeadTailProperties DEF AnswerInclude, TypeOK
    <3> QED
      BY <1>2, <1>10, <3>1 DEF AnswerInclude, TypeOK
  <2>4. TypeOK' /\ Asking'
    BY <1>2, <1>10, <2>2, <2>3 DEF AnswerInclude, TypeOK, Asking, clientVars,
       threadVars, lockVars, acceptVars
  <2> QED
    BY <1>4, <2>4 DEF ServerInduction
<1>11. CASE ReadAnswer(c)
  <2>1. toClient' \in [Clients -> Seq(FromServer)] /\ garbled' \subseteq Clients
    BY <1>2, <1>11, RestTyped DEF ReadAnswer, TypeOK, Garble
  <2>2. /\ client' \in [Clients -> ClientStates]
        /\ answered' \in [Clients -> Nat]
    BY <1>2, <1>11 DEF ReadAnswer, Become, TypeOK, ClientStates
  <2>3. TypeOK'
    BY <1>2, <1>11, <2>1, <2>2 DEF ReadAnswer, TypeOK, threadVars, lockVars, acceptVars
  <2>4. Asking'
    BY <1>2, <1>11 DEF ReadAnswer, Become, TypeOK, Asking
  <2> QED
    BY <1>4, <2>3, <2>4 DEF ServerInduction
<1>12. CASE Leave(c)
  <2>1. toServer' \in [Clients -> Seq(FromClient)]
    <3>1. PICK k \in 0 .. Len(toServer[c]), whole \in BOOLEAN :
             toServer' = [toServer EXCEPT ![c] = Kept(@, k, whole)]
      BY <1>12 DEF Leave
    <3>2. toServer \in [Clients -> Seq(FromClient)]
      BY <1>2 DEF TypeOK
    <3>3. Kept(toServer[c], k, whole) \in Seq(FromClient)
      BY <3>2, KeptTyped
    <3> QED
      BY <3>1, <3>2, <3>3
  <2>2. /\ client' \in [Clients -> ClientStates]
        /\ toClient' \in [Clients -> Seq(FromServer)]
    <3>1. <<>> \in Seq(FromServer)
      BY EmptySeq
    <3> QED
      BY <1>2, <1>12, <3>1 DEF Leave, Become, TypeOK, ClientStates
  <2>3. TypeOK'
    BY <1>2, <1>12, <2>1, <2>2 DEF Leave, TypeOK, threadVars, lockVars, acceptVars
  <2>4. Asking'
    BY <1>2, <1>12 DEF Leave, Become, TypeOK, Asking
  <2> QED
    BY <1>4, <2>3, <2>4 DEF ServerInduction
<1>13. CASE ReadEnd(c)
  <2>1. client' \in [Clients -> ClientStates]
    BY <1>2, <1>13 DEF ReadEnd, Become, TypeOK, ClientStates
  <2>2. TypeOK'
    BY <1>2, <1>13, <2>1 DEF ReadEnd, TypeOK, threadVars, lockVars, acceptVars
  <2>3. Asking'
    BY <1>2, <1>13 DEF ReadEnd, Become, TypeOK, Asking
  <2> QED
    BY <1>4, <2>2, <2>3 DEF ServerInduction
<1> QED
  BY <1>5, <1>6, <1>7, <1>8, <1>9, <1>10, <1>11, <1>12, <1>13 DEF ClientProtocol, InCalls

LEMMA AcceptKeeps ==
    ASSUME ServerInduction, AcceptLoop
    PROVE  ServerInduction'
<1>1. TypeOK /\ Asking /\ HoldsLock
  BY DEF ServerInduction
<1>2. UNCHANGED <<client, asked>>
  BY DEF AcceptLoop, Accept, ReadName, NoName, NameError, clientVars
<1>3. Asking'
  BY <1>1, <1>2 DEF Asking
<1>4. CASE Accept
  <2>1. Head(backlog) \in Clients /\ Tail(backlog) \in Seq(Clients)
    BY <1>1, <1>4, HeadTailProperties DEF Accept, TypeOK
  <2>2. TypeOK'
    BY <1>1, <1>4, <2>1 DEF Accept, TypeOK, clientVars, threadVars, lockVars
  <2>3. HoldsLock'
    BY <1>1, <1>4 DEF Accept, HoldsLock, InRun, threadVars, lockVars
  <2> QED
    BY <1>3, <2>2, <2>3 DEF ServerInduction
<1>5. ASSUME NEW c \in Clients, ReadName(c) PROVE ServerInduction'
  <2>1. toServer' \in [Clients -> Seq(FromClient)] /\ garbled' \subseteq Clients
    BY <1>1, <1>5, RestTyped DEF ReadName, TypeOK, Garble
  <2>2. handler' \in [Clients -> HandlerStates] /\ db' \in [Clients -> Dbs]
    <3>1. handler' = [handler EXCEPT ![c] = "greeting"]
      BY <1>5 DEF ReadName
    <3>2. PICK d \in Dbs : db' = [db EXCEPT ![c] = d]
      BY <1>5 DEF ReadName
    <3> QED
      BY <1>1, <3>1, <3>2 DEF TypeOK, HandlerStates
  <2>3. TypeOK'
    BY <1>1, <1>5, <2>1, <2>2 DEF ReadName, TypeOK, clientVars, lockVars
  <2>4. HoldsLock'
    BY <1>1, <1>5 DEF ReadName, HoldsLock, InRun, lockVars, TypeOK
  <2> QED
    BY <1>3, <2>3, <2>4 DEF ServerInduction
<1>6. ASSUME NEW c \in Clients, NoName(c) PROVE ServerInduction'
  <2>1. TypeOK'
    BY <1>1, <1>6 DEF NoName, TypeOK, clientVars, lockVars, HandlerStates
  <2>2. HoldsLock'
    BY <1>1, <1>6 DEF NoName, HoldsLock, InRun, lockVars, TypeOK
  <2> QED
    BY <1>3, <2>1, <2>2 DEF ServerInduction
<1>7. ASSUME NEW c \in Clients, NameError(c) PROVE ServerInduction'
  <2>1. TypeOK'
    BY <1>1, <1>7 DEF NameError, TypeOK, clientVars, HandlerStates
  <2>2. HoldsLock'
    BY <1>7 DEF NameError, HoldsLock, InRun
  <2> QED
    BY <1>3, <2>1, <2>2 DEF ServerInduction
<1> QED
  BY <1>4, <1>5, <1>6, <1>7 DEF AcceptLoop

-----------------------------------------------------------------------------
(* The steps of a thread *)

LEMMA ThreadKeeps ==
    ASSUME ServerInduction, NEW c \in Clients, Thread(c)
    PROVE  ServerInduction'
<1>1. TypeOK /\ Asking /\ HoldsLock
  BY DEF ServerInduction
<1>2. UNCHANGED <<client, asked>>
  BY DEF Thread, Greet, Fetch, ReadJson, ReadXml, ReadNothing, Lock, LockPoisoned,
     AskInclude, ReadDocument, BlankInclude, RunEnds, RunPanics, Respond, clientVars
<1>3. Asking'
  BY <1>1, <1>2 DEF Asking
<1>4. MaxRequests \in Nat /\ MaxIncludes \in Nat /\ 0 \in 0 .. MaxRequests
      /\ 0 \in 0 .. MaxIncludes /\ None \notin Clients
  BY ServerBounds
<1>5. CASE Greet(c)
  <2>1. toClient' \in [Clients -> Seq(FromServer)]
    BY <1>1, <1>4, <1>5, MessagesTyped, WriteTyped DEF Greet, TypeOK
  <2>2. handler' \in [Clients -> HandlerStates]
    BY <1>1, <1>5 DEF Greet, Go, TypeOK, HandlerStates
  <2>3. TypeOK'
    BY <1>1, <1>5, <2>1, <2>2 DEF Greet, TypeOK, clientVars, acceptVars, lockVars
  <2>4. HoldsLock'
    BY <1>1, <1>5 DEF Greet, Go, HoldsLock, InRun, lockVars, TypeOK
  <2> QED
    BY <1>3, <2>3, <2>4 DEF ServerInduction
<1>6. CASE Fetch(c)
  <2>1. /\ toServer' \in [Clients -> Seq(FromClient)]
        /\ tcp_reader' \in [Clients -> Seq(FromClient)]
    BY <1>1, <1>6, RestTyped DEF Fetch, TypeOK
  <2>2. TypeOK'
    BY <1>1, <1>6, <2>1 DEF Fetch, TypeOK, clientVars, acceptVars, lockVars
  <2>3. HoldsLock'
    BY <1>1, <1>6 DEF Fetch, HoldsLock, InRun, lockVars
  <2> QED
    BY <1>3, <2>2, <2>3 DEF ServerInduction
<1>7. tcp_reader[c] # <<>> => /\ Tail(tcp_reader[c]) \in Seq(FromClient)
                             /\ Head(tcp_reader[c]) \in FromClient
  BY <1>1, HeadTailProperties DEF TypeOK
<1>8. CASE ReadJson(c)
  <2>1. tcp_reader' \in [Clients -> Seq(FromClient)] /\ garbled' \subseteq Clients
    BY <1>1, <1>7, <1>8 DEF ReadJson, TakeMessage, Garble, TypeOK
  <2>2. handler' \in [Clients -> HandlerStates]
    BY <1>1, <1>8 DEF ReadJson, Go, TypeOK, HandlerStates
  <2>3. TypeOK'
    BY <1>1, <1>8, <2>1, <2>2 DEF ReadJson, TypeOK, clientVars, acceptVars, lockVars
  <2>4. HoldsLock'
    BY <1>1, <1>8 DEF ReadJson, Go, HoldsLock, InRun, lockVars, TypeOK
  <2> QED
    BY <1>3, <2>3, <2>4 DEF ServerInduction
<1>9. CASE ReadXml(c)
  <2>1. tcp_reader' \in [Clients -> Seq(FromClient)] /\ garbled' \subseteq Clients
    BY <1>1, <1>7, <1>9 DEF ReadXml, TakeMessage, Garble, TypeOK
  <2>2. /\ handler' \in [Clients -> HandlerStates]
        /\ request' \in [Clients -> 0 .. MaxRequests]
    BY <1>1, <1>7, <1>9 DEF ReadXml, TakeMessage, Go, TypeOK, HandlerStates, FromClient
  <2>3. TypeOK'
    BY <1>1, <1>9, <2>1, <2>2 DEF ReadXml, TypeOK, clientVars, acceptVars, lockVars
  <2>4. HoldsLock'
    BY <1>1, <1>9 DEF ReadXml, Go, HoldsLock, InRun, lockVars, TypeOK
  <2> QED
    BY <1>3, <2>3, <2>4 DEF ServerInduction
<1>10. CASE ReadNothing(c) \/ LockPoisoned(c) \/ BlankInclude(c)
  <2>1. TypeOK'
    BY <1>1, <1>10 DEF ReadNothing, LockPoisoned, BlankInclude, Go, TypeOK, HandlerStates,
       clientVars, acceptVars, lockVars
  <2>2. HoldsLock'
    BY <1>1, <1>10 DEF ReadNothing, LockPoisoned, BlankInclude, Go, HoldsLock, InRun,
       lockVars, TypeOK
  <2> QED
    BY <1>3, <2>1, <2>2 DEF ServerInduction
\* Nobody interprets a document on a database whose mutex is free.
<1>11. CASE Lock(c)
  <2>1. /\ handler' \in [Clients -> HandlerStates]
        /\ holder' \in [Dbs -> Clients \cup {None}]
        /\ included' \in [Clients -> 0 .. MaxIncludes]
    BY <1>1, <1>4, <1>11 DEF Lock, Go, TypeOK, HandlerStates
  <2>2. TypeOK'
    BY <1>1, <1>11, <2>1 DEF Lock, TypeOK, clientVars, acceptVars
  <2>3. ASSUME NEW e \in Clients, InRun(e)' PROVE (holder[db[e]] = e)'
    <3>1. db[c] \in Dbs /\ db[e] \in Dbs /\ db' = db
      BY <1>1, <1>11 DEF Lock, TypeOK
    <3>2. holder[db[c]] = None /\ holder' = [holder EXCEPT ![db[c]] = c]
      BY <1>11 DEF Lock, LockFree
    <3>3. CASE e = c
      BY <1>1, <3>1, <3>2, <3>3 DEF TypeOK
    <3>4. CASE e # c
      <4>1. handler'[e] = handler[e]
        BY <1>1, <1>11, <3>4 DEF Lock, Go, TypeOK
      <4>2. holder[db[e]] = e
        BY <1>1, <2>3, <4>1 DEF HoldsLock, InRun
      <4> QED
        BY <1>1, <1>4, <3>1, <3>2, <4>2 DEF TypeOK
    <3> QED
      BY <3>3, <3>4
  <2>4. HoldsLock'
    BY <2>3 DEF HoldsLock
  <2> QED
    BY <1>3, <2>2, <2>4 DEF ServerInduction
<1>12. CASE AskInclude(c)
  <2>1. request[c] \in 0 .. MaxRequests
    BY <1>1 DEF TypeOK
  <2>2. toClient' \in [Clients -> Seq(FromServer)]
    BY <1>1, <1>12, <2>1, MessagesTyped, WriteTyped DEF AskInclude
  <2>3. included[c] + 1 \in 0 .. MaxIncludes
    <3>1. included[c] \in 0 .. MaxIncludes
      BY <1>1 DEF TypeOK
    <3>2. included[c] < MaxIncludes
      BY <1>12 DEF AskInclude
    <3> QED
      BY <1>4, <3>1, <3>2
  <2>4. /\ handler' \in [Clients -> HandlerStates]
        /\ included' \in [Clients -> 0 .. MaxIncludes]
    BY <1>1, <1>12, <2>3 DEF AskInclude, Go, TypeOK, HandlerStates
  <2>5. TypeOK'
    BY <1>1, <1>12, <2>2, <2>4 DEF AskInclude, TypeOK, clientVars, acceptVars, lockVars
  <2>6. HoldsLock'
    BY <1>1, <1>12 DEF AskInclude, Go, HoldsLock, InRun, lockVars, TypeOK
  <2> QED
    BY <1>3, <2>5, <2>6 DEF ServerInduction
<1>13. CASE ReadDocument(c)
  <2>1. toServer' \in [Clients -> Seq(FromClient)] /\ garbled' \subseteq Clients
    <3>1. CASE UNCHANGED <<toServer, garbled>>
      BY <1>1, <3>1 DEF TypeOK
    <3>2. ASSUME NEW k \in 1 .. Len(toServer[c]), Garble(c, toServer[c], "document", k),
                 toServer' = [toServer EXCEPT ![c] = Rest(@, k)]
          PROVE  toServer' \in [Clients -> Seq(FromClient)] /\ garbled' \subseteq Clients
      BY <1>1, <3>2, RestTyped DEF TypeOK, Garble
    <3> QED
      BY <1>13, <3>1, <3>2 DEF ReadDocument
  <2>2. handler' \in [Clients -> HandlerStates]
    BY <1>1, <1>13 DEF ReadDocument, Go, TypeOK, HandlerStates
  <2>3. TypeOK'
    BY <1>1, <1>13, <2>1, <2>2 DEF ReadDocument, TypeOK, clientVars, acceptVars, lockVars
  <2>4. HoldsLock'
    BY <1>1, <1>13 DEF ReadDocument, Go, HoldsLock, InRun, lockVars, TypeOK
  <2> QED
    BY <1>3, <2>3, <2>4 DEF ServerInduction
<1>14. CASE RunEnds(c) \/ RunPanics(c)
  <2>1. /\ handler[c] = "running" /\ handler'[c] \in {"answering", "ended"}
        /\ \A e \in Clients \ {c} : handler'[e] = handler[e]
        /\ holder' = [holder EXCEPT ![db[c]] = None] /\ db' = db
    BY <1>1, <1>14 DEF RunEnds, RunPanics, Go, TypeOK
  <2>2. /\ handler' \in [Clients -> HandlerStates]
        /\ holder' \in [Dbs -> Clients \cup {None}]
        /\ ran' \in [Clients -> Nat]
        /\ poisoned' \subseteq Dbs
    <3>1. holder' \in [Dbs -> Clients \cup {None}]
      BY <1>1, <2>1 DEF TypeOK
    <3>2. CASE RunEnds(c)
      BY <1>1, <3>1, <3>2 DEF RunEnds, Go, TypeOK, HandlerStates
    <3>3. CASE RunPanics(c)
      BY <1>1, <3>1, <3>3 DEF RunPanics, Go, TypeOK, HandlerStates
    <3> QED
      BY <1>14, <3>2, <3>3
  <2>3. TypeOK'
    <3>1. CASE RunEnds(c)
      BY <1>1, <2>2, <3>1 DEF RunEnds, TypeOK, clientVars, acceptVars
    <3>2. CASE RunPanics(c)
      BY <1>1, <2>2, <3>2 DEF RunPanics, TypeOK, clientVars, acceptVars
    <3> QED
      BY <1>14, <3>1, <3>2
  <2>4. ASSUME NEW e \in Clients, InRun(e)' PROVE (holder[db[e]] = e)'
    <3>1. e # c /\ InRun(e)
      BY <2>1, <2>4 DEF InRun
    <3>2. holder[db[e]] = e /\ holder[db[c]] = c
      BY <1>1, <2>1, <3>1 DEF HoldsLock, InRun
    <3>3. db[e] # db[c] /\ db[e] \in Dbs
      BY <1>1, <3>1, <3>2 DEF TypeOK
    <3> QED
      BY <1>1, <2>1, <3>2, <3>3 DEF TypeOK
  <2>5. HoldsLock'
    BY <2>4 DEF HoldsLock
  <2> QED
    BY <1>3, <2>3, <2>5 DEF ServerInduction
<1>15. CASE Respond(c)
  <2>1. request[c] \in 0 .. MaxRequests
    BY <1>1 DEF TypeOK
  <2>2. toClient' \in [Clients -> Seq(FromServer)]
    BY <1>1, <1>15, <2>1, MessagesTyped, WriteTyped DEF Respond, TypeOK
  <2>3. handler' \in [Clients -> HandlerStates]
    BY <1>1, <1>15 DEF Respond, Go, TypeOK, HandlerStates
  <2>4. TypeOK'
    BY <1>1, <1>15, <2>2, <2>3 DEF Respond, TypeOK, clientVars, acceptVars, lockVars
  <2>5. HoldsLock'
    BY <1>1, <1>15 DEF Respond, Go, HoldsLock, InRun, lockVars, TypeOK
  <2> QED
    BY <1>3, <2>4, <2>5 DEF ServerInduction
<1> QED
  BY <1>5, <1>6, <1>8, <1>9, <1>10, <1>11, <1>12, <1>13, <1>14, <1>15 DEF Thread

-----------------------------------------------------------------------------

LEMMA InitKeeps == Init => ServerInduction
<1> SUFFICES ASSUME Init PROVE ServerInduction
  OBVIOUS
<1>1. 0 \in 0 .. MaxRequests /\ 0 \in 0 .. MaxIncludes /\ DbOf \in [Clients -> Dbs]
  BY ServerBounds
<1>2. <<>> \in Seq(FromClient) /\ <<>> \in Seq(FromServer) /\ <<>> \in Seq(Clients)
  BY EmptySeq
<1>3. TypeOK
  BY <1>1, <1>2 DEF Init, TypeOK, ClientStates, HandlerStates
<1> QED
  BY <1>3 DEF Init, ServerInduction, Asking, HoldsLock, InRun

LEMMA NextKeeps == ServerInduction /\ [Next]_vars => ServerInduction'
<1> SUFFICES ASSUME ServerInduction, [Next]_vars PROVE ServerInduction'
  OBVIOUS
<1>1. CASE Quiet \/ UNCHANGED vars
  BY <1>1 DEF Quiet, vars, clientVars, threadVars, lockVars, acceptVars,
     ServerInduction, TypeOK, Asking, HoldsLock, InRun
<1> QED
  BY <1>1, ClientKeeps, AcceptKeeps, ThreadKeeps DEF Next

THEOREM ServerInvariant == Spec => []ServerInduction
  BY InitKeeps, NextKeeps, PTL DEF Spec

\* The state of the server and its clients keeps its type.
THEOREM ServerTyped == Spec => []TypeOK
<1>1. ServerInduction => TypeOK
  BY DEF ServerInduction
<1> QED
  BY <1>1, ServerInvariant, PTL

\* However many connections there are, no database interprets two documents at
\* once, through panics and the end of the process too.
THEOREM RunsAlone == Spec => []Exclusive
<1>1. ServerInduction => Exclusive
  BY DEF ServerInduction, TypeOK, HoldsLock, Exclusive
<1> QED
  BY <1>1, ServerInvariant, PTL

=============================================================================
