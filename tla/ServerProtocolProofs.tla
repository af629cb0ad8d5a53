------------------------ MODULE ServerProtocolProofs ------------------------
(***************************************************************************)
(* Proofs about the conversation of Server: what lies on a connection is   *)
(* always what its next reader expects, so no message is lost or mistaken, *)
(* every answer reaches the request it answers, whoever waits waits for    *)
(* somebody that can go on, and the server implements SerialRuns, for any  *)
(* clients, databases and bounds.                                          *)
(***************************************************************************)
EXTENDS ServerProofs

\* Lengths, as numbers of which the provers know only what the lemmas say.
Count(s) == Len(s)

\* What may lie on the way to a reader of the server, in the order it lies there:
\* the thread's own reader holds the first of it, the connection the rest.
Places(state) ==
    IF state = "reading" THEN 2 ELSE IF state \in {"none", "half", "including"} THEN 1 ELSE 0
Kind(state, i) ==
    IF state = "none" THEN "name"
    ELSE IF state = "including" THEN "document"
    ELSE IF state = "reading" /\ i = 1 THEN "json" ELSE "xml"
Pending(c) == Count(tcp_reader[c]) + Count(toServer[c])
InLine(c) ==
    handler[c] # "ended" =>
       /\ Pending(c) <= Places(handler[c])
       /\ handler[c] \notin {"reading", "half"} => Count(tcp_reader[c]) = 0
       /\ \A i \in 1 .. Count(tcp_reader[c]) :
             tcp_reader[c][i].what = Kind(handler[c], i)
       /\ \A i \in 1 .. Count(toServer[c]) :
             toServer[c][i].what = Kind(handler[c], Count(tcp_reader[c]) + i)

\* How far the thread of a client may be, and what it may have said.
Idle(c) == handler[c] = "ended" \/ (handler[c] = "reading" /\ Pending(c) = 0)
Linked(c) ==
    /\ client[c] \in {"new", "connected"} =>
          handler[c] \in {"none", "ended"} /\ Count(toServer[c]) = 0
    /\ client[c] = "named" => handler[c] \in {"none", "greeting"} \/ Idle(c)
    /\ client[c] = "ready" => Idle(c)
    /\ client[c] = "sending" =>
          \/ handler[c] = "ended"
          \/ handler[c] = "reading" /\ Pending(c) = 1
          \/ handler[c] = "half" /\ Pending(c) = 0
    /\ client[c] = "waiting" => handler[c] \notin {"none", "greeting"}
    /\ client[c] \notin {"named", "waiting"} => Count(toClient[c]) = 0
    /\ Count(toClient[c]) <= 1
    /\ Count(toClient[c]) = 1 /\ client[c] = "named" =>
          toClient[c][1].what = "ack" /\ Idle(c)
    /\ Count(toClient[c]) = 1 /\ client[c] = "waiting" =>
          /\ toClient[c][1].of = asked[c]
          /\ \/ /\ toClient[c][1].what = "include"
                /\ handler[c] \in {"including", "ended"}
                /\ handler[c] = "including" => Count(toServer[c]) = 0
             \/ toClient[c][1].what = "answer" /\ Idle(c) /\ ran[c] = asked[c]

\* Which request each side is at.
Accounts(c) ==
    /\ answered[c] <= ran[c] /\ ran[c] <= asked[c]
    /\ client[c] \notin {"waiting", "gone"} => answered[c] = asked[c]
    /\ client[c] = "waiting" => asked[c] = answered[c] + 1
    /\ handler[c] \in {"locking", "running", "including", "stuck"} => ran[c] < asked[c]
    /\ client[c] = "waiting" /\ handler[c] = "answering" => ran[c] = asked[c]
    /\ client[c] = "waiting"
       /\ handler[c] \in {"locking", "running", "including", "answering"} =>
          request[c] = asked[c]
    /\ \A i \in 1 .. Count(tcp_reader[c]) :
          handler[c] # "ended" /\ tcp_reader[c][i].what = "xml" =>
             /\ ran[c] < asked[c]
             /\ client[c] = "waiting" => tcp_reader[c][i].of = asked[c]
    /\ \A i \in 1 .. Count(toServer[c]) :
          handler[c] # "ended" /\ toServer[c][i].what = "xml" =>
             /\ ran[c] < asked[c]
             /\ client[c] = "waiting" => toServer[c][i].of = asked[c]

Connection(c) == InLine(c) /\ Linked(c) /\ Accounts(c)

\* A connection waits once for the accept loop, and has no thread until then.
Waits(c) == client[c] # "new" /\ handler[c] = "none"
Queue ==
    server = "up" =>
       /\ \A c \in Clients : client[c] = "new" => handler[c] = "none"
       /\ accepting # None => Waits(accepting)
       /\ \A i \in 1 .. Count(backlog) :
             /\ Waits(backlog[i]) /\ backlog[i] # accepting
             /\ \A j \in 1 .. Count(backlog) : backlog[i] = backlog[j] => i = j
Exited == server = "exited" => \A c \in Clients : handler[c] = "ended"

\* The mutex of a database is held by the thread that interprets a document on it.
HeldByRun ==
    \A d \in Dbs : holder[d] # None => InRun(holder[d]) /\ db[holder[d]] = d

ProtocolInduction ==
    /\ \A c \in Clients : Connection(c)
    /\ Queue /\ Exited /\ HeldByRun /\ NeverGarbled

-----------------------------------------------------------------------------
(* Sequences of messages *)

LEMMA CountIs ==
    ASSUME NEW S, NEW s \in Seq(S)
    PROVE  Count(s) \in Nat /\ (s = <<>> <=> Count(s) = 0)
  BY LenProperties, EmptySeq DEF Count

LEMMA NoneCount == Count(<<>>) = 0
  BY DEF Count

LEMMA RestIs ==
    ASSUME NEW S, NEW s \in Seq(S), NEW k \in 1 .. Count(s)
    PROVE  /\ Count(Rest(s, k)) = Count(s) - k
           /\ \A i \in 1 .. Count(s) - k : Rest(s, k)[i] = s[k + i]
<1>1. Len(s) \in Nat /\ k \in Nat /\ k <= Len(s)
  BY LenProperties DEF Count
<1>2. \A i \in k + 1 .. Len(s) : s[i] \in S
  BY <1>1, ElementOfSeq
<1>3. /\ Len(Rest(s, k)) = IF k + 1 <= Len(s) THEN Len(s) - (k + 1) + 1 ELSE 0
      /\ \A i \in 1 .. Len(s) - (k + 1) + 1 : Rest(s, k)[i] = s[k + 1 + i - 1]
  BY <1>1, <1>2, SubSeqProperties DEF Rest
<1> QED
  BY <1>1, <1>3 DEF Count

LEMMA FirstAre ==
    ASSUME NEW S, NEW s \in Seq(S), NEW k \in 1 .. Count(s)
    PROVE  /\ Count(SubSeq(s, 1, k)) = k
           /\ \A i \in 1 .. k : SubSeq(s, 1, k)[i] = s[i]
<1>1. Len(s) \in Nat /\ k \in Nat /\ k <= Len(s)
  BY LenProperties DEF Count
<1>2. \A i \in 1 .. k : s[i] \in S
  BY <1>1, ElementOfSeq
<1>3. /\ Len(SubSeq(s, 1, k)) = IF 1 <= k THEN k - 1 + 1 ELSE 0
      /\ \A i \in 1 .. k - 1 + 1 : SubSeq(s, 1, k)[i] = s[1 + i - 1]
  BY <1>1, <1>2, SubSeqProperties
<1> QED
  BY <1>1, <1>3 DEF Count

LEMMA KeptIs ==
    ASSUME NEW s \in Seq(FromClient), NEW k \in 0 .. Count(s), NEW whole \in BOOLEAN
    PROVE  /\ Count(Kept(s, k, whole)) = k
           /\ \A i \in 1 .. k : /\ Kept(s, k, whole)[i].what = s[i].what
                                /\ Kept(s, k, whole)[i].of = s[i].of
<1>1. Len(s) \in Nat /\ k \in Nat /\ k <= Len(s)
  BY LenProperties DEF Count
<1>2. Kept(s, k, whole) \in Seq(FromClient)
  BY <1>1, KeptTyped
<1>3. Len(Kept(s, k, whole)) = k
  BY <1>1, <1>2, LenProperties DEF Kept
<1>4. \A i \in 1 .. k : s[i] \in FromClient
  BY <1>1, ElementOfSeq
<1> QED
  BY <1>3, <1>4 DEF Kept, FromClient, Count

LEMMA TailIs ==
    ASSUME NEW S, NEW s \in Seq(S), s # <<>>
    PROVE  /\ Count(s) \in Nat /\ Count(s) >= 1
           /\ Count(Tail(s)) = Count(s) - 1 /\ Head(s) = s[1]
           /\ \A i \in 1 .. Count(s) - 1 : Tail(s)[i] = s[i + 1]
  BY HeadTailProperties, LenProperties, EmptySeq DEF Count

\* One more message at the end.
Extends(t, s, m) ==
    /\ Count(t) = Count(s) + 1
    /\ t[Count(s) + 1] = m
    /\ \A i \in 1 .. Count(s) : t[i] = s[i]

LEMMA AppendIs ==
    ASSUME NEW S, NEW s \in Seq(S), NEW m \in S
    PROVE  Extends(Append(s, m), s, m)
  BY AppendProperties, LenProperties DEF Count, Extends

-----------------------------------------------------------------------------
(* The connections a step leaves alone *)

Same(q) ==
    /\ client'[q] = client[q] /\ handler'[q] = handler[q]
    /\ toServer'[q] = toServer[q] /\ tcp_reader'[q] = tcp_reader[q]
    /\ toClient'[q] = toClient[q] /\ request'[q] = request[q]
    /\ asked'[q] = asked[q] /\ ran'[q] = ran[q] /\ answered'[q] = answered[q]

LEMMA SameConnection ==
    ASSUME NEW q, Same(q), Connection(q)
    PROVE  Connection(q)'
<1>1. Pending(q)' = Pending(q) /\ (Idle(q)' <=> Idle(q))
  BY DEF Same, Pending, Idle
<1>2. InLine(q)'
  BY <1>1 DEF Same, Connection, InLine
<1>3. Linked(q)'
  BY <1>1 DEF Same, Connection, Linked
<1>4. Accounts(q)'
  BY DEF Same, Connection, Accounts
<1> QED
  BY <1>2, <1>3, <1>4 DEF Connection

OwnStep(c) ==
    \/ Connect(c) \/ SendJson(c) \/ AnswerInclude(c) \/ Leave(c)
    \/ ClientProtocol(c) \/ Thread(c) \/ ReadName(c) \/ NoName(c)

LEMMA Elsewhere ==
    ASSUME TypeOK, NEW c \in Clients, NEW q \in Clients, q # c, OwnStep(c)
    PROVE  Same(q)
<1> USE DEF Same, TypeOK, clientVars, threadVars, lockVars, acceptVars
<1>1. CASE Connect(c) \/ SendName(c) \/ ReadAck(c) \/ ReadEnd(c)
  BY <1>1 DEF Connect, SendName, ReadAck, ReadEnd, Become, Write
<1>2. CASE SendJson(c) \/ SendXml(c) \/ AnswerInclude(c)
  BY <1>2 DEF SendJson, SendXml, AnswerInclude, Become, Write
<1>3. CASE ReadAnswer(c) \/ Leave(c)
  BY <1>3 DEF ReadAnswer, Leave, Become
<1>4. CASE ReadName(c) \/ NoName(c)
  BY <1>4 DEF ReadName, NoName
<1>5. CASE Greet(c) \/ Fetch(c) \/ Respond(c)
  BY <1>5 DEF Greet, Fetch, Respond, Go, Tell
<1>6. CASE ReadJson(c) \/ ReadXml(c) \/ ReadNothing(c)
  BY <1>6 DEF ReadJson, ReadXml, ReadNothing, TakeMessage, Go
<1>7. CASE Lock(c) \/ LockPoisoned(c) \/ AskInclude(c)
  BY <1>7 DEF Lock, LockPoisoned, AskInclude, Go, Tell
<1>8. CASE ReadDocument(c) \/ BlankInclude(c) \/ RunEnds(c) \/ RunPanics(c)
  BY <1>8 DEF ReadDocument, BlankInclude, RunEnds, RunPanics, Go
<1> QED
  BY <1>1, <1>2, <1>3, <1>4, <1>5, <1>6, <1>7, <1>8 DEF OwnStep, ClientProtocol, InCalls, Thread

\* The values of one connection, of their types: what lies on it, and the rest.
Texts(c) ==
    /\ toServer[c] \in Seq(FromClient) /\ tcp_reader[c] \in Seq(FromClient)
    /\ toClient[c] \in Seq(FromServer)
Numbers(c) ==
    /\ Count(toServer[c]) \in Nat /\ Count(tcp_reader[c]) \in Nat /\ Count(toClient[c]) \in Nat
    /\ asked[c] \in Nat /\ ran[c] \in Nat /\ answered[c] \in Nat /\ request[c] \in Nat

LEMMA ValuesTyped ==
    ASSUME TypeOK, NEW c \in Clients
    PROVE  Texts(c) /\ Numbers(c)
<1>1. /\ toServer[c] \in Seq(FromClient) /\ tcp_reader[c] \in Seq(FromClient)
      /\ toClient[c] \in Seq(FromServer)
      /\ ran[c] \in Nat /\ answered[c] \in Nat
      /\ asked[c] \in 0 .. MaxRequests /\ request[c] \in 0 .. MaxRequests
  BY DEF TypeOK
<1>2. /\ Count(toServer[c]) \in Nat /\ Count(tcp_reader[c]) \in Nat
      /\ Count(toClient[c]) \in Nat
  BY <1>1, CountIs, Zenon
<1>3. asked[c] \in Nat /\ request[c] \in Nat
  BY <1>1, ServerBounds
<1> QED
  BY <1>1, <1>2, <1>3, Zenon DEF Texts, Numbers

LEMMA NextValues ==
    ASSUME TypeOK', NEW c \in Clients
    PROVE  Texts(c)' /\ Numbers(c)'
<1>1. /\ toServer'[c] \in Seq(FromClient) /\ tcp_reader'[c] \in Seq(FromClient)
      /\ toClient'[c] \in Seq(FromServer)
      /\ ran'[c] \in Nat /\ answered'[c] \in Nat
      /\ asked'[c] \in 0 .. MaxRequests /\ request'[c] \in 0 .. MaxRequests
  BY DEF TypeOK
<1>2. /\ Count(toServer'[c]) \in Nat /\ Count(tcp_reader'[c]) \in Nat
      /\ Count(toClient'[c]) \in Nat
  BY <1>1, CountIs, Zenon
<1>3. asked'[c] \in Nat /\ request'[c] \in Nat
  BY <1>1, ServerBounds
<1> QED
  BY <1>1, <1>2, <1>3, Zenon DEF Texts, Numbers

-----------------------------------------------------------------------------
(* The steps of a client on its own connection *)

LEMMA ClientOwn ==
    ASSUME ServerInduction, NEW c \in Clients, Connection(c), NeverGarbled, Exited,
           \/ Connect(c) \/ SendJson(c) \/ AnswerInclude(c) \/ Leave(c)
           \/ ClientProtocol(c)
    PROVE  Connection(c)' /\ NeverGarbled'
<1>1. TypeOK /\ Numbers(c) /\ Numbers(c)'
  BY ClientKeeps, ValuesTyped, NextValues DEF ServerInduction
<1>0. /\ toServer[c] \in Seq(FromClient) /\ tcp_reader[c] \in Seq(FromClient)
      /\ toClient[c] \in Seq(FromServer)
  BY <1>1, ValuesTyped DEF Texts
<1>2. InLine(c) /\ Linked(c) /\ Accounts(c)
  BY DEF Connection
<1>3. UNCHANGED <<handler, tcp_reader, request, ran>>
  BY DEF Connect, SendName, ReadAck, SendJson, SendXml, AnswerInclude, ReadAnswer,
     Leave, ReadEnd, ClientProtocol, InCalls, threadVars
<1> USE DEF Numbers
<1>4. CASE Connect(c)
  <2>1. /\ client[c] = "new" /\ client'[c] = "connected"
        /\ UNCHANGED <<toServer, toClient, asked, answered, garbled>>
    BY <1>1, <1>4 DEF Connect, Become, TypeOK
  <2>2. Pending(c)' = Pending(c) /\ (Idle(c)' <=> Idle(c))
    BY <1>3, <2>1 DEF Pending, Idle
  <2> QED
    BY <1>1, <1>2, <1>3, <2>1, <2>2 DEF Connection, InLine, Linked, Accounts, NeverGarbled
<1>5. CASE SendName(c)
  <2> DEFINE m == Sent("name", 0)
  <2>1. /\ client[c] = "connected" /\ client'[c] = "named"
        /\ toServer'[c] = Append(toServer[c], m)
        /\ UNCHANGED <<toClient, asked, answered, garbled>>
    BY <1>1, <1>5 DEF SendName, Become, Write, TypeOK
  <2>2. m \in FromClient /\ m.what = "name"
    <3>1. 0 \in 0 .. MaxRequests
      BY ServerBounds
    <3> QED
      BY <3>1, MessagesTyped DEF Sent
  <2>3. Count(toServer[c]) = 0 /\ handler[c] \in {"none", "ended"}
    BY <1>2, <2>1 DEF Linked
  <2>4. Count(toServer'[c]) = 1 /\ toServer'[c][1] = m
    <3>1. toServer[c] \in Seq(FromClient) /\ m \in FromClient
      BY <1>0, <2>2
    <3>2. toServer'[c] = Append(toServer[c], m)
      BY <2>1
    <3> HIDE DEF m
    <3>3. Extends(Append(toServer[c], m), toServer[c], m)
      BY <3>1, AppendIs
    <3> QED
      BY <2>3, <3>2, <3>3 DEF Extends
  <2> HIDE DEF m
  <2>5. InLine(c)'
    BY <1>1, <1>2, <1>3, <2>2, <2>3, <2>4 DEF InLine, Pending, Places, Kind
  <2>6. Linked(c)'
    BY <1>1, <1>2, <1>3, <2>1, <2>3 DEF Linked, Idle
  <2>7. Accounts(c)'
    BY <1>1, <1>2, <1>3, <2>1, <2>2, <2>4 DEF Accounts
  <2> QED
    BY <2>1, <2>5, <2>6, <2>7 DEF Connection, NeverGarbled
<1>6. CASE ReadAck(c)
  <2>1. client[c] = "named" /\ client'[c] = "ready"
        /\ UNCHANGED <<toServer, asked, answered>>
    BY <1>1, <1>6 DEF ReadAck, Become, TypeOK
  <2>2. Idle(c) /\ Count(toClient'[c]) = 0 /\ garbled' = garbled
    <3>1. ASSUME NEW k \in 1 .. Len(toClient[c]), Garble(c, toClient[c], "ack", k),
                 toClient' = [toClient EXCEPT ![c] = Rest(@, k)]
          PROVE  Idle(c) /\ Count(toClient'[c]) = 0 /\ garbled' = garbled
      <4> k \in 1 .. Count(toClient[c])
        BY DEF Count
      <4>0. Count(toClient[c]) = 1 /\ k = 1
        <5>1. Count(toClient[c]) \in Nat
          BY <1>1
        <5>2. Count(toClient[c]) <= 1
          BY <1>2 DEF Linked
        <5> QED
          BY <5>1, <5>2
      <4>1. toClient[c][1].what = "ack" /\ Idle(c)
        BY <1>2, <2>1, <4>0 DEF Linked
      <4>2. Head(toClient[c]) = toClient[c][1]
        BY <1>0, <4>0, TailIs, CountIs
      <4>3. Count(toClient'[c]) = 0
        <5>1. Count(Rest(toClient[c], k)) = Count(toClient[c]) - k
          <6>1. toClient[c] \in Seq(FromServer)
            BY <1>0
          <6> QED
            BY <6>1, RestIs
        <5>2. toClient'[c] = Rest(toClient[c], k)
          BY <1>1, <3>1 DEF TypeOK
        <5> QED
          BY <4>0, <5>1, <5>2
      <4> QED
        BY <3>1, <4>0, <4>1, <4>2, <4>3 DEF Garble
    <3>2. CASE toClient[c] = <<>> /\ Closed(c) /\ UNCHANGED <<toClient, garbled>>
      BY <1>0, <1>1, <3>2, CountIs DEF Idle, Closed, Exited, TypeOK
    <3> QED
      BY <1>6, <3>1, <3>2 DEF ReadAck
  <2>3. Pending(c)' = Pending(c) /\ Idle(c)'
    BY <1>3, <2>1, <2>2 DEF Pending, Idle
  <2> QED
    BY <1>1, <1>2, <1>3, <2>1, <2>2, <2>3
       DEF Connection, InLine, Linked, Accounts, NeverGarbled, Idle
<1>7. CASE SendJson(c)
  <2> DEFINE m == Sent("json", asked[c] + 1)
  <2>1. /\ client[c] = "ready" /\ client'[c] = "sending" /\ asked[c] < MaxRequests
        /\ toServer'[c] = Append(toServer[c], m)
        /\ UNCHANGED <<toClient, asked, answered, garbled>>
    BY <1>1, <1>7 DEF SendJson, Become, Write, TypeOK
  <2>2. m \in FromClient /\ m.what = "json"
    <3>1. asked[c] + 1 \in 0 .. MaxRequests
      <4>1. asked[c] \in 0 .. MaxRequests /\ MaxRequests \in Nat
        BY <1>1, ServerBounds DEF TypeOK
      <4> QED
        BY <2>1, <4>1
    <3> QED
      BY <3>1, MessagesTyped DEF Sent
  <2>3. Idle(c) /\ Count(toClient[c]) = 0
    BY <1>2, <2>1 DEF Linked
  <2>4. /\ Count(toServer'[c]) = Count(toServer[c]) + 1
        /\ toServer'[c][Count(toServer[c]) + 1] = m
        /\ \A i \in 1 .. Count(toServer[c]) : toServer'[c][i] = toServer[c][i]
    <3>1. toServer[c] \in Seq(FromClient) /\ m \in FromClient
      BY <1>0, <2>2
    <3>2. toServer'[c] = Append(toServer[c], m)
      BY <2>1
    <3> HIDE DEF m
    <3>3. Extends(Append(toServer[c], m), toServer[c], m)
      BY <3>1, AppendIs
    <3> QED
      BY <3>2, <3>3 DEF Extends
  <2> HIDE DEF m
  <2>5. handler[c] # "ended" => /\ handler[c] = "reading" /\ Count(tcp_reader[c]) = 0
                                /\ Count(toServer[c]) = 0
    BY <1>1, <2>3 DEF Idle, Pending
  <2>6. InLine(c)'
    BY <1>1, <1>2, <1>3, <2>2, <2>4, <2>5 DEF InLine, Pending, Places, Kind
  <2>7. Linked(c)'
    BY <1>1, <1>2, <1>3, <2>1, <2>3, <2>4, <2>5 DEF Linked, Idle, Pending
  <2>8. Accounts(c)'
    BY <1>1, <1>2, <1>3, <2>1, <2>2, <2>4, <2>5 DEF Accounts
  <2> QED
    BY <2>1, <2>6, <2>7, <2>8 DEF Connection, NeverGarbled
<1>8. CASE SendXml(c)
  <2> DEFINE m == Sent("xml", asked[c] + 1)
  <2>1. /\ client[c] = "sending" /\ client'[c] = "waiting" /\ asked[c] < MaxRequests
        /\ toServer'[c] = Append(toServer[c], m) /\ asked'[c] = asked[c] + 1
        /\ UNCHANGED <<toClient, answered, garbled>>
    BY <1>1, <1>8 DEF SendXml, Become, Write, TypeOK, ServerInduction, Asking
  <2>2. m \in FromClient /\ m.what = "xml" /\ m.of = asked[c] + 1
    <3>1. asked[c] + 1 \in 0 .. MaxRequests
      <4>1. asked[c] \in 0 .. MaxRequests /\ MaxRequests \in Nat
        BY <1>1, ServerBounds DEF TypeOK
      <4> QED
        BY <2>1, <4>1
    <3> QED
      BY <3>1, MessagesTyped DEF Sent
  <2>3. Count(toClient[c]) = 0
    BY <1>2, <2>1 DEF Linked
  <2>4. /\ Count(toServer'[c]) = Count(toServer[c]) + 1
        /\ toServer'[c][Count(toServer[c]) + 1] = m
        /\ \A i \in 1 .. Count(toServer[c]) : toServer'[c][i] = toServer[c][i]
    <3>1. toServer[c] \in Seq(FromClient) /\ m \in FromClient
      BY <1>0, <2>2
    <3>2. toServer'[c] = Append(toServer[c], m)
      BY <2>1
    <3> HIDE DEF m
    <3>3. Extends(Append(toServer[c], m), toServer[c], m)
      BY <3>1, AppendIs
    <3> QED
      BY <3>2, <3>3 DEF Extends
  <2> HIDE DEF m
  <2>5. \/ handler[c] = "ended"
        \/ handler[c] = "reading" /\ Count(tcp_reader[c]) + Count(toServer[c]) = 1
        \/ /\ handler[c] = "half"
           /\ Count(tcp_reader[c]) = 0 /\ Count(toServer[c]) = 0
    BY <1>1, <1>2, <2>1 DEF Linked, Pending
  <2>6. handler[c] # "ended" =>
          /\ \A i \in 1 .. Count(tcp_reader[c]) : tcp_reader[c][i].what = "json"
          /\ \A i \in 1 .. Count(toServer[c]) : toServer[c][i].what = "json"
    BY <1>1, <1>2, <2>5 DEF InLine, Kind
  <2>7. InLine(c)'
    BY <1>1, <1>2, <1>3, <2>2, <2>4, <2>5 DEF InLine, Pending, Places, Kind
  <2>8. Linked(c)'
    BY <1>1, <1>3, <2>1, <2>3, <2>5 DEF Linked
  <2>9. Accounts(c)'
    <3>1. /\ answered[c] <= ran[c] /\ ran[c] <= asked[c] /\ answered[c] = asked[c]
      BY <1>2, <2>1 DEF Accounts
    <3>2. ASSUME NEW i \in 1 .. Count(tcp_reader[c]), handler[c] # "ended"
          PROVE  tcp_reader[c][i].what # "xml"
      BY <2>6, <3>2
    <3>3. ASSUME NEW i \in 1 .. Count(toServer'[c]), handler[c] # "ended",
                 toServer'[c][i].what = "xml"
          PROVE  toServer'[c][i].of = asked[c] + 1
      BY <1>1, <2>2, <2>4, <2>6, <3>3
    <3>4. ran'[c] < asked'[c] /\ asked'[c] = answered'[c] + 1
          /\ answered'[c] <= ran'[c] /\ ran'[c] <= asked'[c]
      BY <1>1, <1>3, <2>1, <3>1
    <3>5. handler'[c] \in {"ended", "reading", "half"}
      BY <1>3, <2>5
    <3>6. ASSUME NEW i \in 1 .. Count(tcp_reader'[c]), handler'[c] # "ended"
          PROVE  tcp_reader'[c][i].what # "xml"
      BY <1>3, <3>2, <3>6
    <3>7. ASSUME NEW i \in 1 .. Count(toServer'[c]), handler'[c] # "ended",
                 toServer'[c][i].what = "xml"
          PROVE  toServer'[c][i].of = asked'[c]
      BY <1>3, <2>1, <3>3, <3>7
    <3> QED
      BY <2>1, <3>4, <3>5, <3>6, <3>7 DEF Accounts
  <2> QED
    BY <2>1, <2>7, <2>8, <2>9 DEF Connection, NeverGarbled
<1>9. CASE AnswerInclude(c)
  <2> DEFINE m == Sent("document", asked[c])
  <2>1. /\ client[c] = "waiting" /\ toClient[c] # <<>> /\ Head(toClient[c]).what = "include"
        /\ toClient'[c] = Tail(toClient[c]) /\ toServer'[c] = Append(toServer[c], m)
        /\ UNCHANGED <<client, asked, answered, garbled>>
    BY <1>1, <1>9 DEF AnswerInclude, Write, TypeOK, clientVars
  <2>2. m \in FromClient /\ m.what = "document"
    <3>1. asked[c] \in 0 .. MaxRequests
      BY <1>1 DEF TypeOK
    <3> QED
      BY <3>1, MessagesTyped DEF Sent
  <2>3. Count(toClient[c]) = 1 /\ Head(toClient[c]) = toClient[c][1] /\ Count(toClient'[c]) = 0
    <3>1. Count(toClient[c]) <= 1
      BY <1>2 DEF Linked
    <3>2. toClient[c] \in Seq(FromServer)
      BY <1>0
    <3> QED
      BY <2>1, <3>1, <3>2, TailIs
  <2>4. handler[c] # "ended" => handler[c] = "including" /\ Count(toServer[c]) = 0
    BY <1>2, <2>1, <2>3 DEF Linked
  <2>5. /\ Count(toServer'[c]) = Count(toServer[c]) + 1
        /\ toServer'[c][Count(toServer[c]) + 1] = m
        /\ \A i \in 1 .. Count(toServer[c]) : toServer'[c][i] = toServer[c][i]
    <3>1. toServer[c] \in Seq(FromClient) /\ m \in FromClient
      BY <1>0, <2>2
    <3>2. toServer'[c] = Append(toServer[c], m)
      BY <2>1
    <3> HIDE DEF m
    <3>3. Extends(Append(toServer[c], m), toServer[c], m)
      BY <3>1, AppendIs
    <3> QED
      BY <3>2, <3>3 DEF Extends
  <2> HIDE DEF m
  <2>6. InLine(c)'
    BY <1>1, <1>2, <1>3, <2>2, <2>4, <2>5 DEF InLine, Pending, Places, Kind
  <2>7. Linked(c)'
    BY <1>1, <1>2, <1>3, <2>1, <2>3 DEF Linked
  <2>8. Accounts(c)'
    <3>1. ASSUME NEW i \in 1 .. Count(toServer'[c]), handler[c] # "ended"
          PROVE  toServer'[c][i].what # "xml"
      BY <1>1, <2>2, <2>4, <2>5, <3>1
    <3> QED
      BY <1>2, <1>3, <2>1, <3>1 DEF Accounts
  <2> QED
    BY <2>1, <2>6, <2>7, <2>8 DEF Connection, NeverGarbled
<1>10. CASE ReadAnswer(c)
  <2>1. /\ client[c] = "waiting" /\ client'[c] = "ready" /\ toClient[c] # <<>>
        /\ Head(toClient[c]).what # "include" /\ answered'[c] = answered[c] + 1
        /\ UNCHANGED <<toServer, asked>>
    BY <1>1, <1>10 DEF ReadAnswer, EndsExec, Become, TypeOK
  <2>2. Count(toClient[c]) = 1 /\ Head(toClient[c]) = toClient[c][1]
    <3>1. Count(toClient[c]) <= 1
      BY <1>2 DEF Linked
    <3>2. toClient[c] \in Seq(FromServer)
      BY <1>0
    <3> QED
      BY <2>1, <3>1, <3>2, TailIs
  <2>3. toClient[c][1].what = "answer" /\ Idle(c) /\ ran[c] = asked[c]
    BY <1>2, <2>1, <2>2 DEF Linked
  <2>4. PICK k \in 1 .. Count(toClient[c]) :
           /\ Garble(c, toClient[c], "answer", k)
           /\ toClient' = [toClient EXCEPT ![c] = Rest(@, k)]
    BY <1>10 DEF ReadAnswer, Count
  <2>5. k = 1 /\ toClient'[c] = Rest(toClient[c], k)
    BY <1>1, <2>2, <2>4 DEF TypeOK
  <2>6. Count(toClient'[c]) = 0
    <3>1. toClient[c] \in Seq(FromServer)
      BY <1>0
    <3>2. Count(Rest(toClient[c], k)) = Count(toClient[c]) - k
      BY <3>1, RestIs
    <3> QED
      BY <2>2, <2>5, <3>2
  <2>7. garbled' = garbled
    BY <2>2, <2>3, <2>4, <2>5 DEF Garble
  <2>8. Pending(c)' = Pending(c) /\ Idle(c)'
    BY <1>3, <2>1, <2>3 DEF Pending, Idle
  <2>9. InLine(c)'
    BY <1>2, <1>3, <2>1, <2>8 DEF InLine
  <2>10. Linked(c)'
    BY <1>1, <1>3, <2>1, <2>3, <2>6, <2>8 DEF Linked, Idle
  <2>11. Accounts(c)'
    BY <1>1, <1>2, <1>3, <2>1, <2>3 DEF Accounts
  <2> QED
    BY <2>7, <2>9, <2>10, <2>11 DEF Connection, NeverGarbled
<1>11. CASE Leave(c)
  <2>1. /\ client'[c] = "gone" /\ toClient'[c] = <<>>
        /\ UNCHANGED <<asked, answered, garbled>>
    BY <1>1, <1>11 DEF Leave, Become, TypeOK
  <2>2. PICK k \in 0 .. Count(toServer[c]), whole \in BOOLEAN :
           toServer'[c] = Kept(toServer[c], k, whole)
    BY <1>1, <1>11 DEF Leave, TypeOK, Count
  <2>3. /\ Count(toServer'[c]) = k /\ Count(toClient'[c]) = 0
        /\ \A i \in 1 .. k : toServer'[c][i].what = toServer[c][i].what
    <3>1. /\ Count(Kept(toServer[c], k, whole)) = k
          /\ \A i \in 1 .. k : Kept(toServer[c], k, whole)[i].what = toServer[c][i].what
      BY <1>0, KeptIs
    <3>2. Count(toClient'[c]) = 0
      BY <1>1, <2>1, NoneCount
    <3> QED
      BY <2>2, <3>1, <3>2
  <2>4. InLine(c)'
    BY <1>1, <1>2, <1>3, <2>2, <2>3 DEF InLine, Pending, Places
  <2>5. Linked(c)'
    BY <2>1, <2>3 DEF Linked
  <2>6. Accounts(c)'
    BY <1>1, <1>2, <1>3, <2>1, <2>2, <2>3 DEF Accounts
  <2> QED
    BY <2>1, <2>4, <2>5, <2>6 DEF Connection, NeverGarbled
<1>12. CASE ReadEnd(c)
  <2>1. /\ client'[c] = "gone" /\ toClient[c] = <<>>
        /\ UNCHANGED <<toServer, toClient, asked, answered, garbled>>
    BY <1>1, <1>12 DEF ReadEnd, Become, TypeOK
  <2>2. Count(toClient'[c]) = 0
    BY <2>1, NoneCount
  <2>3. InLine(c)'
    BY <1>2, <1>3, <2>1 DEF InLine, Pending
  <2>4. Linked(c)'
    BY <2>1, <2>2 DEF Linked
  <2>5. Accounts(c)'
    BY <1>1, <1>2, <1>3, <2>1 DEF Accounts
  <2> QED
    BY <2>1, <2>3, <2>4, <2>5 DEF Connection, NeverGarbled
<1> QED
  BY <1>4, <1>5, <1>6, <1>7, <1>8, <1>9, <1>10, <1>11, <1>12 DEF ClientProtocol, InCalls

-----------------------------------------------------------------------------
(* The steps of a thread on its own connection *)

\* A thread that serves a request has read all of it, and its client waits
\* for the answer or has gone.
LEMMA InRequest ==
    ASSUME TypeOK, NEW c \in Clients, Connection(c),
           handler[c] \in {"locking", "running", "answering"}
    PROVE  /\ client[c] \in {"waiting", "gone"}
           /\ Count(tcp_reader[c]) = 0 /\ Count(toServer[c]) = 0
           /\ Count(toClient[c]) = 0
<1>1. Numbers(c) /\ client[c] \in ClientStates
  BY ValuesTyped DEF TypeOK
<1>2. InLine(c) /\ Linked(c)
  BY DEF Connection
<1>3. client[c] \in {"waiting", "gone"}
  BY <1>1, <1>2 DEF Linked, Idle, ClientStates
<1>4. Count(tcp_reader[c]) = 0 /\ Count(toServer[c]) = 0
  BY <1>1, <1>2 DEF InLine, Pending, Places, Numbers
<1>5. Count(toClient[c]) = 0
  BY <1>1, <1>2, <1>3 DEF Linked, Idle, Numbers
<1> QED
  BY <1>3, <1>4, <1>5

\* The steps that neither read nor write.
LEMMA RunsOwn ==
    ASSUME ServerInduction, NEW c \in Clients, Connection(c), NeverGarbled,
           Lock(c) \/ LockPoisoned(c) \/ BlankInclude(c) \/ RunEnds(c) \/ RunPanics(c)
    PROVE  Connection(c)' /\ NeverGarbled'
<1>1. TypeOK /\ Numbers(c)
  BY ValuesTyped DEF ServerInduction
<1>2. InLine(c) /\ Linked(c) /\ Accounts(c)
  BY DEF Connection
<1>3. /\ UNCHANGED <<client, asked, answered, toServer, toClient, tcp_reader, request, garbled>>
      /\ \/ /\ handler[c] = "locking" /\ handler'[c] \in {"running", "ended"}
            /\ ran' = ran
         \/ handler[c] = "running" /\ handler'[c] \in {"stuck", "ended"} /\ ran' = ran
         \/ /\ handler[c] = "running" /\ handler'[c] = "answering"
            /\ ran'[c] = ran[c] + 1
  BY <1>1 DEF Lock, LockPoisoned, BlankInclude, RunEnds, RunPanics, Go, TypeOK, clientVars
<1>4. /\ client[c] \in {"waiting", "gone"}
      /\ Count(tcp_reader[c]) = 0 /\ Count(toServer[c]) = 0
      /\ Count(toClient[c]) = 0
  BY <1>1, <1>3, InRequest
<1>5. ran[c] < asked[c] /\ answered[c] <= ran[c]
      /\ (client[c] = "waiting" => asked[c] = answered[c] + 1 /\ request[c] = asked[c])
  BY <1>2, <1>3, <1>4 DEF Accounts
<1>6. InLine(c)'
  BY <1>3, <1>4 DEF InLine, Pending, Places
<1>7. Linked(c)'
  BY <1>3, <1>4 DEF Linked
<1>8. Accounts(c)'
  BY <1>1, <1>3, <1>4, <1>5 DEF Accounts, Numbers
<1> QED
  BY <1>3, <1>6, <1>7, <1>8 DEF Connection, NeverGarbled

\* The steps that write.
LEMMA WritesOwn ==
    ASSUME ServerInduction, NEW c \in Clients, Connection(c), NeverGarbled,
           Greet(c) \/ AskInclude(c) \/ Respond(c)
    PROVE  Connection(c)' /\ NeverGarbled'
<1>1. TypeOK /\ Numbers(c) /\ client[c] \in ClientStates
  BY ValuesTyped DEF ServerInduction, TypeOK
<1>2. InLine(c) /\ Linked(c) /\ Accounts(c)
  BY DEF Connection
<1>3. UNCHANGED <<client, asked, answered, ran, toServer, tcp_reader, request, garbled>>
  BY DEF Greet, AskInclude, Respond, clientVars
<1>4. /\ Count(tcp_reader[c]) = 0 /\ Count(toServer[c]) = 0 /\ Count(toClient[c]) = 0
      /\ client[c] \in (IF handler[c] = "greeting" THEN {"named", "gone"}
                        ELSE {"waiting", "gone"})
  <2>1. CASE Greet(c)
    <3>1. handler[c] = "greeting"
      BY <2>1 DEF Greet
    <3>2. client[c] \in {"named", "gone"}
      BY <1>1, <1>2, <3>1 DEF Linked, Idle, ClientStates
    <3>3. Count(tcp_reader[c]) = 0 /\ Count(toServer[c]) = 0
      BY <1>1, <1>2, <3>1 DEF InLine, Pending, Places, Numbers
    <3>4. Count(toClient[c]) = 0
      BY <1>1, <1>2, <3>1, <3>2 DEF Linked, Idle, Numbers
    <3> QED
      BY <3>1, <3>2, <3>3, <3>4
  <2>2. CASE AskInclude(c) \/ Respond(c)
    BY <1>1, <2>2, InRequest DEF AskInclude, Respond
  <2> QED
    BY <2>1, <2>2
<1>5. ASSUME NEW m \in FromServer, toClient' = [toClient EXCEPT ![c] = Append(@, m)]
      PROVE  Count(toClient'[c]) = 1 /\ toClient'[c][1] = m
  <2>1. toClient[c] \in Seq(FromServer)
    BY <1>1 DEF TypeOK
  <2>2. Extends(Append(toClient[c], m), toClient[c], m)
    BY <2>1, AppendIs
  <2>3. toClient'[c] = Append(toClient[c], m)
    BY <1>1, <1>5 DEF TypeOK
  <2> QED
    BY <1>4, <2>2, <2>3 DEF Extends
<1>6. 0 \in 0 .. MaxRequests /\ request[c] \in 0 .. MaxRequests
  BY <1>1, ServerBounds DEF TypeOK
<1>7. CASE handler'[c] = "ended" /\ client[c] = "gone" /\ toClient' = toClient
  BY <1>2, <1>3, <1>4, <1>7 DEF Connection, InLine, Linked, Accounts, NeverGarbled
<1>8. CASE client[c] = "gone" /\ toClient' = toClient
           /\ handler'[c] \in {"reading", "including"}
           /\ (handler'[c] = "including" => handler[c] = "running")
  <2>1. InLine(c)'
    BY <1>3, <1>4, <1>8 DEF InLine, Pending, Places
  <2>2. Linked(c)'
    BY <1>3, <1>4, <1>8 DEF Linked
  <2>3. Accounts(c)'
    BY <1>2, <1>3, <1>4, <1>8 DEF Accounts
  <2> QED
    BY <1>3, <2>1, <2>2, <2>3 DEF Connection, NeverGarbled
<1>9. CASE /\ handler[c] = "greeting" /\ handler'[c] = "reading" /\ client[c] = "named"
           /\ toClient' = [toClient EXCEPT ![c] = Append(@, Reply("ack", 0))]
  <2>1. Count(toClient'[c]) = 1 /\ toClient'[c][1].what = "ack"
    <3>1. Reply("ack", 0) \in FromServer /\ Reply("ack", 0).what = "ack"
      BY <1>6, MessagesTyped DEF Reply
    <3> QED
      BY <1>5, <1>9, <3>1
  <2>2. InLine(c)'
    BY <1>3, <1>4, <1>9 DEF InLine, Pending, Places
  <2>3. Linked(c)'
    BY <1>3, <1>4, <1>9, <2>1 DEF Linked, Idle, Pending
  <2>4. Accounts(c)'
    BY <1>2, <1>3, <1>4, <1>9 DEF Accounts
  <2> QED
    BY <1>3, <2>2, <2>3, <2>4 DEF Connection, NeverGarbled
<1>10. CASE /\ handler[c] = "running" /\ handler'[c] = "including" /\ client[c] = "waiting"
            /\ toClient' = [toClient EXCEPT ![c] = Append(@, Reply("include", request[c]))]
  <2>1. /\ ran[c] < asked[c] /\ answered[c] <= ran[c]
        /\ asked[c] = answered[c] + 1 /\ request[c] = asked[c]
    BY <1>2, <1>10 DEF Accounts
  <2>2. Count(toClient'[c]) = 1 /\ toClient'[c][1].what = "include"
        /\ toClient'[c][1].of = asked[c]
    <3>1. /\ Reply("include", request[c]) \in FromServer
          /\ Reply("include", request[c]).what = "include"
          /\ Reply("include", request[c]).of = request[c]
      BY <1>6, MessagesTyped DEF Reply
    <3> QED
      BY <1>5, <1>10, <2>1, <3>1
  <2>3. InLine(c)'
    BY <1>3, <1>4, <1>10 DEF InLine, Pending, Places
  <2>4. Linked(c)'
    BY <1>3, <1>4, <1>10, <2>2 DEF Linked
  <2>5. Accounts(c)'
    BY <1>1, <1>3, <1>4, <1>10, <2>1 DEF Accounts, Numbers
  <2> QED
    BY <1>3, <2>3, <2>4, <2>5 DEF Connection, NeverGarbled
<1>11. CASE /\ handler[c] = "answering" /\ handler'[c] = "reading" /\ client[c] = "waiting"
            /\ toClient' = [toClient EXCEPT ![c] = Append(@, Reply("answer", request[c]))]
  <2>1. /\ ran[c] = asked[c] /\ answered[c] <= ran[c]
        /\ asked[c] = answered[c] + 1 /\ request[c] = asked[c]
    BY <1>2, <1>11 DEF Accounts
  <2>2. Count(toClient'[c]) = 1 /\ toClient'[c][1].what = "answer"
        /\ toClient'[c][1].of = asked[c]
    <3>1. /\ Reply("answer", request[c]) \in FromServer
          /\ Reply("answer", request[c]).what = "answer"
          /\ Reply("answer", request[c]).of = request[c]
      BY <1>6, MessagesTyped DEF Reply
    <3> QED
      BY <1>5, <1>11, <2>1, <3>1
  <2>3. InLine(c)'
    BY <1>3, <1>4, <1>11 DEF InLine, Pending, Places
  <2>4. Linked(c)'
    BY <1>3, <1>4, <1>11, <2>1, <2>2 DEF Linked, Idle, Pending
  <2>5. Accounts(c)'
    BY <1>1, <1>3, <1>4, <1>11, <2>1 DEF Accounts, Numbers
  <2> QED
    BY <1>3, <2>3, <2>4, <2>5 DEF Connection, NeverGarbled
<1> QED
  <2>1. CASE Greet(c)
    BY <1>1, <1>4, <1>7, <1>8, <1>9, <2>1 DEF Greet, Go, Tell, Gone, TypeOK
  <2>2. CASE AskInclude(c)
    BY <1>1, <1>4, <1>8, <1>10, <2>2 DEF AskInclude, Go, Tell, Gone, TypeOK
  <2>3. CASE Respond(c)
    BY <1>1, <1>4, <1>7, <1>8, <1>11, <2>3 DEF Respond, Go, Tell, Gone, TypeOK
  <2> QED
    BY <2>1, <2>2, <2>3

\* The steps that read, those of the accept loop for the name included.
LEMMA ReadsOwn ==
    ASSUME ServerInduction, NEW c \in Clients, Connection(c), NeverGarbled, Queue,
           \/ Fetch(c) \/ ReadJson(c) \/ ReadXml(c) \/ ReadNothing(c)
           \/ ReadDocument(c) \/ ReadName(c) \/ NoName(c)
    PROVE  Connection(c)' /\ NeverGarbled'
<1>0. /\ TypeOK /\ client[c] \in ClientStates
      /\ toServer[c] \in Seq(FromClient) /\ tcp_reader[c] \in Seq(FromClient)
      /\ None \notin Clients
  BY ValuesTyped, ServerBounds DEF ServerInduction, TypeOK
<1>1. Numbers(c)
  BY <1>0, ValuesTyped
<1>2. InLine(c) /\ Linked(c) /\ Accounts(c)
  BY DEF Connection
<1>3. UNCHANGED <<client, asked, answered, ran, toClient>>
  BY DEF Fetch, ReadJson, ReadXml, ReadNothing, ReadDocument, ReadName, NoName,
     clientVars
<1>4. CASE handler'[c] = "ended" /\ client[c] = "gone" /\ UNCHANGED garbled
  BY <1>2, <1>3, <1>4 DEF Connection, InLine, Linked, Accounts, NeverGarbled
<1>5. CASE Fetch(c)
  <2>1. /\ handler[c] \in {"reading", "half"} /\ Count(tcp_reader[c]) = 0
        /\ UNCHANGED <<handler, request, garbled>>
    BY <1>0, <1>5, CountIs DEF Fetch
  <2>2. PICK k \in 1 .. Count(toServer[c]) :
           /\ tcp_reader'[c] = SubSeq(toServer[c], 1, k)
           /\ toServer'[c] = Rest(toServer[c], k)
    BY <1>0, <1>5 DEF Fetch, TypeOK, Count
  <2>3. /\ Count(tcp_reader'[c]) = k
        /\ \A i \in 1 .. k : tcp_reader'[c][i] = toServer[c][i]
    <3>1. /\ Count(SubSeq(toServer[c], 1, k)) = k
          /\ \A i \in 1 .. k : SubSeq(toServer[c], 1, k)[i] = toServer[c][i]
      BY <1>0, FirstAre
    <3> QED
      BY <2>2, <3>1
  <2>4. /\ Count(toServer'[c]) = Count(toServer[c]) - k
        /\ \A i \in 1 .. Count(toServer[c]) - k : toServer'[c][i] = toServer[c][k + i]
    <3>1. /\ Count(Rest(toServer[c], k)) = Count(toServer[c]) - k
          /\ \A i \in 1 .. Count(toServer[c]) - k : Rest(toServer[c], k)[i] = toServer[c][k + i]
      BY <1>0, RestIs
    <3> QED
      BY <2>2, <3>1
  <2>5. k \in 1 .. Count(toServer[c]) /\ Count(toServer[c]) \in Nat
    BY <1>1 DEF Numbers
  <2>6. Pending(c)' = Pending(c) /\ Pending(c) >= 1
    BY <2>1, <2>3, <2>4, <2>5 DEF Pending
  <2>7. ASSUME NEW i \in 1 .. k
        PROVE  /\ i \in 1 .. Count(toServer[c])
               /\ tcp_reader'[c][i] = toServer[c][i]
               /\ Count(tcp_reader[c]) + i = i
    BY <2>1, <2>3, <2>5
  <2>8. ASSUME NEW i \in 1 .. Count(toServer'[c])
        PROVE  /\ k + i \in 1 .. Count(toServer[c])
               /\ toServer'[c][i] = toServer[c][k + i]
               /\ Count(tcp_reader[c]) + (k + i) = Count(tcp_reader'[c]) + i
    BY <2>1, <2>3, <2>4, <2>5
  <2>9. InLine(c)'
    <3>1. handler[c] # "ended" /\ handler[c] \notin {"none", "greeting", "locking",
             "running", "including", "stuck", "answering"}
      BY <2>1
    <3>2. ASSUME NEW i \in 1 .. Count(tcp_reader'[c])
          PROVE  tcp_reader'[c][i].what = Kind(handler[c], i)
      BY <1>2, <2>3, <2>7, <3>1 DEF InLine
    <3>3. ASSUME NEW i \in 1 .. Count(toServer'[c])
          PROVE  toServer'[c][i].what = Kind(handler[c], Count(tcp_reader'[c]) + i)
      BY <1>2, <2>8, <3>1 DEF InLine
    <3> QED
      BY <1>2, <2>1, <2>6, <3>1, <3>2, <3>3 DEF InLine
  <2>10. Linked(c)'
    BY <1>0, <1>1, <1>2, <1>3, <2>1, <2>6 DEF Linked, Idle, ClientStates
  <2>11. Accounts(c)'
    <3>1. ASSUME NEW i \in 1 .. Count(tcp_reader'[c]), tcp_reader'[c][i].what = "xml"
          PROVE  /\ ran[c] < asked[c]
                 /\ client[c] = "waiting" => tcp_reader'[c][i].of = asked[c]
      BY <1>2, <2>1, <2>3, <2>7, <3>1 DEF Accounts
    <3>2. ASSUME NEW i \in 1 .. Count(toServer'[c]), toServer'[c][i].what = "xml"
          PROVE  /\ ran[c] < asked[c]
                 /\ client[c] = "waiting" => toServer'[c][i].of = asked[c]
      BY <1>2, <2>1, <2>8, <3>2 DEF Accounts
    <3> QED
      BY <1>2, <1>3, <2>1, <3>1, <3>2 DEF Accounts
  <2> QED
    BY <2>1, <2>9, <2>10, <2>11 DEF Connection, NeverGarbled
<1>6. CASE ReadJson(c) \/ ReadXml(c)
  <2> DEFINE json == handler[c] = "reading"
  <2>1. /\ handler[c] \in {"reading", "half"}
        /\ handler'[c] = (IF json THEN "half" ELSE "locking")
        /\ tcp_reader[c] # <<>> /\ tcp_reader'[c] = Tail(tcp_reader[c])
        /\ Garble(c, tcp_reader[c], IF json THEN "json" ELSE "xml", 1)
        /\ request'[c] = (IF json THEN request[c] ELSE Head(tcp_reader[c]).of)
        /\ UNCHANGED toServer
    BY <1>0, <1>6 DEF ReadJson, ReadXml, TakeMessage, Go, TypeOK
  <2>2. /\ Count(tcp_reader[c]) \in Nat /\ Count(tcp_reader[c]) >= 1
        /\ Count(tcp_reader'[c]) = Count(tcp_reader[c]) - 1
        /\ Head(tcp_reader[c]) = tcp_reader[c][1]
        /\ \A i \in 1 .. Count(tcp_reader[c]) - 1 : tcp_reader'[c][i] = tcp_reader[c][i + 1]
    <3>1. /\ Count(tcp_reader[c]) \in Nat /\ Count(tcp_reader[c]) >= 1
          /\ Count(Tail(tcp_reader[c])) = Count(tcp_reader[c]) - 1
          /\ Head(tcp_reader[c]) = tcp_reader[c][1]
          /\ \A i \in 1 .. Count(tcp_reader[c]) - 1 :
                Tail(tcp_reader[c])[i] = tcp_reader[c][i + 1]
      BY <1>0, <2>1, TailIs
    <3> QED
      BY <2>1, <3>1
  <2>3. 1 \in 1 .. Count(tcp_reader[c])
    BY <2>2
  <2>4. Head(tcp_reader[c]).what = (IF json THEN "json" ELSE "xml")
    BY <1>2, <2>1, <2>2, <2>3 DEF InLine, Kind
  <2>5. garbled' = garbled
    BY <2>1, <2>4 DEF Garble
  <2>6. Pending(c)' = Pending(c) - 1 /\ Pending(c) \in Nat /\ Pending(c) >= 1
    BY <1>1, <2>1, <2>2 DEF Pending, Numbers
  <2>7. ASSUME NEW i \in 1 .. Count(tcp_reader'[c])
        PROVE  /\ i + 1 \in 1 .. Count(tcp_reader[c]) /\ i + 1 # 1
               /\ tcp_reader'[c][i] = tcp_reader[c][i + 1]
    BY <2>2
  <2>8. ASSUME NEW i \in 1 .. Count(toServer[c])
        PROVE  Count(tcp_reader[c]) + i # 1
    BY <1>1, <2>2 DEF Numbers
  <2>9. InLine(c)'
    <3>1. CASE json
      <4>1. Pending(c)' <= 1
        BY <1>2, <2>6, <3>1 DEF InLine, Places
      <4>2. ASSUME NEW i \in 1 .. Count(tcp_reader'[c])
            PROVE  tcp_reader'[c][i].what = "xml"
        BY <1>2, <2>7, <3>1 DEF InLine, Kind
      <4>3. ASSUME NEW i \in 1 .. Count(toServer'[c])
            PROVE  toServer'[c][i].what = "xml"
        BY <1>2, <2>1, <2>8, <3>1 DEF InLine, Kind
      <4> QED
        BY <2>1, <3>1, <4>1, <4>2, <4>3 DEF InLine, Places, Kind
    <3>2. CASE ~json
      <4>1. Pending(c)' <= 0
        BY <1>2, <2>1, <2>6, <3>2 DEF InLine, Places
      <4>2. Count(tcp_reader'[c]) = 0 /\ Count(toServer'[c]) = 0
        BY <1>1, <2>1, <2>2, <4>1 DEF Pending, Numbers
      <4> QED
        BY <2>1, <3>2, <4>1, <4>2 DEF InLine, Places
    <3> QED
      BY <3>1, <3>2
  <2>10. Linked(c)'
    BY <1>0, <1>1, <1>2, <1>3, <2>1, <2>6 DEF Linked, Idle, ClientStates
  <2>11. Accounts(c)'
    <3>1. ASSUME NEW i \in 1 .. Count(tcp_reader'[c]), tcp_reader'[c][i].what = "xml"
          PROVE  /\ ran[c] < asked[c]
                 /\ client[c] = "waiting" => tcp_reader'[c][i].of = asked[c]
      BY <1>2, <2>1, <2>7, <3>1 DEF Accounts
    <3>2. ASSUME NEW i \in 1 .. Count(toServer[c]), toServer[c][i].what = "xml"
          PROVE  /\ ran[c] < asked[c]
                 /\ client[c] = "waiting" => toServer[c][i].of = asked[c]
      BY <1>2, <2>1, <3>2 DEF Accounts
    <3>3. ~json => /\ ran[c] < asked[c]
                   /\ client[c] = "waiting" => request'[c] = asked[c]
      BY <1>2, <2>1, <2>2, <2>3, <2>4 DEF Accounts
    <3> QED
      BY <1>2, <1>3, <2>1, <3>1, <3>2, <3>3 DEF Accounts
  <2> QED
    BY <2>5, <2>9, <2>10, <2>11 DEF Connection, NeverGarbled
<1>7. CASE ReadDocument(c)
  <2>1. /\ handler[c] = "including" /\ handler'[c] \in {"running", "stuck"}
        /\ UNCHANGED <<tcp_reader, request>>
    BY <1>0, <1>7 DEF ReadDocument, Go, TypeOK
  <2>2. Count(toServer'[c]) = 0 /\ UNCHANGED garbled
    <3>1. CASE toServer[c] = <<>> /\ UNCHANGED <<toServer, garbled>>
      BY <1>0, <3>1, CountIs
    <3>2. ASSUME NEW k \in 1 .. Count(toServer[c]), Garble(c, toServer[c], "document", k),
                 toServer'[c] = Rest(toServer[c], k)
          PROVE  Count(toServer'[c]) = 0 /\ UNCHANGED garbled
      <4>1. Count(toServer[c]) = 1 /\ k = 1
        BY <1>1, <1>2, <2>1, <3>2 DEF InLine, Pending, Places, Numbers
      <4>2. toServer[c][1].what = "document"
        BY <1>2, <2>1, <4>1 DEF InLine, Kind
      <4>3. Head(toServer[c]) = toServer[c][1]
        BY <1>0, <4>1, TailIs, CountIs
      <4>4. Count(Rest(toServer[c], k)) = Count(toServer[c]) - k
        BY <1>0, RestIs
      <4> QED
        BY <3>2, <4>1, <4>2, <4>3, <4>4 DEF Garble
    <3> QED
      BY <1>0, <1>7, <3>1, <3>2 DEF ReadDocument, TypeOK, Count
  <2>3. /\ client[c] \in {"waiting", "gone"} /\ Count(tcp_reader[c]) = 0
    BY <1>0, <1>2, <2>1 DEF Linked, InLine, Idle, ClientStates
  <2>4. Count(toClient[c]) = 0
    <3>1. CASE Count(toClient[c]) # 0
      <4>1. Count(toClient[c]) = 1 /\ client[c] = "waiting"
        BY <1>1, <1>2, <2>3, <3>1 DEF Linked, Numbers
      <4>2. Count(toServer[c]) = 0
        BY <1>2, <2>1, <4>1 DEF Linked, Idle
      <4>3. \E k \in 1 .. Count(toServer[c]) : TRUE
        BY <1>7, <2>3, <4>1 DEF ReadDocument, Gone, Count
      <4> QED
        BY <4>2, <4>3
    <3> QED
      BY <3>1
  <2>5. InLine(c)'
    BY <2>1, <2>2, <2>3 DEF InLine, Pending, Places
  <2>6. Linked(c)'
    BY <1>3, <2>1, <2>3, <2>4 DEF Linked
  <2>7. Accounts(c)'
    BY <1>2, <1>3, <2>1, <2>2, <2>3 DEF Accounts
  <2> QED
    BY <2>2, <2>5, <2>6, <2>7 DEF Connection, NeverGarbled
<1>8. CASE ReadName(c)
  <2>1. handler[c] = "none" /\ handler'[c] = "greeting" /\ UNCHANGED <<tcp_reader, request>>
    BY <1>0, <1>8 DEF ReadName, Queue, Waits, TypeOK
  <2>2. PICK k \in 1 .. Count(toServer[c]) :
           Garble(c, toServer[c], "name", k) /\ toServer'[c] = Rest(toServer[c], k)
    BY <1>0, <1>8 DEF ReadName, TypeOK, Count
  <2>3. Count(toServer[c]) = 1 /\ k = 1 /\ Count(tcp_reader[c]) = 0
    BY <1>1, <1>2, <2>1, <2>2 DEF InLine, Pending, Places, Numbers
  <2>4. Count(toServer'[c]) = 0
    <3>1. Count(Rest(toServer[c], k)) = Count(toServer[c]) - k
      BY <1>0, RestIs
    <3> QED
      BY <2>2, <2>3, <3>1
  <2>5. garbled' = garbled
    <3>1. toServer[c][1].what = "name"
      BY <1>2, <2>1, <2>3 DEF InLine, Kind
    <3>2. Head(toServer[c]) = toServer[c][1]
      BY <1>0, <2>3, TailIs, CountIs
    <3> QED
      BY <2>2, <2>3, <3>1, <3>2 DEF Garble
  <2>6. client[c] \in {"named", "waiting", "gone"} /\ Count(toClient[c]) = 0
    BY <1>0, <1>1, <1>2, <2>1, <2>3 DEF Linked, Idle, ClientStates, Numbers
  <2>7. client[c] # "waiting"
    BY <1>2, <2>1 DEF Linked
  <2>8. InLine(c)'
    BY <2>1, <2>3, <2>4 DEF InLine, Pending, Places
  <2>9. Linked(c)'
    BY <1>3, <2>1, <2>6, <2>7 DEF Linked
  <2>10. Accounts(c)'
    BY <1>2, <1>3, <2>1, <2>3, <2>4, <2>7 DEF Accounts
  <2> QED
    BY <2>5, <2>8, <2>9, <2>10 DEF Connection, NeverGarbled
<1>9. CASE ReadNothing(c) \/ NoName(c)
  BY <1>0, <1>4, <1>9 DEF ReadNothing, NoName, Go, Gone, TypeOK
<1> QED
  BY <1>5, <1>6, <1>7, <1>8, <1>9

-----------------------------------------------------------------------------
(* Every step *)

LEMMA ConnectionsKept ==
    ASSUME ServerInduction, ProtocolInduction, [Next]_vars
    PROVE  (\A q \in Clients : Connection(q)') /\ NeverGarbled'
<1>1. TypeOK /\ NeverGarbled /\ Queue /\ Exited /\ \A q \in Clients : Connection(q)
  BY DEF ServerInduction, ProtocolInduction
<1>2. ASSUME NEW c \in Clients, OwnStep(c)
      PROVE  (\A q \in Clients : Connection(q)') /\ NeverGarbled'
  <2>1. Connection(c)' /\ NeverGarbled'
    BY <1>1, <1>2, ClientOwn, RunsOwn, WritesOwn, ReadsOwn DEF OwnStep, Thread
  <2>2. ASSUME NEW q \in Clients, q # c PROVE Connection(q)'
    BY <1>1, <1>2, <2>2, Elsewhere, SameConnection
  <2> QED
    BY <2>1, <2>2
<1>3. ASSUME NEW c \in Clients, NameError(c)
      PROVE  (\A q \in Clients : Connection(q)') /\ NeverGarbled'
  <2>1. ASSUME NEW q \in Clients PROVE Connection(q)'
    <3>1. InLine(q) /\ Linked(q) /\ Accounts(q)
      BY <1>1 DEF Connection
    <3>2. /\ handler'[q] = "ended"
          /\ UNCHANGED <<client, asked, answered, ran, toServer, toClient, tcp_reader, request>>
      BY <1>3 DEF NameError, clientVars
    <3> QED
      BY <3>1, <3>2 DEF Connection, InLine, Linked, Idle, Accounts
  <2> QED
    BY <1>1, <1>3, <2>1 DEF NameError, NeverGarbled
<1>4. CASE Accept \/ Quiet \/ UNCHANGED vars
  <2>1. ASSUME NEW q \in Clients PROVE Same(q)
    BY <1>4 DEF Accept, Quiet, vars, clientVars, threadVars, Same
  <2> QED
    BY <1>1, <1>4, <2>1, SameConnection
       DEF Accept, Quiet, vars, NeverGarbled
<1> QED
  BY <1>2, <1>3, <1>4 DEF Next, AcceptLoop, OwnStep

LEMMA ExitedKept ==
    ASSUME ServerInduction, ProtocolInduction, [Next]_vars
    PROVE  Exited'
<1>1. TypeOK /\ Exited
  BY DEF ServerInduction, ProtocolInduction
<1>2. CASE server' = server
  <2>1. SUFFICES ASSUME server = "exited" PROVE UNCHANGED handler
    BY <1>1, <1>2 DEF Exited
  <2>2. \A q \in Clients : handler[q] = "ended"
    BY <1>1, <2>1 DEF Exited
  <2>3. ASSUME NEW c \in Clients, Thread(c) PROVE FALSE
    BY <2>2, <2>3 DEF Thread, Greet, Fetch, ReadJson, ReadXml, ReadNothing, Lock,
       LockPoisoned, AskInclude, ReadDocument, BlankInclude, RunEnds, RunPanics, Respond
  <2>4. ASSUME NEW c \in Clients,
               \/ Connect(c) \/ SendJson(c) \/ AnswerInclude(c) \/ Leave(c)
               \/ ClientProtocol(c)
        PROVE  UNCHANGED handler
    BY <2>4 DEF Connect, SendName, ReadAck, SendJson, SendXml, AnswerInclude,
       ReadAnswer, Leave, ReadEnd, ClientProtocol, InCalls, threadVars
  <2>5. CASE AcceptLoop
    BY <2>1, <2>5 DEF AcceptLoop, Accept, ReadName, NoName, NameError
  <2>6. CASE Quiet \/ UNCHANGED vars
    BY <2>6 DEF Quiet, vars, threadVars
  <2> QED
    BY <2>3, <2>4, <2>5, <2>6 DEF Next
<1>3. CASE server' # server
  <2>1. \E c \in Clients : NameError(c)
    BY <1>3 DEF Next, AcceptLoop, Connect, SendJson, AnswerInclude, Leave,
       ClientProtocol, InCalls, SendName, ReadAck, SendXml, ReadAnswer, ReadEnd, Accept,
       ReadName, NoName, Quiet, vars, acceptVars, Thread, Greet, Fetch, ReadJson,
       ReadXml, ReadNothing, Lock, LockPoisoned, AskInclude, ReadDocument, BlankInclude, RunEnds,
       RunPanics, Respond
  <2> QED
    BY <2>1 DEF NameError, Exited
<1> QED
  BY <1>2, <1>3

LEMMA HeldByRunKept ==
    ASSUME ServerInduction, ProtocolInduction, [Next]_vars
    PROVE  HeldByRun'
<1>1. TypeOK /\ HeldByRun /\ Queue /\ None \notin Clients
  BY ServerBounds DEF ServerInduction, ProtocolInduction
<1>2. CASE UNCHANGED <<handler, db, holder>>
  BY <1>1, <1>2 DEF HeldByRun, InRun
<1>3. ASSUME NEW c \in Clients, UNCHANGED holder, ~InRun(c),
             \A q \in Clients \ {c} : handler'[q] = handler[q] /\ db'[q] = db[q]
      PROVE  HeldByRun'
  <2>1. SUFFICES ASSUME NEW d \in Dbs, holder'[d] # None
                 PROVE  (InRun(holder[d]) /\ db[holder[d]] = d)'
    BY DEF HeldByRun
  <2>2. holder'[d] = holder[d] /\ holder[d] \in Clients
    BY <1>1, <1>3, <2>1 DEF TypeOK
  <2>3. InRun(holder[d]) /\ db[holder[d]] = d
    BY <1>1, <2>1, <2>2 DEF HeldByRun
  <2>4. holder[d] # c
    BY <1>3, <2>3
  <2> QED
    BY <1>3, <2>2, <2>3, <2>4 DEF InRun
<1>4. ASSUME NEW c \in Clients, InRun(c), InRun(c)', UNCHANGED <<holder, db>>,
             \A q \in Clients \ {c} : handler'[q] = handler[q]
      PROVE  HeldByRun'
  <2>1. SUFFICES ASSUME NEW d \in Dbs, holder'[d] # None
                 PROVE  (InRun(holder[d]) /\ db[holder[d]] = d)'
    BY DEF HeldByRun
  <2>2. holder'[d] = holder[d] /\ holder[d] \in Clients
    BY <1>1, <1>4, <2>1 DEF TypeOK
  <2>3. InRun(holder[d]) /\ db[holder[d]] = d
    BY <1>1, <2>1, <2>2 DEF HeldByRun
  <2> QED
    BY <1>4, <2>2, <2>3 DEF InRun
<1>5. ASSUME NEW c \in Clients, Lock(c) PROVE HeldByRun'
  <2>1. /\ handler[c] = "locking" /\ handler'[c] = "running" /\ db' = db
        /\ holder' = [holder EXCEPT ![db[c]] = c]
        /\ \A q \in Clients \ {c} : handler'[q] = handler[q]
    BY <1>1, <1>5 DEF Lock, Go, TypeOK
  <2>2. SUFFICES ASSUME NEW d \in Dbs, holder'[d] # None
                 PROVE  (InRun(holder[d]) /\ db[holder[d]] = d)'
    BY DEF HeldByRun
  <2>3. CASE d = db[c]
    <3>1. holder'[d] = c
      BY <1>1, <2>1, <2>3 DEF TypeOK
    <3> QED
      BY <2>1, <2>3, <3>1 DEF InRun
  <2>4. CASE d # db[c]
    <3>1. holder'[d] = holder[d] /\ holder[d] \in Clients
      BY <1>1, <2>1, <2>2, <2>4 DEF TypeOK
    <3>2. InRun(holder[d]) /\ db[holder[d]] = d
      BY <1>1, <2>2, <3>1 DEF HeldByRun
    <3>3. holder[d] # c
      BY <2>1, <3>2 DEF InRun
    <3> QED
      BY <2>1, <3>1, <3>2, <3>3 DEF InRun
  <2> QED
    BY <2>3, <2>4
<1>6. ASSUME NEW c \in Clients, RunEnds(c) \/ RunPanics(c) PROVE HeldByRun'
  <2>1. /\ holder' = [holder EXCEPT ![db[c]] = None] /\ db' = db
        /\ \A q \in Clients \ {c} : handler'[q] = handler[q]
    BY <1>1, <1>6 DEF RunEnds, RunPanics, Go, TypeOK
  <2>2. SUFFICES ASSUME NEW d \in Dbs, holder'[d] # None
                 PROVE  (InRun(holder[d]) /\ db[holder[d]] = d)'
    BY DEF HeldByRun
  <2>3. d # db[c] /\ holder'[d] = holder[d] /\ holder[d] \in Clients
    BY <1>1, <2>1, <2>2 DEF TypeOK
  <2>4. InRun(holder[d]) /\ db[holder[d]] = d
    BY <1>1, <2>2, <2>3 DEF HeldByRun
  <2>5. holder[d] # c
    BY <2>3, <2>4
  <2> QED
    BY <2>1, <2>3, <2>4, <2>5 DEF InRun
<1>7. ASSUME NEW c \in Clients,
             \/ Greet(c) \/ Fetch(c) \/ ReadJson(c) \/ ReadXml(c) \/ ReadNothing(c)
             \/ LockPoisoned(c) \/ Respond(c) \/ ReadName(c) \/ NoName(c)
      PROVE  HeldByRun'
  <2>1. /\ UNCHANGED holder /\ ~InRun(c)
        /\ \A q \in Clients \ {c} : handler'[q] = handler[q] /\ db'[q] = db[q]
    BY <1>1, <1>7 DEF Greet, Fetch, ReadJson, ReadXml, ReadNothing, LockPoisoned,
       Respond, ReadName, NoName, Go, TakeMessage, InRun, TypeOK, lockVars, Queue, Waits
  <2> QED
    BY <1>3, <2>1
<1>8. ASSUME NEW c \in Clients, AskInclude(c) \/ ReadDocument(c) \/ BlankInclude(c)
      PROVE  HeldByRun'
  <2>1. /\ UNCHANGED <<holder, db>> /\ InRun(c) /\ InRun(c)'
        /\ \A q \in Clients \ {c} : handler'[q] = handler[q]
    BY <1>1, <1>8 DEF AskInclude, ReadDocument, BlankInclude, Go, InRun, TypeOK,
       lockVars
  <2> QED
    BY <1>4, <2>1
<1>9. ASSUME NEW c \in Clients, NameError(c) PROVE HeldByRun'
  BY <1>9 DEF NameError, HeldByRun
<1>10. ASSUME NEW c \in Clients,
              \/ Connect(c) \/ SendJson(c) \/ AnswerInclude(c) \/ Leave(c)
              \/ ClientProtocol(c)
       PROVE  HeldByRun'
  BY <1>2, <1>10 DEF Connect, SendName, ReadAck, SendJson, SendXml, AnswerInclude,
     ReadAnswer, Leave, ReadEnd, ClientProtocol, InCalls, threadVars, lockVars
<1>11. CASE Accept \/ Quiet \/ UNCHANGED vars
  BY <1>2, <1>11 DEF Accept, Quiet, vars, threadVars, lockVars
<1> QED
  BY <1>5, <1>6, <1>7, <1>8, <1>9, <1>10, <1>11 DEF Next, AcceptLoop, Thread

LEMMA QueueKept ==
    ASSUME ServerInduction, ProtocolInduction, [Next]_vars
    PROVE  Queue'
<1>1. /\ TypeOK /\ Queue /\ \A q \in Clients : Connection(q)
      /\ backlog \in Seq(Clients) /\ None \notin Clients
  BY ServerBounds DEF ServerInduction, ProtocolInduction, TypeOK
<1>2. Count(backlog) \in Nat /\ \A i \in 1 .. Count(backlog) : backlog[i] \in Clients
  BY <1>1, CountIs, ElementOfSeq DEF Count
\* Whoever waits goes on waiting when another connection, or nothing, moves.
<1>3. ASSUME server = "up", UNCHANGED <<backlog, accepting>>,
             \A q \in Clients : /\ Waits(q) => Waits(q)'
                                /\ client'[q] = "new" =>
                                      client[q] = "new" /\ handler'[q] = handler[q]
      PROVE  Queue'
  <2>1. \A q \in Clients : (client[q] = "new" => handler[q] = "none")'
    BY <1>1, <1>3 DEF Queue
  <2>2. accepting # None => Waits(accepting)'
    BY <1>1, <1>3 DEF Queue, TypeOK
  <2>3. ASSUME NEW i \in 1 .. Count(backlog)
        PROVE  /\ Waits(backlog[i])' /\ backlog[i] # accepting
               /\ \A j \in 1 .. Count(backlog) : backlog[i] = backlog[j] => i = j
    BY <1>1, <1>2, <1>3 DEF Queue
  <2> QED
    BY <1>3, <2>1, <2>2, <2>3 DEF Queue
<1>4. CASE server = "up" /\ (Quiet \/ UNCHANGED vars)
  BY <1>3, <1>4 DEF Quiet, vars, acceptVars, clientVars, threadVars, Waits
<1>5. ASSUME NEW c \in Clients, server = "up",
             SendJson(c) \/ AnswerInclude(c) \/ Leave(c) \/ ClientProtocol(c)
      PROVE  Queue'
  <2>1. /\ UNCHANGED <<backlog, accepting, handler>>
        /\ client[c] # "new" /\ client'[c] # "new"
        /\ \A q \in Clients \ {c} : client'[q] = client[q]
    BY <1>1, <1>5 DEF SendName, ReadAck, SendJson, SendXml, AnswerInclude,
       ReadAnswer, Leave, ReadEnd, ClientProtocol, InCalls, threadVars, acceptVars,
       clientVars, Become, TypeOK
  <2> QED
    BY <1>3, <1>5, <2>1 DEF Waits
<1>6. ASSUME NEW c \in Clients, server = "up", Thread(c)
      PROVE  Queue'
  <2>1. /\ UNCHANGED <<backlog, accepting, client>> /\ handler[c] # "none"
        /\ \A q \in Clients \ {c} : handler'[q] = handler[q]
    BY <1>1, <1>6 DEF Thread, Greet, Fetch, ReadJson, ReadXml, ReadNothing, Lock,
       LockPoisoned, AskInclude, ReadDocument, BlankInclude, RunEnds, RunPanics, Respond, Go,
       acceptVars, clientVars, TypeOK
  <2>2. client[c] # "new"
    BY <1>1, <1>6, <2>1 DEF Queue
  <2> QED
    BY <1>3, <1>6, <2>1, <2>2 DEF Waits
<1>7. ASSUME NEW c \in Clients, server = "up", Connect(c)
      PROVE  Queue'
  <2>1. /\ client[c] = "new" /\ client'[c] = "connected" /\ handler' = handler
        /\ accepting' = accepting /\ backlog' = Append(backlog, c)
        /\ \A q \in Clients \ {c} : client'[q] = client[q]
    BY <1>1, <1>7 DEF Connect, Become, TypeOK, threadVars
  <2>2. handler[c] = "none" /\ ~Waits(c)
    BY <1>1, <1>7, <2>1 DEF Queue, Waits
  <2>3. \A q \in Clients : Waits(q) => Waits(q)' /\ q # c
    BY <2>1, <2>2 DEF Waits
  <2>4. Waits(c)' /\ c # accepting
    BY <1>1, <1>7, <2>1, <2>2 DEF Queue, Waits
  <2>5. ASSUME NEW i \in 1 .. Count(backlog)
        PROVE  /\ backlog[i] # c /\ backlog[i] # accepting
               /\ client'[backlog[i]] # "new" /\ handler'[backlog[i]] = "none"
    BY <1>1, <1>2, <1>7, <2>3 DEF Queue, Waits
  <2>6. /\ Count(Append(backlog, c)) = Count(backlog) + 1
        /\ Append(backlog, c)[Count(backlog) + 1] = c
        /\ \A i \in 1 .. Count(backlog) : Append(backlog, c)[i] = backlog[i]
    <3>1. Extends(Append(backlog, c), backlog, c)
      BY <1>1, AppendIs
    <3> QED
      BY <3>1 DEF Extends
  <2>7. ASSUME NEW i \in 1 .. Count(backlog'), NEW j \in 1 .. Count(backlog'),
               backlog'[i] = backlog'[j]
        PROVE  i = j
    <3>1. CASE i \in 1 .. Count(backlog) /\ j \in 1 .. Count(backlog)
      BY <1>1, <1>7, <2>1, <2>6, <2>7, <3>1 DEF Queue
    <3>2. CASE i = Count(backlog) + 1 \/ j = Count(backlog) + 1
      BY <1>2, <2>1, <2>5, <2>6, <2>7, <3>2
    <3> QED
      BY <1>2, <2>1, <2>6, <3>1, <3>2
  <2>8. ASSUME NEW i \in 1 .. Count(backlog')
        PROVE  (Waits(backlog[i]) /\ backlog[i] # accepting)'
    <3>1. i \in 1 .. Count(backlog) \/ i = Count(backlog) + 1
      BY <1>2, <2>1, <2>6
    <3>2. CASE i \in 1 .. Count(backlog)
      BY <2>1, <2>5, <2>6, <3>2 DEF Waits
    <3>3. CASE i = Count(backlog) + 1
      BY <2>1, <2>4, <2>6, <3>3 DEF Waits
    <3> QED
      BY <3>1, <3>2, <3>3
  <2>9. /\ \A q \in Clients : (client[q] = "new" => handler[q] = "none")'
        /\ accepting' # None => Waits(accepting)'
    BY <1>1, <1>7, <2>1, <2>3 DEF Queue, TypeOK
  <2> QED
    BY <2>1, <2>7, <2>8, <2>9 DEF Queue
<1>8. CASE server = "up" /\ Accept
  <2>1. /\ accepting = None /\ backlog # <<>> /\ accepting' = Head(backlog)
        /\ backlog' = Tail(backlog) /\ UNCHANGED <<client, handler>>
    BY <1>8 DEF Accept, clientVars, threadVars
  <2>2. /\ Count(backlog) >= 1 /\ Count(Tail(backlog)) = Count(backlog) - 1
        /\ Head(backlog) = backlog[1]
        /\ \A i \in 1 .. Count(backlog) - 1 : Tail(backlog)[i] = backlog[i + 1]
    BY <1>1, <2>1, TailIs
  <2>3. \A i \in 1 .. Count(backlog) :
           /\ Waits(backlog[i])
           /\ \A j \in 1 .. Count(backlog) : backlog[i] = backlog[j] => i = j
    BY <1>1, <1>8 DEF Queue
  <2>4. ASSUME NEW i \in 1 .. Count(backlog')
        PROVE  i + 1 \in 1 .. Count(backlog) /\ i + 1 # 1 /\ backlog'[i] = backlog[i + 1]
    <3>1. Count(backlog') = Count(backlog) - 1 /\ i + 1 \in 1 .. Count(backlog) /\ i + 1 # 1
      BY <1>2, <2>1, <2>2
    <3>2. i \in 1 .. Count(backlog) - 1
      BY <3>1
    <3> QED
      BY <2>1, <2>2, <3>1, <3>2
  <2>5. 1 \in 1 .. Count(backlog)
    BY <1>2, <2>2
  <2>6. ASSUME NEW i \in 1 .. Count(backlog')
        PROVE  Waits(backlog'[i]) /\ backlog'[i] # accepting'
    BY <2>1, <2>2, <2>3, <2>4, <2>5
  <2>7. ASSUME NEW i \in 1 .. Count(backlog'), NEW j \in 1 .. Count(backlog'),
               backlog'[i] = backlog'[j]
        PROVE  i = j
    <3>1. i + 1 = j + 1
      BY <2>3, <2>4, <2>7
    <3> QED
      BY <3>1
  <2>8. Waits(accepting')
    BY <2>1, <2>2, <2>3, <2>5
  <2>9. \A q : Waits(q)' <=> Waits(q)
    BY <2>1 DEF Waits
  <2>10. \A q \in Clients : (client[q] = "new" => handler[q] = "none")'
    BY <1>1, <1>8, <2>1 DEF Queue
  <2> QED
    BY <2>6, <2>7, <2>8, <2>9, <2>10 DEF Queue
<1>9. ASSUME NEW c \in Clients, ReadName(c) \/ NoName(c)
      PROVE  Queue'
  <2>1. /\ server = "up" /\ accepting = c /\ accepting' = None
        /\ UNCHANGED <<backlog, client>>
        /\ \A q \in Clients \ {c} : handler'[q] = handler[q]
    BY <1>1, <1>9 DEF ReadName, NoName, clientVars, TypeOK
  <2>2. Waits(c)
    BY <1>1, <2>1 DEF Queue
  <2>3. \A q \in Clients \ {c} : Waits(q) => Waits(q)'
    BY <2>1 DEF Waits
  <2>4. \A q \in Clients : (client[q] = "new" => handler[q] = "none")'
    BY <1>1, <2>1, <2>2 DEF Queue, Waits
  <2>5. ASSUME NEW i \in 1 .. Count(backlog)
        PROVE  /\ Waits(backlog[i])' /\ backlog[i] # None
               /\ \A j \in 1 .. Count(backlog) : backlog[i] = backlog[j] => i = j
    BY <1>1, <1>2, <2>1, <2>3 DEF Queue
  <2> QED
    BY <2>1, <2>4, <2>5 DEF Queue
<1>10. ASSUME NEW c \in Clients, NameError(c)
       PROVE  Queue'
  BY <1>10 DEF NameError, Queue
<1>11. CASE server # "up"
  <2>1. server' # "up"
    BY <1>11 DEF Next, AcceptLoop, Connect, SendJson, AnswerInclude, Leave,
       ClientProtocol, InCalls, SendName, ReadAck, SendXml, ReadAnswer, ReadEnd, Accept,
       ReadName, NoName, NameError, Quiet, vars, acceptVars, Thread, Greet, Fetch,
       ReadJson, ReadXml, ReadNothing, Lock, LockPoisoned, AskInclude,
       ReadDocument, BlankInclude, RunEnds, RunPanics, Respond
  <2> QED
    BY <2>1 DEF Queue
<1> QED
  BY <1>4, <1>5, <1>6, <1>7, <1>8, <1>9, <1>10, <1>11 DEF Next, AcceptLoop

-----------------------------------------------------------------------------

LEMMA ProtocolStarts == Init => ProtocolInduction
<1> SUFFICES ASSUME Init PROVE ProtocolInduction
  OBVIOUS
<1>1. ASSUME NEW c \in Clients
      PROVE  Connection(c)
  <2>1. /\ client[c] = "new" /\ handler[c] = "none"
        /\ asked[c] = 0 /\ ran[c] = 0 /\ answered[c] = 0
        /\ Count(toServer[c]) = 0 /\ Count(tcp_reader[c]) = 0 /\ Count(toClient[c]) = 0
    BY NoneCount DEF Init
  <2> QED
    BY <2>1 DEF Connection, InLine, Pending, Places, Linked, Accounts
<1>2. Count(backlog) = 0
  BY NoneCount DEF Init
<1> QED
  BY <1>1, <1>2 DEF Init, ProtocolInduction, Queue, Exited, HeldByRun, NeverGarbled

LEMMA ProtocolKept ==
    ServerInduction /\ ProtocolInduction /\ [Next]_vars => ProtocolInduction'
  BY ConnectionsKept, QueueKept, ExitedKept, HeldByRunKept DEF ProtocolInduction

THEOREM ProtocolInvariant == Spec => []ProtocolInduction
  BY ProtocolStarts, ProtocolKept, ServerInvariant, PTL DEF Spec

\* No message on any connection is dropped with a reader or taken for a message
\* of another kind, whatever panics, leaves or is cut short.
THEOREM NothingGarbled == Spec => []NeverGarbled
<1>1. ProtocolInduction => NeverGarbled
  BY DEF ProtocolInduction
<1> QED
  BY <1>1, ProtocolInvariant, PTL

\* What is on its way to a client belongs to the request it waits for.
THEOREM OwnAnswers == Spec => []OwnAnswer
<1>1. ServerInduction /\ ProtocolInduction => OwnAnswer
  <2> SUFFICES ASSUME ServerInduction, ProtocolInduction, NEW c \in Clients,
                      NEW i \in 1 .. Count(toClient[c]), toClient[c][i].what # "ack"
               PROVE  client[c] = "waiting" /\ toClient[c][i].of = asked[c]
    BY DEF OwnAnswer, Count
  <2>1. Linked(c) /\ Count(toClient[c]) \in Nat
    BY ValuesTyped DEF ServerInduction, ProtocolInduction, Connection, Numbers
  <2>2. Count(toClient[c]) = 1 /\ i = 1
    BY <2>1 DEF Linked
  <2> QED
    BY <2>1, <2>2 DEF Linked
<1> QED
  BY <1>1, ServerInvariant, ProtocolInvariant, PTL

-----------------------------------------------------------------------------
(* Nobody waits for nobody *)

\* What whoever waits is owed is on its way: a client in a call, and a thread that
\* reads.  Only a document with a substitute makes a thread wait for itself.
Owed(c) ==
    /\ client[c] = "named" /\ handler[c] = "none" => Count(toServer[c]) = 1
    /\ client[c] = "named" /\ handler[c] = "reading" => Count(toClient[c]) = 1
    /\ client[c] = "waiting" /\ handler[c] = "reading" /\ Count(toClient[c]) = 0 =>
          Pending(c) = 2
    /\ client[c] = "waiting" /\ handler[c] = "half" => Pending(c) = 1
    /\ handler[c] = "including" /\ ~Gone(c) => Count(toClient[c]) + Count(toServer[c]) = 1
    /\ handler[c] = "stuck" => c \in Substituting

\* A connection that waits for its thread is in the accept loop or in its backlog.
Listed ==
    server = "up" => \A c \in Clients : Waits(c) =>
       accepting = c \/ \E i \in 1 .. Count(backlog) : backlog[i] = c

Delivered == Listed /\ \A c \in Clients : Owed(c)

LEMMA SameDelivery ==
    ASSUME NEW q, Same(q), Owed(q)
    PROVE  Owed(q)'
<1>1. Pending(q)' = Pending(q)
  BY DEF Same, Pending
<1> QED
  BY <1>1 DEF Same, Owed, Gone

\* What a client does: what it waits for then is on its way.
LEMMA ClientOwes ==
    ASSUME ServerInduction, NEW c \in Clients, Connection(c), Connection(c)', Owed(c),
           \/ Connect(c) \/ SendJson(c) \/ AnswerInclude(c) \/ Leave(c)
           \/ ClientProtocol(c)
    PROVE  Owed(c)'
<1>0. TypeOK /\ TypeOK'
  BY ClientKeeps DEF ServerInduction
<1>1. /\ TypeOK /\ Numbers(c) /\ Numbers(c)'
      /\ Linked(c) /\ InLine(c) /\ Linked(c)' /\ InLine(c)'
  BY <1>0, ValuesTyped, NextValues DEF Connection
<1>2. UNCHANGED <<handler, tcp_reader>>
  BY DEF Connect, SendName, ReadAck, SendJson, SendXml, AnswerInclude, ReadAnswer,
     Leave, ReadEnd, ClientProtocol, InCalls, threadVars
<1> USE DEF Numbers
<1>3. ASSUME NEW m \in FromClient, Write(c, m)
      PROVE  Count(toServer'[c]) = Count(toServer[c]) + 1
  <2>1. toServer[c] \in Seq(FromClient) /\ toServer'[c] = Append(toServer[c], m)
    BY <1>1, <1>3 DEF Write, TypeOK
  <2>2. Extends(Append(toServer[c], m), toServer[c], m)
    BY <2>1, AppendIs
  <2> QED
    BY <2>1, <2>2 DEF Extends
<1>4. \A n \in 0 .. MaxRequests : \A what \in {"name", "json", "xml", "document"} :
         Write(c, Sent(what, n)) => Count(toServer'[c]) = Count(toServer[c]) + 1
  BY <1>3, MessagesTyped
<1>5. 0 \in 0 .. MaxRequests /\ asked[c] \in 0 .. MaxRequests
      /\ (asked[c] < MaxRequests => asked[c] + 1 \in 0 .. MaxRequests)
  <2>1. asked[c] \in 0 .. MaxRequests /\ MaxRequests \in Nat
    BY <1>1, ServerBounds DEF TypeOK
  <2> QED
    BY <2>1
<1>6. CASE client'[c] = "gone"
  BY <1>2, <1>6 DEF Owed, Gone
<1>7. CASE Connect(c) \/ ReadAck(c) \/ SendJson(c) \/ ReadAnswer(c)
  <2>1. client[c] \in ClientStates \ {"gone"} /\ client'[c] \in {"connected", "ready", "sending"}
    BY <1>1, <1>7 DEF Connect, ReadAck, SendJson, ReadAnswer, Become, TypeOK, ClientStates
  <2>2. handler'[c] \in {"none", "ended", "reading", "half"}
    BY <1>1, <2>1 DEF Linked, Idle
  <2> QED
    BY <2>1, <2>2 DEF Owed
<1>8. CASE SendName(c)
  <2>1. client[c] = "connected" /\ client'[c] = "named" /\ Write(c, Sent("name", 0))
    BY <1>1, <1>8 DEF SendName, Become, TypeOK
  <2>2. Count(toServer'[c]) = Count(toServer[c]) + 1
    BY <1>4, <1>5, <2>1
  <2>3. Count(toServer[c]) = 0 /\ handler[c] \in {"none", "ended"}
    BY <1>1, <2>1 DEF Linked
  <2> QED
    BY <1>2, <2>1, <2>2, <2>3 DEF Owed
<1>9. CASE SendXml(c)
  <2>1. /\ client[c] = "sending" /\ client'[c] = "waiting"
        /\ asked[c] < MaxRequests /\ Write(c, Sent("xml", asked[c] + 1))
    BY <1>1, <1>9 DEF SendXml, Become, TypeOK, ServerInduction, Asking
  <2>2. Count(toServer'[c]) = Count(toServer[c]) + 1
    BY <1>4, <1>5, <2>1
  <2>3. Pending(c)' = Pending(c) + 1
    BY <1>1, <1>2, <2>2 DEF Pending
  <2> QED
    BY <1>1, <1>2, <2>1, <2>3 DEF Linked, Owed
<1>10. CASE AnswerInclude(c)
  <2>1. /\ client[c] = "waiting" /\ toClient[c] # <<>> /\ Head(toClient[c]).what = "include"
        /\ toClient'[c] = Tail(toClient[c]) /\ Write(c, Sent("document", asked[c]))
        /\ client' = client
    BY <1>1, <1>10 DEF AnswerInclude, TypeOK, clientVars
  <2>2. Count(toServer'[c]) = Count(toServer[c]) + 1
    BY <1>4, <1>5, <2>1
  <2>3. /\ Count(toClient[c]) = 1 /\ Head(toClient[c]) = toClient[c][1]
        /\ Count(toClient'[c]) = 0
    <3>1. Count(toClient[c]) <= 1
      BY <1>1 DEF Linked
    <3>2. toClient[c] \in Seq(FromServer)
      BY <1>1 DEF TypeOK
    <3> QED
      BY <2>1, <3>1, <3>2, TailIs
  <2>4. handler[c] # "ended" => handler[c] = "including" /\ Count(toServer[c]) = 0
    BY <1>1, <2>1, <2>3 DEF Linked
  <2> QED
    BY <1>2, <2>1, <2>2, <2>3, <2>4 DEF Owed
<1> QED
  <2>1. Leave(c) \/ ReadEnd(c) => client'[c] = "gone"
    BY <1>1 DEF Leave, ReadEnd, Become, TypeOK
  <2> QED
    BY <1>6, <1>7, <1>8, <1>9, <1>10, <2>1 DEF ClientProtocol, InCalls

\* What a thread or the accept loop does with a connection.
LEMMA ThreadOwes ==
    ASSUME ServerInduction, NEW c \in Clients, Connection(c), Connection(c)', Owed(c),
           Queue,
           Thread(c) \/ ReadName(c) \/ NoName(c)
    PROVE  Owed(c)'
<1>1. /\ TypeOK /\ Numbers(c) /\ None \notin Clients /\ client[c] \in ClientStates
      /\ Linked(c) /\ InLine(c) /\ Linked(c)' /\ InLine(c)'
  BY ValuesTyped, ServerBounds DEF ServerInduction, Connection, TypeOK
<1>2. UNCHANGED client
  BY DEF Thread, Greet, Fetch, ReadJson, ReadXml, ReadNothing, Lock, LockPoisoned,
     AskInclude, ReadDocument, BlankInclude, RunEnds, RunPanics, Respond, ReadName, NoName, clientVars
<1> USE DEF Numbers
<1>3. CASE handler'[c] \in {"ended", "greeting", "locking", "running", "answering"}
  BY <1>3 DEF Owed
<1>4. ASSUME NEW m \in FromServer, Tell(c, m), ~Gone(c), Count(toClient[c]) = 0
      PROVE  Count(toClient'[c]) = 1
  <2>1. toClient[c] \in Seq(FromServer) /\ toClient'[c] = Append(toClient[c], m)
    BY <1>1, <1>4 DEF Tell, TypeOK
  <2>2. Extends(Append(toClient[c], m), toClient[c], m)
    BY <2>1, AppendIs
  <2> QED
    BY <1>4, <2>1, <2>2 DEF Extends
<1>5. \A n \in 0 .. MaxRequests : \A what \in {"ack", "include", "answer"} :
         Tell(c, Reply(what, n)) /\ ~Gone(c) /\ Count(toClient[c]) = 0 =>
            Count(toClient'[c]) = 1
  BY <1>4, MessagesTyped
<1>6. 0 \in 0 .. MaxRequests /\ request[c] \in 0 .. MaxRequests
  BY <1>1, ServerBounds DEF TypeOK
<1>7. CASE Greet(c) \/ Respond(c)
  <2>0. handler[c] \in {"greeting", "answering"} /\ handler'[c] \in {"reading", "ended"}
    BY <1>1, <1>7 DEF Greet, Respond, Go, TypeOK
  <2> SUFFICES ASSUME handler'[c] = "reading", ~Gone(c)
               PROVE  Count(toClient'[c]) = 1
    BY <1>2, <1>3, <2>0 DEF Owed, Gone
  <2>1. Count(toClient[c]) = 0
    BY <1>1, <2>0 DEF Linked, Idle, ClientStates
  <2>2. \E what \in {"ack", "answer"}, n \in 0 .. MaxRequests : Tell(c, Reply(what, n))
    BY <1>1, <1>6, <1>7 DEF Greet, Respond, Gone
  <2> QED
    BY <1>5, <2>1, <2>2
<1>8. CASE AskInclude(c)
  <2>1. handler[c] = "running" /\ handler'[c] = "including" /\ UNCHANGED toServer
        /\ Tell(c, Reply("include", request[c]))
    BY <1>1, <1>8 DEF AskInclude, Go, TypeOK
  <2>2. Count(toClient[c]) = 0 /\ Count(toServer[c]) = 0
    BY <1>1, <2>1, InRequest
  <2>3. ~Gone(c) => Count(toClient'[c]) = 1
    BY <1>5, <1>6, <2>1, <2>2
  <2> QED
    BY <1>2, <2>1, <2>2, <2>3 DEF Owed, Gone
<1>9. CASE Fetch(c)
  <2>1. handler[c] \in {"reading", "half"} /\ UNCHANGED <<handler, toClient>>
        /\ Count(tcp_reader[c]) = 0
    BY <1>1, <1>9, CountIs DEF Fetch, TypeOK
  <2>2. PICK k \in 1 .. Count(toServer[c]) :
           /\ tcp_reader'[c] = SubSeq(toServer[c], 1, k)
           /\ toServer'[c] = Rest(toServer[c], k)
    BY <1>1, <1>9 DEF Fetch, TypeOK, Count
  <2>3. /\ Count(SubSeq(toServer[c], 1, k)) = k
        /\ Count(Rest(toServer[c], k)) = Count(toServer[c]) - k
    <3>1. toServer[c] \in Seq(FromClient)
      BY <1>1 DEF TypeOK
    <3> QED
      BY <3>1, FirstAre, RestIs
  <2>4. Pending(c)' = Pending(c)
    BY <1>1, <2>1, <2>2, <2>3 DEF Pending
  <2> QED
    BY <1>2, <2>1, <2>4 DEF Owed
<1>10. CASE ReadJson(c)
  <2>1. /\ handler[c] = "reading" /\ handler'[c] = "half" /\ UNCHANGED <<toServer, toClient>>
        /\ tcp_reader[c] # <<>> /\ tcp_reader'[c] = Tail(tcp_reader[c])
    BY <1>1, <1>10 DEF ReadJson, TakeMessage, Go, TypeOK
  <2>2. Count(tcp_reader[c]) >= 1 /\ Count(tcp_reader'[c]) = Count(tcp_reader[c]) - 1
    <3>1. tcp_reader[c] \in Seq(FromClient)
      BY <1>1 DEF TypeOK
    <3> QED
      BY <2>1, <3>1, TailIs
  <2>3. Pending(c) >= 1 /\ Pending(c)' = Pending(c) - 1
    BY <1>1, <2>1, <2>2 DEF Pending
  <2>4. client[c] = "waiting" => Count(toClient[c]) = 0
    BY <1>1, <2>1, <2>3 DEF Linked, Idle
  <2> QED
    BY <1>2, <2>1, <2>3, <2>4 DEF Owed
<1>11. CASE ReadDocument(c)
  <2>1. handler'[c] = "stuck" => c \in Substituting
    BY <1>1, <1>11 DEF ReadDocument, Go, TypeOK
  <2> QED
    BY <1>1, <1>2, <1>3, <1>11, <2>1 DEF Owed, Gone, ReadDocument, Go, TypeOK
<1>12. CASE BlankInclude(c)
  <2>1. handler'[c] = "stuck" /\ c \in Substituting
    BY <1>1, <1>12 DEF BlankInclude, Go, TypeOK
  <2> QED
    BY <2>1 DEF Owed
<1> QED
  <2>1. \/ Greet(c) \/ Respond(c) \/ AskInclude(c) \/ Fetch(c) \/ ReadJson(c)
        \/ ReadDocument(c) \/ BlankInclude(c)
        \/ handler'[c] \in {"ended", "greeting", "locking", "running", "answering"}
    BY <1>1 DEF Thread, ReadXml, ReadNothing, Lock, LockPoisoned, RunEnds, RunPanics,
       ReadName, NoName, Go, TypeOK
  <2> QED
    BY <1>3, <1>7, <1>8, <1>9, <1>10, <1>11, <1>12, <2>1

LEMMA ListedKept ==
    ASSUME ServerInduction, Queue, Listed, [Next]_vars
    PROVE  Listed'
<1>1. TypeOK /\ backlog \in Seq(Clients) /\ Count(backlog) \in Nat /\ None \notin Clients
  BY ServerBounds, CountIs DEF ServerInduction, TypeOK
<1>2. ASSUME UNCHANGED <<backlog, accepting, server>>,
             \A q \in Clients : Waits(q)' => Waits(q)
      PROVE  Listed'
  BY <1>2 DEF Listed
<1>3. CASE Quiet \/ UNCHANGED vars
  BY <1>2, <1>3 DEF Quiet, vars, acceptVars, clientVars, threadVars, Waits
<1>4. ASSUME NEW c \in Clients,
             SendJson(c) \/ AnswerInclude(c) \/ Leave(c) \/ ClientProtocol(c)
      PROVE  Listed'
  <2>1. /\ UNCHANGED <<backlog, accepting, server, handler>> /\ client[c] # "new"
        /\ \A q \in Clients \ {c} : client'[q] = client[q]
    BY <1>1, <1>4 DEF SendName, ReadAck, SendJson, SendXml, AnswerInclude,
       ReadAnswer, Leave, ReadEnd, ClientProtocol, InCalls, threadVars, acceptVars,
       clientVars, Become, TypeOK
  <2> QED
    BY <1>2, <2>1 DEF Waits
<1>5. ASSUME NEW c \in Clients, Thread(c)
      PROVE  Listed'
  <2>1. /\ UNCHANGED <<backlog, accepting, server, client>> /\ handler'[c] # "none"
        /\ \A q \in Clients \ {c} : handler'[q] = handler[q]
    BY <1>1, <1>5 DEF Thread, Greet, Fetch, ReadJson, ReadXml, ReadNothing, Lock,
       LockPoisoned, AskInclude, ReadDocument, BlankInclude, RunEnds, RunPanics, Respond, Go,
       acceptVars, clientVars, TypeOK
  <2> QED
    BY <1>2, <2>1 DEF Waits
<1>6. ASSUME NEW c \in Clients, Connect(c)
      PROVE  Listed'
  <2>1. /\ handler' = handler /\ accepting' = accepting /\ server' = server
        /\ backlog' = Append(backlog, c) /\ server = "up"
        /\ \A q \in Clients \ {c} : client'[q] = client[q]
    BY <1>1, <1>6 DEF Connect, Become, TypeOK, threadVars
  <2>2. /\ Count(Append(backlog, c)) = Count(backlog) + 1
        /\ Append(backlog, c)[Count(backlog) + 1] = c
        /\ \A i \in 1 .. Count(backlog) : Append(backlog, c)[i] = backlog[i]
    <3>1. Extends(Append(backlog, c), backlog, c)
      BY <1>1, AppendIs
    <3> QED
      BY <3>1 DEF Extends
  <2> SUFFICES ASSUME NEW q \in Clients, Waits(q)'
               PROVE  accepting = q \/ \E i \in 1 .. Count(backlog') : backlog'[i] = q
    BY <2>1 DEF Listed
  <2>3. CASE q = c
    BY <1>1, <2>1, <2>2, <2>3
  <2>4. CASE q # c
    <3>1. Waits(q)
      BY <2>1, <2>4 DEF Waits
    <3>2. accepting = q \/ \E i \in 1 .. Count(backlog) : backlog[i] = q
      BY <2>1, <3>1 DEF Listed
    <3>3. \A i \in 1 .. Count(backlog) : i \in 1 .. Count(backlog')
      BY <1>1, <2>1, <2>2
    <3> QED
      BY <2>1, <2>2, <3>2, <3>3
  <2> QED
    BY <2>3, <2>4
<1>7. CASE Accept
  <2>1. /\ accepting = None /\ backlog # <<>> /\ accepting' = Head(backlog)
        /\ backlog' = Tail(backlog) /\ UNCHANGED <<client, handler, server>> /\ server = "up"
    BY <1>7 DEF Accept, clientVars, threadVars
  <2>2. /\ Count(backlog) >= 1 /\ Count(Tail(backlog)) = Count(backlog) - 1
        /\ Head(backlog) = backlog[1]
        /\ \A i \in 1 .. Count(backlog) - 1 : Tail(backlog)[i] = backlog[i + 1]
    BY <1>1, <2>1, TailIs
  <2> SUFFICES ASSUME NEW q \in Clients, Waits(q)
               PROVE  accepting' = q \/ \E i \in 1 .. Count(backlog') : backlog'[i] = q
    BY <2>1 DEF Listed, Waits
  <2>3. PICK i \in 1 .. Count(backlog) : backlog[i] = q
    BY <1>1, <2>1 DEF Listed
  <2>4. CASE i = 1
    BY <2>1, <2>2, <2>3, <2>4
  <2>5. CASE i # 1
    <3>1. i - 1 \in 1 .. Count(backlog) - 1 /\ (i - 1) + 1 = i
      BY <1>1, <2>5
    <3>2. backlog'[i - 1] = q
      BY <2>1, <2>2, <2>3, <3>1
    <3> QED
      BY <2>1, <2>2, <3>1, <3>2
  <2> QED
    BY <2>4, <2>5
<1>8. ASSUME NEW c \in Clients, ReadName(c) \/ NoName(c)
      PROVE  Listed'
  <2>1. /\ accepting = c /\ UNCHANGED <<backlog, client, server>> /\ handler'[c] # "none"
        /\ \A q \in Clients \ {c} : handler'[q] = handler[q]
    BY <1>1, <1>8 DEF ReadName, NoName, clientVars, TypeOK
  <2>2. \A q \in Clients : Waits(q)' => Waits(q) /\ q # c
    BY <2>1 DEF Waits
  <2> QED
    BY <2>1, <2>2 DEF Listed
<1>9. ASSUME NEW c \in Clients, NameError(c)
      PROVE  Listed'
  BY <1>9 DEF NameError, Listed
<1> QED
  BY <1>3, <1>4, <1>5, <1>6, <1>7, <1>8, <1>9 DEF Next, AcceptLoop

LEMMA DeliveredStarts == Init => Delivered
<1> SUFFICES ASSUME Init PROVE Delivered
  OBVIOUS
<1>1. Count(backlog) = 0 /\ \A c \in Clients : Count(toServer[c]) = 0
  BY NoneCount DEF Init
<1> QED
  BY <1>1 DEF Init, Delivered, Listed, Waits, Owed

LEMMA DeliveredKept ==
    ServerInduction /\ ProtocolInduction /\ Delivered /\ [Next]_vars => Delivered'
<1> SUFFICES ASSUME ServerInduction, ProtocolInduction, Delivered, [Next]_vars
             PROVE  Delivered'
  OBVIOUS
<1>1. /\ TypeOK /\ Queue /\ Listed
      /\ \A q \in Clients : Connection(q) /\ Owed(q)
  BY DEF ServerInduction, ProtocolInduction, Delivered
<1>2. \A q \in Clients : Connection(q)'
  BY ConnectionsKept
<1>3. Listed'
  BY <1>1, ListedKept
<1>4. ASSUME NEW c \in Clients, OwnStep(c)
      PROVE  \A q \in Clients : Owed(q)'
  <2>1. Owed(c)'
    BY <1>1, <1>2, <1>4, ClientOwes, ThreadOwes DEF OwnStep
  <2>2. ASSUME NEW q \in Clients, q # c PROVE Owed(q)'
    BY <1>1, <1>4, <2>2, Elsewhere, SameDelivery
  <2> QED
    BY <2>1, <2>2
<1>5. ASSUME NEW c \in Clients, NameError(c), NEW q \in Clients
      PROVE  Owed(q)'
  <2>1. handler'[q] = "ended" /\ UNCHANGED <<client, toServer>>
    BY <1>5 DEF NameError, clientVars
  <2> QED
    BY <2>1 DEF Owed
<1>6. CASE Accept \/ Quiet \/ UNCHANGED vars
  <2>1. ASSUME NEW q \in Clients PROVE Same(q)
    BY <1>6 DEF Accept, Quiet, vars, clientVars, threadVars, Same
  <2>2. \A q \in Clients : Owed(q)'
    BY <1>1, <2>1, SameDelivery
  <2> QED
    BY <1>3, <2>2 DEF Delivered
<1> QED
  BY <1>3, <1>4, <1>5, <1>6 DEF Next, AcceptLoop, OwnStep, Delivered

\* Whoever waits in a call waits for something that is there, or for a thread that
\* can go on, unless the run that it waits for is kept: by a client that does not
\* answer an include, or by itself, over an include with a substitute.
THEOREM NobodyWaitsForNobody == Spec => []NoDeadlock
<1>1. ServerInduction /\ ProtocolInduction /\ Delivered => NoDeadlock
  <2> SUFFICES ASSUME ServerInduction, ProtocolInduction, Delivered,
                      NEW c \in Clients, InCall(c), toClient[c] = <<>>, ~Closed(c)
               PROVE  \/ /\ handler[c] = "none" /\ (accepting = c \/ InBacklog(c))
                         /\ AcceptGoesOn
                      \/ GoesOn(c) \/ HeldByItself(c)
                      \/ /\ handler[c] = "locking"
                         /\ LET h == holder[db[c]] IN
                               h # None =>
                                  /\ h # c /\ db[h] = db[c]
                                  /\ GoesOn(h) \/ HeldByClient(h) \/ HeldByItself(h)
    BY DEF NoDeadlock
  <2>1. /\ TypeOK /\ Queue /\ Listed /\ HeldByRun /\ server = "up"
        /\ handler[c] \in HandlerStates \ {"ended"}
    BY DEF ServerInduction, ProtocolInduction, Delivered, TypeOK, Closed
  <2>2. ASSUME NEW q \in Clients
        PROVE  /\ Linked(q) /\ InLine(q) /\ Owed(q) /\ Numbers(q)
               /\ Count(toServer[q]) # 0 => toServer[q] # <<>>
               /\ Count(tcp_reader[q]) # 0 => tcp_reader[q] # <<>>
               /\ Count(toClient[q]) # 0 => /\ toClient[q] # <<>>
                                            /\ Head(toClient[q]) = toClient[q][1]
    <3>1. Connection(q) /\ Owed(q) /\ Numbers(q) /\ Texts(q)
      BY <2>1, ValuesTyped DEF ProtocolInduction, Delivered
    <3>2. Count(toClient[q]) # 0 => toClient[q] # <<>> /\ Head(toClient[q]) = toClient[q][1]
      BY <3>1, NoneCount, TailIs DEF Texts
    <3> QED
      BY <3>1, <3>2, NoneCount DEF Connection
  <2>3. Count(toClient[c]) = 0
    BY NoneCount
  <2>4. CASE handler[c] = "none"
    <3>1. accepting = c \/ InBacklog(c)
      BY <2>1, <2>4 DEF Listed, Waits, InCall, InBacklog, Count
    <3>2. CASE accepting = None
      BY <2>4, <3>1, <3>2 DEF AcceptGoesOn
    <3>3. CASE accepting # None
      <4>1. accepting \in Clients /\ Waits(accepting)
        BY <2>1, <3>3 DEF TypeOK, Queue
      <4>2. client[accepting] \in {"connected", "named", "gone"}
        BY <2>1, <2>2, <4>1 DEF TypeOK, ClientStates, Waits, Linked, Idle
      <4>3. client[accepting] = "named" => toServer[accepting] # <<>>
        BY <2>2, <4>1 DEF Owed, Waits
      <4> QED
        BY <2>4, <3>1, <4>2, <4>3 DEF AcceptGoesOn, Gone
    <3> QED
      BY <3>2, <3>3
  <2>5. CASE handler[c] \in {"reading", "half"}
    <3>1. client[c] = "waiting" /\ Pending(c) >= 1
      BY <2>2, <2>3, <2>5 DEF InCall, Owed, Linked, Idle
    <3>2. Count(tcp_reader[c]) # 0 \/ Count(toServer[c]) # 0
      BY <2>2, <3>1 DEF Pending, Numbers
    <3> QED
      BY <2>2, <2>5, <3>2 DEF GoesOn
  <2>6. CASE handler[c] = "including"
    <3>1. Count(toServer[c]) = 1
      BY <2>2, <2>3, <2>6 DEF InCall, Owed, Gone, Numbers
    <3> QED
      BY <2>2, <2>6, <3>1 DEF GoesOn
  <2>7. CASE handler[c] = "stuck"
    BY <2>2, <2>7 DEF Owed, HeldByItself
  <2>8. CASE handler[c] = "locking"
    <3> DEFINE h == holder[db[c]]
    <3> SUFFICES ASSUME h # None
                 PROVE  /\ h # c /\ db[h] = db[c]
                        /\ GoesOn(h) \/ HeldByClient(h) \/ HeldByItself(h)
      BY <2>8
    <3>1. h \in Clients /\ InRun(h) /\ db[h] = db[c]
      BY <2>1 DEF TypeOK, HeldByRun
    <3> HIDE DEF h
    <3>2. h # c
      BY <2>8, <3>1 DEF InRun
    <3>3. CASE handler[h] = "running" \/ (handler[h] = "including" /\ Gone(h))
      BY <3>1, <3>2, <3>3 DEF GoesOn
    <3>4. CASE handler[h] = "including" /\ ~Gone(h)
      <4>1. client[h] = "waiting"
        BY <2>1, <2>2, <3>1, <3>4 DEF TypeOK, ClientStates, Linked, Idle, Gone
      <4>2. Count(toServer[h]) = 1 \/ Count(toClient[h]) = 1
        BY <2>2, <3>1, <3>4 DEF Owed, Numbers
      <4>3. CASE Count(toServer[h]) = 1
        BY <2>2, <3>1, <3>2, <3>4, <4>3 DEF GoesOn
      <4>4. CASE Count(toClient[h]) = 1
        <5>1. toClient[h][1].what = "include"
          BY <2>2, <3>1, <3>4, <4>1, <4>4 DEF Linked, Idle
        <5>2. toClient[h] # <<>> /\ Head(toClient[h]).what = "include"
          BY <2>2, <3>1, <4>4, <5>1
        <5> QED
          BY <3>1, <3>2, <3>4, <4>1, <5>2 DEF HeldByClient
      <4> QED
        BY <4>2, <4>3, <4>4
    <3>5. CASE handler[h] = "stuck"
      BY <2>2, <3>1, <3>2, <3>5 DEF Owed, HeldByItself
    <3> QED
      BY <3>1, <3>3, <3>4, <3>5 DEF InRun
  <2>9. CASE handler[c] \in {"greeting", "running", "answering"}
    BY <2>9 DEF GoesOn
  <2> QED
    BY <2>1, <2>4, <2>5, <2>6, <2>7, <2>8, <2>9 DEF HandlerStates
<1>2. Spec => []Delivered
  BY DeliveredStarts, DeliveredKept, ServerInvariant, ProtocolInvariant, PTL DEF Spec
<1> QED
  BY <1>1, <1>2, ServerInvariant, ProtocolInvariant, PTL

-----------------------------------------------------------------------------
(* The server implements SerialRuns *)

\* A request is made when its document is sent, begins when its thread gets the
\* mutex, and is over when the mutex is free again.
LEMMA StepsImplement ==
    ASSUME ServerInduction, ProtocolInduction, [Next]_vars
    PROVE  [Serial!Next]_(Serial!vars)
<1>1. /\ TypeOK /\ Asking /\ HoldsLock /\ HeldByRun /\ None \notin Clients
      /\ \A c \in Clients : Connection(c)
  BY ServerBounds DEF ServerInduction, ProtocolInduction
<1>2. CASE UNCHANGED <<holder, poisoned, asked, ran, answered>>
  BY <1>2 DEF Serial!vars
<1>3. ASSUME NEW c \in Clients, SendXml(c) PROVE Serial!Next
  <2>1. /\ client[c] = "sending" /\ asked' = [asked EXCEPT ![c] = @ + 1]
        /\ UNCHANGED <<holder, poisoned, ran, answered>>
    BY <1>3 DEF SendXml, lockVars
  <2>2. answered[c] = asked[c] /\ asked[c] < MaxRequests
    BY <1>1, <2>1 DEF Connection, Accounts, Asking
  <2> QED
    BY <2>1, <2>2 DEF Serial!Next, Serial!Send
<1>4. ASSUME NEW c \in Clients, ReadAnswer(c) PROVE Serial!Next
  <2>1. /\ client[c] = "waiting" /\ toClient[c] # <<>> /\ Head(toClient[c]).what # "include"
        /\ answered' = [answered EXCEPT ![c] = @ + 1]
        /\ UNCHANGED <<holder, poisoned, ran, asked>>
    BY <1>4 DEF ReadAnswer, EndsExec, lockVars
  <2>2. Linked(c) /\ Accounts(c) /\ Numbers(c) /\ toClient[c] \in Seq(FromServer)
    BY <1>1, ValuesTyped DEF Connection, TypeOK
  <2>3. Count(toClient[c]) = 1 /\ Head(toClient[c]) = toClient[c][1]
    <3>1. Count(toClient[c]) <= 1
      BY <2>2 DEF Linked
    <3>2. toClient[c] \in Seq(FromServer)
      BY <2>2
    <3> QED
      BY <2>1, <3>1, <3>2, TailIs
  <2>4. ran[c] = asked[c]
    BY <2>1, <2>2, <2>3 DEF Linked
  <2>5. answered[c] < ran[c]
    BY <2>1, <2>2, <2>4 DEF Accounts, Numbers
  <2> QED
    BY <2>1, <2>5 DEF Serial!Next, Serial!Answer
<1>5. ASSUME NEW c \in Clients, Lock(c) PROVE Serial!Next
  <2>1. /\ handler[c] = "locking" /\ holder[db[c]] = None /\ db[c] \notin poisoned
        /\ holder' = [holder EXCEPT ![db[c]] = c]
        /\ UNCHANGED <<poisoned, asked, ran, answered>>
    BY <1>5 DEF Lock, LockFree, clientVars
  <2>2. db[c] \in Dbs
    BY <1>1 DEF TypeOK
  <2>3. ran[c] < asked[c]
    BY <1>1, <2>1 DEF Connection, Accounts
  <2>4. \A other \in Dbs : holder[other] # c
    BY <1>1, <2>1 DEF HeldByRun, InRun
  <2>5. Serial!Begin(c, db[c])
    BY <2>1, <2>3, <2>4 DEF Serial!Begin
  <2> QED
    BY <2>2, <2>5 DEF Serial!Next
<1>6. ASSUME NEW c \in Clients, RunEnds(c) \/ RunPanics(c) PROVE Serial!Next
  <2>1. db[c] \in Dbs /\ holder[db[c]] = c
    BY <1>1, <1>6 DEF RunEnds, RunPanics, HoldsLock, InRun, TypeOK
  <2>2. CASE RunEnds(c)
    BY <2>1, <2>2 DEF RunEnds, clientVars, Serial!Next, Serial!Finish
  <2>3. CASE RunPanics(c)
    BY <2>1, <2>3 DEF RunPanics, clientVars, Serial!Next, Serial!Break
  <2> QED
    BY <1>6, <2>2, <2>3
<1>7. ASSUME NEW c \in Clients, NameError(c) PROVE Serial!Next
  BY <1>7 DEF NameError, clientVars, Serial!Next, Serial!Exit
<1>8. ASSUME NEW c \in Clients,
             \/ Connect(c) \/ SendName(c) \/ ReadAck(c) \/ SendJson(c)
             \/ AnswerInclude(c) \/ Leave(c) \/ ReadEnd(c)
      PROVE  UNCHANGED <<holder, poisoned, asked, ran, answered>>
  BY <1>8 DEF Connect, SendName, ReadAck, SendJson, AnswerInclude, Leave, ReadEnd,
     clientVars, lockVars
<1>9. ASSUME NEW c \in Clients,
             \/ Greet(c) \/ Fetch(c) \/ ReadJson(c) \/ ReadXml(c) \/ ReadNothing(c)
             \/ LockPoisoned(c) \/ AskInclude(c) \/ ReadDocument(c) \/ BlankInclude(c)
             \/ Respond(c) \/ ReadName(c) \/ NoName(c)
      PROVE  UNCHANGED <<holder, poisoned, asked, ran, answered>>
  BY <1>9 DEF Greet, Fetch, ReadJson, ReadXml, ReadNothing, LockPoisoned, AskInclude,
     ReadDocument, BlankInclude, Respond, ReadName, NoName, clientVars, lockVars
<1>10. CASE Accept \/ Quiet \/ UNCHANGED vars
  BY <1>2, <1>10 DEF Accept, Quiet, vars, clientVars, lockVars
<1> QED
  BY <1>2, <1>3, <1>4, <1>5, <1>6, <1>7, <1>8, <1>9, <1>10
     DEF Next, AcceptLoop, ClientProtocol, InCalls, Thread

\* What the server promises its clients, whatever they do and however many they
\* are: a database interprets one document at a time, every request at most once
\* and in the order of its connection, none after a panic.
THEOREM ServesSerially == Spec => Serially
<1>1. Init => Serial!Init
  BY DEF Init, Serial!Init
<1>2. ServerInduction /\ ProtocolInduction /\ [Next]_vars => [Serial!Next]_(Serial!vars)
  BY StepsImplement
<1> QED
  BY <1>1, <1>2, ServerInvariant, ProtocolInvariant, PTL
     DEF Spec, Serially, Serial!Spec

\* Whatever serves its clients as SerialRuns says keeps these accounts.
LEMMA SerialAccounts == Serial!Spec => []Serial!Accounted
<1> DEFINE Typed == /\ holder \in [Dbs -> Clients \cup {None}]
                    /\ asked \in [Clients -> Nat] /\ ran \in [Clients -> Nat]
                    /\ answered \in [Clients -> Nat]
           Kept1 == Typed /\ Serial!Accounted
<1>1. Serial!Init => Kept1
  BY ServerBounds DEF Serial!Init, Serial!Accounted
<1>2. Kept1 /\ [Serial!Next]_(Serial!vars) => Kept1'
  <2> SUFFICES ASSUME Kept1, [Serial!Next]_(Serial!vars) PROVE Kept1'
    OBVIOUS
  <2> USE ServerBounds DEF Serial!Accounted
  <2>1. ASSUME NEW c \in Clients, Serial!Send(c) PROVE Kept1'
    BY <2>1 DEF Serial!Send
  <2>2. ASSUME NEW c \in Clients, Serial!Answer(c) PROVE Kept1'
    BY <2>2 DEF Serial!Answer
  <2>3. ASSUME NEW c \in Clients, NEW d \in Dbs, Serial!Begin(c, d) PROVE Kept1'
    BY <2>3 DEF Serial!Begin
  <2>4. ASSUME NEW c \in Clients, NEW d \in Dbs, Serial!Finish(c, d) PROVE Kept1'
    BY <2>4 DEF Serial!Finish
  <2>5. ASSUME NEW c \in Clients, NEW d \in Dbs, Serial!Break(c, d) PROVE Kept1'
    BY <2>5 DEF Serial!Break
  <2>6. CASE Serial!Exit
    BY <2>6 DEF Serial!Exit
  <2>7. CASE UNCHANGED Serial!vars
    BY <2>7 DEF Serial!vars
  <2> QED
    BY <2>1, <2>2, <2>3, <2>4, <2>5, <2>6, <2>7 DEF Serial!Next
<1> QED
  BY <1>1, <1>2, PTL DEF Serial!Spec

\* So a request is interpreted and answered at most once, and no document is
\* interpreted on a database that is poisoned.
THEOREM AnsweredAtMostOnce == Spec => []AtMostOnce
<1>1. AtMostOnce <=> Serial!Accounted
  BY DEF AtMostOnce
<1> QED
  BY <1>1, ServesSerially, SerialAccounts, PTL DEF Serially
=============================================================================
