------------------------------- MODULE Server -------------------------------
(***************************************************************************)
(* wild-doc-server and the clients of wild-doc-client-lib, one connection  *)
(* per client: the accept loop that reads the name of a database, a thread *)
(* per connection, a mutex per database held while a document is           *)
(* interpreted, and the documents that an interpretation asks its client   *)
(* for over the same connection.                                           *)
(*                                                                         *)
(* A connection is a sequence of messages in each direction.  The bytes    *)
(* say nothing of the kind of a message: a reader takes whatever is next,  *)
(* and a buffered reader takes more than it is asked for.                  *)
(***************************************************************************)
EXTENDS Naturals, Sequences

CONSTANTS
    Clients, Dbs,
    DbOf,           \* the database a client connects to
    None,           \* no client
    Lazy,           \* clients that may never answer an include
    Silent,         \* clients that may connect and never send a name
    Substituting,   \* clients whose documents name substitutes for includes
    Endless,        \* clients whose documents may be interpreted for ever
    MaxRequests,    \* bound: requests on one connection
    MaxIncludes     \* bound: documents one interpretation asks for

ASSUME ServerBounds ==
    /\ DbOf \in [Clients -> Dbs]
    /\ None \notin Clients
    /\ Lazy \subseteq Clients
    /\ Silent \subseteq Clients
    /\ Substituting \subseteq Clients
    /\ Endless \subseteq Clients
    /\ MaxRequests \in Nat
    /\ MaxIncludes \in Nat

VARIABLES
    client,         \* what each client is doing
    toServer,       \* messages on their way, in each direction
    toClient,
    backlog,        \* connections not accepted yet
    accepting,      \* the connection whose name main() is reading
    server,         \* the process
    handler,        \* what the thread of each connection is doing
    db,             \* the database it works on
    tcp_reader,     \* what its buffered reader holds
    request,        \* the request it has read
    included,       \* documents the current interpretation has asked for
    holder,         \* the thread that holds the mutex of a database
    poisoned,       \* databases whose mutex is poisoned
    asked,          \* history: requests a client has made,
    ran,            \* those of them interpreted to the end,
    answered,       \* and those answered
    garbled         \* history: clients one of whose messages was dropped, or
                    \* taken for something else

clientVars == <<client, asked, answered>>
threadVars == <<handler, db, tcp_reader, request, included>>
lockVars == <<holder, poisoned>>
acceptVars == <<backlog, accepting, server>>
vars == <<clientVars, toServer, toClient, acceptVars, threadVars, lockVars,
          ran, garbled>>

ClientStates ==
    {"new", "connected", "named", "ready", "sending", "waiting", "gone"}
HandlerStates ==
    {"none", "greeting", "reading", "half", "locking", "running", "including",
     "stuck", "answering", "ended"}
\* A message is whole, or cut short by the end of the client.
FromClient == [what : {"name", "json", "xml", "document"}, whole : BOOLEAN,
               of : 0 .. MaxRequests]
FromServer == [what : {"ack", "include", "answer"}, of : 0 .. MaxRequests]

Sent(what, n) == [what |-> what, whole |-> TRUE, of |-> n]
Reply(what, n) == [what |-> what, of |-> n]

TypeOK ==
    /\ client \in [Clients -> ClientStates]
    /\ toServer \in [Clients -> Seq(FromClient)]
    /\ toClient \in [Clients -> Seq(FromServer)]
    /\ backlog \in Seq(Clients)
    /\ accepting \in Clients \cup {None}
    /\ server \in {"up", "exited"}
    /\ handler \in [Clients -> HandlerStates]
    /\ db \in [Clients -> Dbs]
    /\ tcp_reader \in [Clients -> Seq(FromClient)]
    /\ request \in [Clients -> 0 .. MaxRequests]
    /\ included \in [Clients -> 0 .. MaxIncludes]
    /\ holder \in [Dbs -> Clients \cup {None}]
    /\ poisoned \subseteq Dbs
    /\ asked \in [Clients -> 0 .. MaxRequests]
    /\ ran \in [Clients -> Nat]
    /\ answered \in [Clients -> Nat]
    /\ garbled \subseteq Clients

Init ==
    /\ client = [c \in Clients |-> "new"]
    /\ toServer = [c \in Clients |-> <<>>]
    /\ toClient = [c \in Clients |-> <<>>]
    /\ backlog = <<>> /\ accepting = None /\ server = "up"
    /\ handler = [c \in Clients |-> "none"]
    /\ db = DbOf
    /\ tcp_reader = [c \in Clients |-> <<>>]
    /\ request = [c \in Clients |-> 0]
    /\ included = [c \in Clients |-> 0]
    /\ holder = [d \in Dbs |-> None] /\ poisoned = {}
    /\ asked = [c \in Clients |-> 0]
    /\ ran = [c \in Clients |-> 0]
    /\ answered = [c \in Clients |-> 0]
    /\ garbled = {}

-----------------------------------------------------------------------------
(* The client *)

Gone(c) == client[c] = "gone"
\* The server's end of a connection is closed.
Closed(c) == handler[c] = "ended" \/ server = "exited"

Become(c, state) == client' = [client EXCEPT ![c] = state]
Write(c, message) == toServer' = [toServer EXCEPT ![c] = Append(@, message)]
\* What happened to a message, and to the k - 1 messages after it, when a
\* reader that wanted one of this kind, and is dropped then, took all k.
Garble(c, messages, what, k) ==
    garbled' = IF Head(messages).what # what \/ k > 1
                  THEN garbled \cup {c} ELSE garbled
\* The first k messages, the last of them perhaps cut short.
Kept(messages, k, whole) ==
    [i \in 1 .. k |-> [messages[i] EXCEPT !.whole = @ /\ (i < k \/ whole)]]
\* The messages left when a reader has taken k of them.
Rest(messages, k) == SubSeq(messages, k + 1, Len(messages))

\* WildDocClient::new() connects ...
Connect(c) ==
    /\ client[c] = "new" /\ server = "up"
    /\ Become(c, "connected")
    /\ backlog' = Append(backlog, c)
    /\ UNCHANGED <<toServer, toClient, accepting, server, threadVars, lockVars,
                   asked, ran, answered, garbled>>

\* ... sends the name of the database ...
SendName(c) ==
    /\ client[c] = "connected"
    /\ Become(c, "named")
    /\ Write(c, Sent("name", 0))
    /\ UNCHANGED <<toClient, acceptVars, threadVars, lockVars, asked, ran,
                   answered, garbled>>

\* Mutant: ... and does not wait for the server.
ReadAck_NoWait(c) ==
    /\ client[c] = "named"
    /\ Become(c, "ready")
    /\ UNCHANGED <<toServer, toClient, acceptVars, threadVars, lockVars, asked,
                   ran, answered, garbled>>

\* ... and waits for the server's byte, or for the end of the connection.
ReadAck(c) ==
    /\ client[c] = "named"
    /\ \/ \E k \in 1 .. Len(toClient[c]) :
             /\ Garble(c, toClient[c], "ack", k)
             /\ toClient' = [toClient EXCEPT ![c] = Rest(@, k)]
       \/ toClient[c] = <<>> /\ Closed(c) /\ UNCHANGED <<toClient, garbled>>
    /\ Become(c, "ready")
    /\ UNCHANGED <<toServer, acceptVars, threadVars, lockVars, asked, ran, answered>>

\* exec() sends the input, then the document; its program calls it again only
\* when it has returned.
SendJson(c) ==
    /\ client[c] = "ready" /\ asked[c] < MaxRequests
    /\ Become(c, "sending")
    /\ Write(c, Sent("json", asked[c] + 1))
    /\ UNCHANGED <<toClient, acceptVars, threadVars, lockVars, asked, ran,
                   answered, garbled>>

SendXml(c) ==
    /\ client[c] = "sending"
    /\ Become(c, "waiting")
    /\ Write(c, Sent("xml", asked[c] + 1))
    /\ asked' = [asked EXCEPT ![c] = @ + 1]
    /\ UNCHANGED <<toClient, acceptVars, threadVars, lockVars, ran, answered, garbled>>

\* A message that starts with "include:" asks for a document; the answer says
\* whether it exists and is followed by its content.
AnswerInclude(c) ==
    /\ client[c] = "waiting" /\ toClient[c] # <<>>
    /\ Head(toClient[c]).what = "include"
    /\ toClient' = [toClient EXCEPT ![c] = Tail(@)]
    /\ Write(c, Sent("document", asked[c]))
    /\ UNCHANGED <<clientVars, acceptVars, threadVars, lockVars, ran, garbled>>

\* Mutant: the first message is taken for the answer.
EndsExec_Any(message) == TRUE
EndsExec(message) == message.what # "include"

\* Any other one is the answer to the request, and exec() returns.
ReadAnswer(c) ==
    /\ client[c] = "waiting" /\ toClient[c] # <<>>
    /\ EndsExec(Head(toClient[c]))
    /\ \E k \in 1 .. Len(toClient[c]) :
          /\ Garble(c, toClient[c], "answer", k)
          /\ toClient' = [toClient EXCEPT ![c] = Rest(@, k)]
    /\ answered' = [answered EXCEPT ![c] = @ + 1]
    /\ Become(c, "ready")
    /\ UNCHANGED <<toServer, acceptVars, threadVars, lockVars, asked, ran>>

\* The client's end of the connection is closed: exec() failed, or the program
\* dropped the client or ended at any moment.  The server gets no more than
\* what was sent so far, the last message of it perhaps cut short.
Leave(c) ==
    /\ client[c] \notin {"new", "gone"}
    /\ Become(c, "gone")
    /\ \E k \in 0 .. Len(toServer[c]) : \E whole \in BOOLEAN :
          toServer' = [toServer EXCEPT ![c] = Kept(@, k, whole)]
    /\ toClient' = [toClient EXCEPT ![c] = <<>>]
    /\ UNCHANGED <<acceptVars, threadVars, lockVars, asked, ran, answered, garbled>>

\* exec() reads the end of the connection instead of an answer.
ReadEnd(c) ==
    /\ client[c] = "waiting" /\ toClient[c] = <<>> /\ Closed(c)
    /\ Become(c, "gone")
    /\ UNCHANGED <<toServer, toClient, acceptVars, threadVars, lockVars, asked,
                   ran, answered, garbled>>

-----------------------------------------------------------------------------
(* The accept loop *)

Accept ==
    /\ server = "up" /\ accepting = None /\ backlog # <<>>
    /\ accepting' = Head(backlog)
    /\ backlog' = Tail(backlog)
    /\ UNCHANGED <<clientVars, toServer, toClient, server, threadVars, lockVars,
                   ran, garbled>>

\* The name arrives: the entry of the database is found or made and a thread
\* is spawned.  Whatever the reader holds beyond the name is dropped with it,
\* and the last byte is removed even when the name was cut short.
ReadName(c) ==
    /\ server = "up" /\ accepting = c
    /\ \E k \in 1 .. Len(toServer[c]) :
          /\ Garble(c, toServer[c], "name", k)
          /\ toServer' = [toServer EXCEPT ![c] = Rest(@, k)]
    /\ \E d \in Dbs :
          /\ Head(toServer[c]).whole => d = DbOf[c]
          /\ db' = [db EXCEPT ![c] = d]
    /\ handler' = [handler EXCEPT ![c] = "greeting"]
    /\ accepting' = None
    /\ UNCHANGED <<clientVars, toClient, backlog, server, tcp_reader, request,
                   included, lockVars, ran>>

\* The client has gone: no bytes, and the connection is dropped ...
NoName(c) ==
    /\ server = "up" /\ accepting = c /\ Gone(c) /\ toServer[c] = <<>>
    /\ handler' = [handler EXCEPT ![c] = "ended"]
    /\ accepting' = None
    /\ UNCHANGED <<clientVars, toServer, toClient, backlog, server, db, tcp_reader,
                   request, included, lockVars, ran, garbled>>

\* ... or an error, on which main() panics and the process ends.
NameError(c) ==
    /\ server = "up" /\ accepting = c /\ Gone(c)
    /\ server' = "exited"
    /\ accepting' = None
    /\ handler' = [each \in Clients |-> "ended"]
    /\ holder' = [d \in Dbs |-> None]
    /\ UNCHANGED <<clientVars, toServer, toClient, backlog, db, tcp_reader,
                   request, included, poisoned, ran, garbled>>

-----------------------------------------------------------------------------
(* The thread of a connection *)

Go(c, state) == handler' = [handler EXCEPT ![c] = state]
Tell(c, message) ==
    toClient' = IF Gone(c) THEN toClient
                ELSE [toClient EXCEPT ![c] = Append(@, message)]

\* write_all(&[0]), which may fail once the client has gone.
Greet(c) ==
    /\ handler[c] = "greeting"
    /\ \/ Go(c, "reading") /\ Tell(c, Reply("ack", 0))
       \/ Gone(c) /\ Go(c, "ended") /\ UNCHANGED toClient
    /\ UNCHANGED <<clientVars, toServer, acceptVars, db, tcp_reader, request,
                   included, lockVars, ran, garbled>>

\* The thread's own reader keeps what it has read ahead.
Fetch(c) ==
    /\ handler[c] \in {"reading", "half"} /\ tcp_reader[c] = <<>>
    /\ \E k \in 1 .. Len(toServer[c]) :
          /\ tcp_reader' = [tcp_reader EXCEPT ![c] = SubSeq(toServer[c], 1, k)]
          /\ toServer' = [toServer EXCEPT ![c] = Rest(@, k)]
    /\ UNCHANGED <<clientVars, toClient, acceptVars, handler, db, request,
                   included, lockVars, ran, garbled>>

TakeMessage(c, what) ==
    /\ tcp_reader[c] # <<>>
    /\ Garble(c, tcp_reader[c], what, 1)
    /\ tcp_reader' = [tcp_reader EXCEPT ![c] = Tail(@)]

ReadJson(c) ==
    /\ handler[c] = "reading"
    /\ TakeMessage(c, "json")
    /\ Go(c, "half")
    /\ UNCHANGED <<clientVars, toServer, toClient, acceptVars, db, request,
                   included, lockVars, ran>>

\* A document that was cut short is interpreted like any other.
ReadXml(c) ==
    /\ handler[c] = "half"
    /\ TakeMessage(c, "xml")
    /\ request' = [request EXCEPT ![c] = Head(tcp_reader[c]).of]
    /\ Go(c, "locking")
    /\ UNCHANGED <<clientVars, toServer, toClient, acceptVars, db, included,
                   lockVars, ran>>

\* The end of the connection between requests, or within one.
ReadNothing(c) ==
    /\ handler[c] \in {"reading", "half"}
    /\ Gone(c) /\ toServer[c] = <<>> /\ tcp_reader[c] = <<>>
    /\ Go(c, "ended")
    /\ UNCHANGED <<clientVars, toServer, toClient, acceptVars, db, tcp_reader,
                   request, included, lockVars, ran, garbled>>

\* Mutants: a poisoned mutex is taken like any other; the interpreter is shared
\* without a mutex; one mutex serves all the databases.
LockFree_Recovered(d) == holder[d] = None
LockFree_Shared(d) == d \notin poisoned
LockFree_OneMutex(d) ==
    d \notin poisoned /\ \A any \in Dbs : holder[any] = None
LockFree(d) == holder[d] = None /\ d \notin poisoned

\* lock().unwrap(): the thread gets the mutex, or panics if it is poisoned.
Lock(c) ==
    /\ handler[c] = "locking" /\ LockFree(db[c])
    /\ holder' = [holder EXCEPT ![db[c]] = c]
    /\ included' = [included EXCEPT ![c] = 0]
    /\ Go(c, "running")
    /\ UNCHANGED <<clientVars, toServer, toClient, acceptVars, db, tcp_reader,
                   request, poisoned, ran, garbled>>

LockPoisoned(c) ==
    /\ handler[c] = "locking" /\ holder[db[c]] = None /\ db[c] \in poisoned
    /\ Go(c, "ended")
    /\ UNCHANGED <<clientVars, toServer, toClient, acceptVars, db, tcp_reader,
                   request, included, lockVars, ran, garbled>>

\* IncludeRemote::include() writes the path to the connection: one that is not
\* blank and that this run has not asked for yet ...
AskInclude(c) ==
    /\ handler[c] = "running" /\ included[c] < MaxIncludes
    /\ included' = [included EXCEPT ![c] = @ + 1]
    /\ Tell(c, Reply("include", request[c]))
    /\ Go(c, "including")
    /\ UNCHANGED <<clientVars, toServer, acceptVars, db, tcp_reader, request,
                   lockVars, ran, garbled>>

\* The answer to an include has arrived, or some of it has.
Answered(c) == toServer[c] # <<>> /\ Head(toServer[c]).whole

\* ... and reads the answer through a buffered reader of its own.  If the client
\* goes before it has answered, there is no document; but to look for its
\* substitute the thread locks the adaptor it holds already, and waits for
\* itself (wild-doc/src/parser/include.rs:18-30).
ReadDocument(c) ==
    /\ handler[c] = "including"
    /\ \/ \E k \in 1 .. Len(toServer[c]) :
             /\ Garble(c, toServer[c], "document", k)
             /\ toServer' = [toServer EXCEPT ![c] = Rest(@, k)]
       \/ Gone(c) /\ toServer[c] = <<>> /\ UNCHANGED <<toServer, garbled>>
    /\ \/ Go(c, "running")
       \/ ~Answered(c) /\ c \in Substituting /\ Go(c, "stuck")
    /\ UNCHANGED <<clientVars, toClient, acceptVars, db, tcp_reader, request,
                   included, lockVars, ran>>

\* A blank path is asked of nobody, and there is no document either: without a
\* substitute the run just goes on, with one it waits for itself, whether its
\* client is there or not.
BlankInclude(c) ==
    /\ handler[c] = "running" /\ c \in Substituting
    /\ Go(c, "stuck")
    /\ UNCHANGED <<clientVars, toServer, toClient, acceptVars, db, tcp_reader,
                   request, included, lockVars, ran, garbled>>

\* The interpretation ends, with a result or an error, and the guard of the
\* mutex is dropped.
RunEnds(c) ==
    /\ handler[c] = "running"
    /\ holder' = [holder EXCEPT ![db[c]] = None]
    /\ ran' = [ran EXCEPT ![c] = @ + 1]
    /\ Go(c, "answering")
    /\ UNCHANGED <<clientVars, toServer, toClient, acceptVars, db, tcp_reader,
                   request, included, poisoned, garbled>>

\* Mutant: the guard outlives the panic.
RunPanics_KeepsLock(c) ==
    /\ handler[c] = "running"
    /\ Go(c, "ended")
    /\ UNCHANGED <<clientVars, toServer, toClient, acceptVars, db, tcp_reader,
                   request, included, lockVars, ran, garbled>>

\* It panics: in a handler of the interpreter, or because an include could not
\* be written to a client that has gone.  The guard poisons the mutex.
RunPanics(c) ==
    /\ handler[c] = "running"
    /\ holder' = [holder EXCEPT ![db[c]] = None]
    /\ poisoned' = poisoned \cup {db[c]}
    /\ Go(c, "ended")
    /\ UNCHANGED <<clientVars, toServer, toClient, acceptVars, db, tcp_reader,
                   request, included, ran, garbled>>

\* The answer is written, which may fail once the client has gone.
Respond(c) ==
    /\ handler[c] = "answering"
    /\ \/ Go(c, "reading") /\ Tell(c, Reply("answer", request[c]))
       \/ Gone(c) /\ Go(c, "ended") /\ UNCHANGED toClient
    /\ UNCHANGED <<clientVars, toServer, acceptVars, db, tcp_reader, request,
                   included, lockVars, ran, garbled>>

\* Nobody has anything left to do, or ever will: a thread behind a stuck one waits
\* as long as that does.
Quiet ==
    /\ \A c \in Clients :
          /\ client[c] \in {"new", "gone"}
          /\ \/ handler[c] \in {"none", "stuck", "ended"}
             \/ handler[c] = "locking" /\ \E h \in Clients :
                   holder[db[c]] = h /\ handler[h] = "stuck"
    /\ accepting = None
    /\ UNCHANGED vars

-----------------------------------------------------------------------------

InCalls(c) == ReadAck(c) \/ SendXml(c) \/ ReadAnswer(c) \/ ReadEnd(c)
ClientProtocol(c) == SendName(c) \/ InCalls(c)
AcceptLoop ==
    Accept \/ \E c \in Clients : ReadName(c) \/ NoName(c) \/ NameError(c)
Thread(c) ==
    \/ Greet(c) \/ Fetch(c) \/ ReadJson(c) \/ ReadXml(c) \/ ReadNothing(c)
    \/ Lock(c) \/ LockPoisoned(c) \/ AskInclude(c) \/ ReadDocument(c)
    \/ BlankInclude(c) \/ RunEnds(c) \/ RunPanics(c) \/ Respond(c)

Next ==
    \/ \E c \in Clients :
          \/ Connect(c) \/ SendJson(c) \/ AnswerInclude(c) \/ Leave(c)
          \/ ClientProtocol(c) \/ Thread(c)
    \/ AcceptLoop
    \/ Quiet

Spec == Init /\ [][Next]_vars

\* Threads are scheduled, the accept loop is never left for good, and a client
\* in new() or exec() goes on; a program need not connect, ask or leave, a lazy
\* client need not answer an include, and a silent one, which is no client of
\* the library, need not send anything.  Nothing makes a run end: wd:while
\* repeats as long as its document says (parser/loop.rs), and a script takes as
\* long as it takes.  Only the runs of clients that are not Endless are fair.
Fairness ==
    /\ WF_vars(AcceptLoop)
    /\ \A c \in Clients : WF_vars(InCalls(c))
    /\ \A c \in Clients \ Endless : WF_vars(Thread(c))
    /\ \A c \in Endless : WF_vars(handler[c] # "running" /\ Thread(c))
    /\ \A c \in Clients \ Lazy : WF_vars(AnswerInclude(c))
    /\ \A c \in Clients \ Silent : WF_vars(SendName(c))

FairSpec == Spec /\ Fairness
-----------------------------------------------------------------------------
(* Properties *)

InRun(c) == handler[c] \in {"running", "including", "stuck"}

\* Two threads never interpret documents on the same database, although main()
\* declares the interpreter Sync and only the mutex keeps them apart
\* (main.rs:37-38,146).
Exclusive ==
    \A c, e \in Clients : c # e /\ InRun(c) /\ InRun(e) => db[c] # db[e]

\* Three buffered readers read a connection on the server's side and two on the
\* client's, each dropped with what it read ahead, and no message says of what
\* kind it is: yet none is dropped and none is taken for another
\* (main.rs:81-82,130-140, include.rs:44-57, client lib.rs:35-36,58-116).
NeverGarbled == garbled = {}

\* A client waits for the answer to its last request and for nothing else:
\* whatever is on its way to it answers that request or asks for a document
\* that this request includes.
OwnAnswer ==
    \A c \in Clients : \A i \in 1 .. Len(toClient[c]) :
       toClient[c][i].what # "ack" =>
          client[c] = "waiting" /\ toClient[c][i].of = asked[c]

\* The database serves one document at a time, the requests of a connection in
\* their order, and nothing once it is poisoned: see SerialRuns.
Serial == INSTANCE SerialRuns WITH
    runner <- holder, broken <- poisoned, sent <- asked
Serially == Serial!Spec

\* So a request is interpreted at most once and answered once after that, and no
\* document is interpreted on a database that is poisoned (main.rs:126-159).
AtMostOnce == Serial!Accounted

\* A call of new() or exec() returns, whatever panics and whoever leaves, unless
\* one of the same database keeps its mutex for good: a client that never answers
\* an include, a run that never ends, or one that includes a document with a
\* substitute and waits for itself.  Each keeps its own database, and no other
\* (main.rs:81-82,146, include.rs:37-46, wild-doc/src/parser/include.rs:18-30).  A
\* connection that says nothing keeps out those that are not accepted yet, and
\* nobody else (main.rs:74-82).
InCall(c) == client[c] \in {"named", "waiting"}
Holdup(c) == \E h \in Lazy \cup Endless : DbOf[h] = DbOf[c]
Behind(c) == \E h \in Substituting : holder[db[c]] = h /\ handler[h] = "stuck"
KeptOut(c) ==
    /\ handler[c] = "none"
    /\ accepting \in Silent /\ client[accepting] = "connected"
Returns ==
    \A c \in Clients :
       ~Holdup(c) => (InCall(c) ~> ~InCall(c) \/ Behind(c) \/ KeptOut(c))

\* Whoever waits in a call waits for something that is there already, or for a
\* thread that can go on.  It is never a thread that waits for a mutex which no run
\* holds any more, two sides of a connection that each wait for the other, or a
\* connection that was lost before it was accepted (main.rs:74-150,
\* include.rs:35-69, client lib.rs:27-122).  A run that others wait for is kept by
\* two things only: a client that does not answer an include, and the run itself,
\* when an include of it found no document and named a substitute.
GoesOn(c) ==
    \/ handler[c] \in {"greeting", "running", "answering"}
    \/ handler[c] \in {"reading", "half"} /\ tcp_reader[c] # <<>>
    \/ handler[c] \in {"reading", "half", "including"} /\ (toServer[c] # <<>> \/ Gone(c))
HeldByClient(c) ==
    /\ handler[c] = "including" /\ client[c] = "waiting"
    /\ toClient[c] # <<>> /\ Head(toClient[c]).what = "include"
HeldByItself(c) == handler[c] = "stuck" /\ c \in Substituting
InBacklog(c) == \E i \in 1 .. Len(backlog) : backlog[i] = c
AcceptGoesOn ==
    \/ accepting = None
    \/ toServer[accepting] # <<>> \/ Gone(accepting) \/ client[accepting] = "connected"
NoDeadlock ==
    \A c \in Clients : InCall(c) /\ toClient[c] = <<>> /\ ~Closed(c) =>
       \/ handler[c] = "none" /\ (accepting = c \/ InBacklog(c)) /\ AcceptGoesOn
       \/ GoesOn(c) \/ HeldByItself(c)
       \/ /\ handler[c] = "locking"
          /\ LET h == holder[db[c]] IN
                h # None => /\ h # c /\ db[h] = db[c]
                            /\ GoesOn(h) \/ HeldByClient(h) \/ HeldByItself(h)
=============================================================================
