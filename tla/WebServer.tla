------------------------------ MODULE WebServer ------------------------------
(***************************************************************************)
(* wild-doc-webserver: HTTP requests that are answered with a static file  *)
(* of a host, or by the database server, which interprets the request.xml  *)
(* of the host.  request() is an async function that blocks in all it      *)
(* does, except while it waits for the body of a POST: a request occupies  *)
(* a worker thread of the runtime wherever it does not wait for its        *)
(* visitor.  The documents a run includes are read by the blocked worker,  *)
(* through the client library, while somebody may change the files.        *)
(*                                                                         *)
(* The database server is SerialRuns, with one client for each request,    *)
(* behind its accept loop, which a connection that says nothing can stop.  *)
(***************************************************************************)
EXTENDS Naturals, FiniteSets

CONSTANTS
    Requests, Hosts,
    HostOf,         \* the host a request names, and the database it uses
    Static,         \* the static file its path names, if it can name one
    RequestXml,     \* the request.xml of a host
    Included,       \* the documents of a host that its runs include
    None,           \* no file, no request
    Slow,           \* requests whose visitor may stop at any point
    Endless,        \* hosts whose documents may be interpreted forever
    Workers,        \* worker threads of the runtime
    MaxEdits        \* bound: changes to files

Documents == UNION {Included[h] : h \in Hosts}
StaticFiles == {Static[r] : r \in Requests} \ {None}
Files == Documents \cup StaticFiles \cup {RequestXml[h] : h \in Hosts}

ASSUME WebServerBounds ==
    /\ HostOf \in [Requests -> Hosts]
    /\ DOMAIN RequestXml = Hosts /\ DOMAIN Static = Requests
    /\ None \notin Requests /\ IsFiniteSet(Requests)
    /\ Slow \subseteq Requests
    /\ Endless \subseteq Hosts
    /\ Workers \in Nat \ {0}
    /\ MaxEdits \in Nat

VARIABLES
    stage,          \* where each request is, or what its visitor is shown
    include_cache,  \* documents the client library has read for a request
    cache,          \* documents the database server has got for its run
    file,           \* the version of each file, or Missing
    edits,          \* changes made to files so far
    up,             \* the database server is up
    silenced,       \* it waits for the name of a connection that says nothing
    failed,         \* requests whose run ended with an error
    runner, broken, sent, ran, answered,    \* of SerialRuns
    opened,         \* history: what request() has read itself, with versions,
    given,          \* and the documents its run was given
    seen            \* history: versions a file has had since a request arrived

fileVars == <<file, edits>>
cacheVars == <<include_cache, cache>>
historyVars == <<opened, given, seen>>
databaseVars == <<up, silenced, failed, runner, broken, sent, ran, answered>>
vars == <<stage, fileVars, cacheVars, historyVars, databaseVars>>

Database == INSTANCE SerialRuns WITH
    Clients <- Requests, Dbs <- Hosts, MaxRequests <- 1

\* A file that is not there; a document that a cache does not hold.
Missing == 0
Versions == Missing .. MaxEdits + 1
Unread == MaxEdits + 2
Empty == [d \in Documents |-> Unread]
NothingSeen == [f \in Files |-> {}]

\* Stages that wait for the visitor or for a worker, and those that occupy one.
Waiting == {"new", "knocking", "arriving", "queued", "awaiting", "ready"}
Blocking == {"opening", "connecting", "naming", "asking", "executing"}
\* What the visitor is shown: a static file; a page; a redirection without a page;
\* the text of an error; an empty response; nothing.
Ended == {"file", "page", "redirect", "error", "empty", "dropped"}

TypeOK ==
    /\ stage \in [Requests -> Waiting \cup Blocking \cup Ended]
    /\ include_cache \in [Requests -> [Documents -> Versions \cup {Unread}]]
    /\ cache \in [Requests -> [Documents -> Versions \cup {Unread}]]
    /\ file \in [Files -> Versions]
    /\ edits \in 0 .. MaxEdits
    /\ {up, silenced} \subseteq BOOLEAN
    /\ failed \subseteq Requests
    /\ runner \in [Hosts -> Requests \cup {None}]
    /\ broken \subseteq Hosts
    /\ {sent, ran, answered} \subseteq [Requests -> 0 .. 1]
    /\ {opened, given} \subseteq [Requests -> SUBSET (Files \X Versions)]
    /\ seen \in [Requests -> [Files -> SUBSET Versions]]

Init ==
    /\ stage = [r \in Requests |-> "new"]
    /\ include_cache = [r \in Requests |-> Empty]
    /\ cache = [r \in Requests |-> Empty]
    /\ file = [f \in Files |-> 1]
    /\ edits = 0
    /\ up = TRUE /\ silenced = FALSE /\ failed = {}
    /\ Database!Init
    /\ opened = [r \in Requests |-> {}]
    /\ given = [r \in Requests |-> {}]
    /\ seen = [r \in Requests |-> NothingSeen]

-----------------------------------------------------------------------------
(* Connections *)

\* A history is kept only as long as something may be read, so that states stay few.
To(r, next) ==
    /\ stage' = [stage EXCEPT ![r] = next]
    /\ seen' = IF next \in Ended \ {"file"} THEN [seen EXCEPT ![r] = NothingSeen] ELSE seen

Connect(r) ==
    /\ stage[r] = "new"
    /\ To(r, "knocking")
    /\ UNCHANGED <<fileVars, cacheVars, opened, given, databaseVars>>

\* Mutant: the handshake is part of accepting a connection.
CanAccept_Handshake == \A r \in Requests : stage[r] # "arriving"
CanAccept == TRUE

Accept(r) ==
    /\ stage[r] = "knocking" /\ CanAccept
    /\ To(r, "arriving")
    /\ UNCHANGED <<fileVars, cacheVars, opened, given, databaseVars>>

\* The first poll of a connection with TLS starts its handshake; the request is
\* there when its header is, and what its answer may show counts from then on.
Arrive(r) ==
    /\ stage[r] = "arriving"
    /\ \/ /\ stage' = [stage EXCEPT ![r] = "queued"]
          /\ seen' = [seen EXCEPT ![r] = [f \in Files |-> {file[f]}]]
       \/ To(r, "dropped")
    /\ UNCHANGED <<fileVars, cacheVars, opened, given, databaseVars>>

\* accept() fails on the port without TLS: main() panics, the process ends.
AcceptFails ==
    /\ \E r \in Requests : stage[r] \notin Ended
    /\ stage' = [r \in Requests |->
                   IF stage[r] \in Ended THEN stage[r] ELSE "dropped"]
    /\ include_cache' = [r \in Requests |-> Empty]
    /\ cache' = [r \in Requests |-> Empty]
    /\ opened' = [r \in Requests |-> {}]
    /\ given' = [r \in Requests |-> {}]
    /\ seen' = [r \in Requests |-> NothingSeen]
    /\ UNCHANGED <<fileVars, databaseVars>>

-----------------------------------------------------------------------------
(* request() *)

\* Mutant: a worker waits for the body of a POST, too.
Busy_Body == {r \in Requests : stage[r] \in Blocking \cup {"awaiting"}}
Busy == {r \in Requests : stage[r] \in Blocking}
WorkerFree == Cardinality(Busy) < Workers

\* get_static_filename(): whether there is a file of that name.
Exists(r) == Static[r] # None /\ file[Static[r]] # Missing

\* The first poll reads SETTING and the header fields and looks for the file.
\* It panics without a configuration, then on the poisoned mutex, and on a field
\* that is not text; without a host the response is empty.
Start(r) ==
    /\ stage[r] = "queued" /\ WorkerFree
    /\ \E next \in {IF Exists(r) THEN "opening" ELSE "connecting", "empty", "dropped"} :
          To(r, next)
    /\ UNCHANGED <<fileVars, cacheVars, opened, given, databaseVars>>

\* The file is opened and read; it may have gone, or be a directory.
ReadStatic(r) ==
    /\ stage[r] = "opening"
    /\ \/ /\ file[Static[r]] # Missing
          /\ To(r, "file")
          /\ opened' = [opened EXCEPT ![r] = {<<Static[r], file[Static[r]]>>}]
       \/ To(r, "dropped") /\ UNCHANGED opened
    /\ UNCHANGED <<fileVars, cacheVars, given, databaseVars>>

\* WildDocClient::new() connects before anything is known of the method, and
\* panics if there is no server.  It sends the name of the database ...
Connects(r) ==
    /\ stage[r] = "connecting"
    /\ \E next \in {"dropped"} \cup (IF up THEN {"naming"} ELSE {}) : To(r, next)
    /\ UNCHANGED <<fileVars, cacheVars, opened, given, databaseVars>>

\* ... and waits for the byte of the server (client lib.rs:34-36), which does not
\* come while its accept loop waits for another name (server main.rs:79-82), or for
\* the end of the connection.  A GET goes on then, as does a POST whose body is
\* there already; another POST waits for it, or panics for want of a content type;
\* any other method is not found.
Acknowledged(r) ==
    /\ stage[r] = "naming" /\ (up => ~silenced)
    /\ \E next \in {"asking", "awaiting", "empty", "dropped"} : To(r, next)
    /\ UNCHANGED <<fileVars, cacheVars, opened, given, databaseVars>>

\* What connects to the database server and sends no name, and what becomes of it.
FallsSilent ==
    /\ up /\ ~silenced
    /\ silenced' = TRUE
    /\ UNCHANGED <<stage, fileVars, cacheVars, historyVars, up, failed, runner,
                   broken, sent, ran, answered>>
Speaks ==
    /\ silenced
    /\ silenced' = FALSE
    /\ UNCHANGED <<stage, fileVars, cacheVars, historyVars, up, failed, runner,
                   broken, sent, ran, answered>>

\* The body arrives, or it breaks off or the visitor hangs up.
Body(r) ==
    /\ stage[r] = "awaiting"
    /\ \E next \in {"ready", "dropped"} : To(r, next)
    /\ UNCHANGED <<fileVars, cacheVars, opened, given, databaseVars>>

\* The task goes on, or panics on a malformed body.
Resume(r) ==
    /\ stage[r] = "ready" /\ WorkerFree
    /\ \E next \in {"asking", "dropped"} : To(r, next)
    /\ UNCHANGED <<fileVars, cacheVars, opened, given, databaseVars>>

\* request.xml is read, and exec() sends it with the parameters.
Ask(r) ==
    LET xml == RequestXml[HostOf[r]] IN
    /\ stage[r] = "asking"
    /\ \/ /\ file[xml] # Missing
          /\ To(r, "executing")
          /\ opened' = [opened EXCEPT ![r] = {<<xml, file[xml]>>}]
          /\ Database!Send(r)
       \/ /\ file[xml] = Missing
          /\ To(r, "dropped")
          /\ UNCHANGED <<opened, runner, broken, sent, ran, answered>>
    /\ UNCHANGED <<fileVars, cacheVars, given, up, silenced, failed>>

-----------------------------------------------------------------------------
(* The run of a request on the database server *)

Running(r) == runner[HostOf[r]] = r

Begin(r) ==
    /\ up
    /\ Database!Begin(r, HostOf[r])
    /\ UNCHANGED <<stage, fileVars, cacheVars, historyVars, up, silenced, failed>>

\* Mutant: neither side remembers what was read before.
Holds_Nothing(store, d) == FALSE
Holds(store, d) == store[d] # Unread

\* Mutant: a missing document leaves no entry in a cache.
Reads_NoEntry(r, d) ==
    IF Holds(include_cache[r], d) THEN include_cache[r][d]
    ELSE IF file[d] = Missing THEN Unread ELSE file[d]
\* Mutant: the library has one cache for all the requests.
Reads_Shared(r, d) ==
    LET others == {q \in Requests : Holds(include_cache[q], d)} IN
    IF others = {} THEN file[d] ELSE include_cache[CHOOSE q \in others : TRUE][d]
\* What the client library answers, from its cache or the file.
Reads(r, d) ==
    IF Holds(include_cache[r], d) THEN include_cache[r][d] ELSE file[d]

\* The run includes a document: it is in the cache of IncludeRemote, or the client
\* is asked for it.  A missing one counts as empty and is remembered as that.
Include(r, d) ==
    LET content == IF Holds(cache[r], d) THEN cache[r][d] ELSE Reads(r, d) IN
    /\ Running(r) /\ stage[r] = "executing"
    /\ include_cache' = IF Holds(cache[r], d) THEN include_cache
                        ELSE [include_cache EXCEPT ![r][d] = content]
    /\ cache' = [cache EXCEPT ![r][d] = content]
    /\ given' = [given EXCEPT ![r] = @ \cup {<<d, content>>}]
    /\ UNCHANGED <<stage, fileVars, opened, seen, databaseVars>>

\* The run ends with a result or with an error, or panics.
Finish(r) ==
    /\ \/ Database!Finish(r, HostOf[r]) /\ failed' \in {failed, failed \cup {r}}
       \/ Database!Break(r, HostOf[r]) /\ UNCHANGED failed
    /\ UNCHANGED <<stage, fileVars, cacheVars, historyVars, up, silenced>>

ServerExits ==
    /\ up' = FALSE /\ silenced' = FALSE
    /\ Database!Exit
    /\ UNCHANGED <<stage, fileVars, cacheVars, historyVars, failed>>

-----------------------------------------------------------------------------
(* The end of exec() *)

\* The caches go with the call.
Forget(r) ==
    /\ include_cache' = [include_cache EXCEPT ![r] = Empty]
    /\ cache' = [cache EXCEPT ![r] = Empty]
    /\ opened' = [opened EXCEPT ![r] = {}]
    /\ given' = [given EXCEPT ![r] = {}]

\* Mutant: an answer without options can only be a page.
Shown_Page(r) == {"page", "redirect"}
\* The response option of the run, where it is JSON, sets the header fields; one of
\* them is location, or else the page is shown, with status 404 if that was asked.
\* A run that failed is answered with the text of its error and no options.
Shown(r) == IF r \in failed THEN {"error"} ELSE {"page", "redirect"}

Return(r) ==
    /\ stage[r] = "executing"
    /\ Database!Answer(r)
    /\ \E next \in Shown(r) : To(r, next)
    /\ Forget(r)
    /\ UNCHANGED <<fileVars, up, silenced, failed>>

\* The text of an error is shown with the status of a page.
AtEnd == "error"

\* exec() reads the end of the connection instead: the run panicked or met a
\* poisoned mutex, or the server is down.  The library panics if that is all
\* that is missing of the answer.
ReturnError(r) ==
    /\ stage[r] = "executing"
    /\ \/ /\ ~up \/ (HostOf[r] \in broken /\ ran[r] = 0 /\ ~Running(r))
          /\ To(r, AtEnd)
       \/ ~up /\ ran[r] = 1 /\ To(r, "dropped")
    /\ Forget(r)
    /\ UNCHANGED <<fileVars, databaseVars>>

\* Somebody writes a file of a host or removes it.
Arrived(r) == stage[r] \notin {"new", "knocking", "arriving"} \cup Ended
Edit(f) ==
    /\ edits < MaxEdits
    /\ edits' = edits + 1
    /\ \E version \in {Missing, edits + 2} :
          /\ file' = [file EXCEPT ![f] = version]
          /\ seen' = [r \in Requests |->
                        IF Arrived(r) THEN [seen[r] EXCEPT ![f] = @ \cup {version}]
                        ELSE seen[r]]
    /\ UNCHANGED <<stage, cacheVars, opened, given, databaseVars>>

-----------------------------------------------------------------------------

Visitor(r) == Arrive(r) \/ Body(r)
Task(r) ==
    \/ Start(r) \/ ReadStatic(r) \/ Connects(r) \/ Acknowledged(r) \/ Resume(r)
    \/ Ask(r) \/ Return(r) \/ ReturnError(r)

Next ==
    \/ \E r \in Requests :
          \/ Connect(r) \/ Accept(r) \/ Visitor(r) \/ Task(r)
          \/ Begin(r) \/ Finish(r)
          \/ \E d \in Included[HostOf[r]] : Include(r, d)
    \/ AcceptFails \/ ServerExits \/ FallsSilent \/ Speaks
    \/ \E f \in Files : Edit(f)

Spec == Init /\ [][Next]_vars

\* As long as there is something to do, a connection is accepted, a worker takes up
\* what is ready or goes on, and a database begins with what it was sent; visitors
\* go on unless they are slow, runs end unless their host has endless documents.
\* Each request takes finitely many of these steps, so none is left behind.  The
\* database server takes its connections in turn: one that waits for its byte gets
\* it however many others fall silent, provided that each of them ends (AllAnswered).
Fairness ==
    /\ WF_vars(\E r \in Requests : Accept(r))
    /\ WF_vars(\E r \in Requests : Task(r))
    /\ SF_vars(\E r \in Requests : Acknowledged(r))
    /\ WF_vars(\E r \in Requests : Begin(r))
    /\ WF_vars(\E r \in Requests \ Slow : Visitor(r))
    /\ WF_vars(\E r \in Requests : HostOf[r] \notin Endless /\ Finish(r))

FairSpec == Spec /\ Fairness
-----------------------------------------------------------------------------
(* Properties *)

\* A run is given one version of each document, however often it includes it and
\* whoever changes the file meanwhile: the caches of the client library and of the
\* server (client lib.rs:70-80, server include.rs:37-62) live as long as the call.
\* That says nothing of the document it interprets: request() has read request.xml
\* past both caches, and a run that includes /request.xml may be given another
\* version of it (request.rs:203-208, client lib.rs:68-72).
OneVersion ==
    \A r \in Requests : \A one, two \in given[r] : one[1] = two[1] => one = two

\* Nothing that goes into an answer is older than the request: each file had that
\* content at some moment since it arrived, as request() and exec() read files anew
\* for each request (request.rs:98-100,203-208, client lib.rs:48,70-80).
Fresh ==
    \A r \in Requests : \A content \in opened[r] \cup given[r] :
       content[2] \in seen[r][content[1]]

\* What the visitor is shown agrees with what happened (request.rs:92-269, server
\* main.rs:146-178): a page or a redirection comes from a run of this request that
\* had a result; the text of an error, which has the status of a page, does not,
\* unless the server went down; and for a static file or an empty response nothing
\* was sent to the database.
ShownAsRun ==
    \A r \in Requests :
       /\ stage[r] \in {"page", "redirect"} => ran[r] = 1 /\ r \notin failed
       /\ stage[r] = "error" /\ up => ran[r] = 0 \/ r \in failed
       /\ stage[r] \in {"file", "empty"} => sent[r] = 0

\* A request is answered or dropped although other visitors stop in the middle of a
\* handshake or a body and runs for other hosts never end, as long as there are
\* more workers than requests for such hosts (main.rs:68-101, tls.rs:24-44,
\* request.rs:131), and as long as no connection to the database server stays silent
\* for ever: one that does stops every request that needs the server, and with
\* enough of these all the workers (server main.rs:79-82, client lib.rs:34-36).
Held == {r \in Requests : HostOf[r] \in Endless}
Served == IF Cardinality(Held) < Workers THEN Requests \ (Slow \cup Held) ELSE {}
AllAnswered ==
    []<>~silenced => \A r \in Served : stage[r] = "knocking" ~> stage[r] \in Ended

\* A worker that is occupied has something to do, or waits for a run that can go on,
\* or is kept out of the database server by a connection that says nothing: it never
\* waits for a visitor, for a run that nothing can begin, or for an answer that will
\* not come.  So the requests of a host with endless documents occupy one worker each
\* and no more, and while there are fewer of them than workers, one is free or
\* occupied by another request (request.rs:92-269, tls.rs:24-44, client lib.rs:27-122).
GoesOn(r) ==
    LET h == HostOf[r] IN
    \/ stage[r] \in {"opening", "connecting", "asking"}
    \/ stage[r] = "naming" /\ ~(up /\ silenced)
    \/ /\ stage[r] = "executing"
       /\ \/ answered[r] < ran[r]
          \/ ~up \/ (h \in broken /\ ran[r] = 0 /\ ~Running(r))
          \/ runner[h] \in Requests /\ h \notin Endless
          \/ /\ runner[h] = None /\ h \notin broken /\ ran[r] < sent[r]
             /\ \A other \in Hosts : runner[other] # r
KeptOut(r) == stage[r] = "naming" /\ up /\ silenced
WorkersGoOn ==
    /\ \A r \in Busy \ Held : GoesOn(r) \/ KeptOut(r)
    /\ Cardinality(Held) < Workers /\ ~WorkerFree => Busy \ Held # {}
=============================================================================
