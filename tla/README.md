# wild-doc in TLA+

TLA+ models of wild-doc, a template interpreter over an embedded database
(`wild-doc/`), of the server that runs it for clients (`wild-doc-server/`,
`wild-doc-client-lib/`), of the web server that is such a client
(`wild-doc-webserver/`) and of the module cache of the JavaScript engine
(`wild-doc-script-deno/`). TLC checks small instances; TLAPS proves the theorems
for every value of the constants. Line numbers below are those of the Rust source.

## 1. The system

| Part | State | Operations | Interacts with |
|---|---|---|---|
| Interpreter, `wild-doc/src/parser.rs` and `parser/*.rs` | three stacks: open sessions, scopes of variables, included files; a counter per recursive call | `parse()` and one handler per element | pushes sessions, calls scripts, includes documents, writes through the database's lock |
| Sessions, `parser/session.rs` | name, pending rows, what to do on close | open (initialize), close (commit, clear, keep), `session_gc` | the database keeps a session between documents |
| Reading, `parser/search.rs`, `parser/record.rs`, `parser/sort.rs` | none | search, record, sort | look through the stack of sessions, then the tables |
| Writing, `parser/update.rs` | the records of a block, relations between rows | read the block, write to the tables or to the session | the block is first interpreted, so its errors come from the interpreter |
| Server, `wild-doc-server/src/main.rs` | accept loop, a thread per connection, a mutex per database | accept, read the name, requests, answers | runs the interpreter under the mutex |
| Remote includes, `wild-doc-server/src/include.rs` | the connection of the client | ask, read the document | the same connection carries the answer of the run |
| Client, `wild-doc-client-lib/src/lib.rs` | one connection | connect, call, answer includes, leave | server |
| Web server, `wild-doc-webserver/src/main.rs`, `request.rs`, `tls.rs` | connections, the workers of the runtime, one client connection per request | accept, TLS handshake, static files, body of a POST, call of the client library, response | visitors; files of a host; database server |
| Module loader, `wild-doc-script-deno/src/module_loader.rs` | one cache file per module | load, follow redirects, write the cache | hosts of modules; the file survives the process |
| Local includes, `wild-doc/src/include.rs` | cache of files | include | interpreter |
| Variables, attributes, values | stack of scopes | look up, evaluate | scripts |
| Other engines | none of their own | wrap a runtime | scripts |

What is hard here:

* **Recursion over one buffer.** The handler of an element calls `parse()` on the
  rest of the buffer and relies on it to return at the end tag. The decision is
  made by a counter (`deps`) that knows nothing of what the child calls consume.
* **Errors that are swallowed.** `wd:update`, `narrow` and `join` discard an error
  of their content (update.rs:62, search.rs:159,167), so everything pushed on the
  way stays on the stacks.
* **Layers of data.** Tables, several sessions, direct writes under an open
  session. Search and record walk the layers in opposite ways.
* **One connection, several readers.** Bytes carry no kind; readers are buffered
  and dropped. Includes are asked for in the middle of a call.
* **Locks held over the network.** A run holds the mutex of its database while it
  waits for its client. Panics poison it.
* **Async functions that block.** `request()` of the web server opens files, connects
  and waits for a run on a worker of the runtime; only the handshake and the body
  of a POST are waited for without one.
* **Two caches of one include.** The client library and the run on the server both
  remember the documents of a call, while their files may change.
* **Files written in place.** A crash, or a write error that is ignored, leaves a
  part of a module.

`PROJECT.json` lists each of these at its line, under `hazards`.

## 2. Modules

| Module | Models | Runs on | Proofs |
|---|---|---|---|
| `Parser` | one run of the interpreter as a pushdown machine | `MCParser` | `ParserProofs`, `ParserScopeProofs` |
| `SessionView` | what a document reads of a collection while it writes through sessions | `MCSessionView` | `SessionViewProofs` |
| `UpdateBlock` | one `wd:update`: reading the records, writing them with relations | `MCUpdateBlock` | `UpdateBlockProofs` |
| `Server` | database server, clients, connections, mutexes | `MCServer` | `ServerProofs`, `ServerProtocolProofs` |
| `SerialRuns` | abstract: what the server promises its clients | refined by `Server`, used by `WebServer` | |
| `Transactions` | abstract: what a session promises a document | refined by `SessionView` | |
| `WebServer` | HTTP requests on the workers of the web server | `MCWebServer` | `WebServerProofs` |
| `ModuleCache` | a cache file and the loads that use it | `MCModuleCache` | `ModuleCacheProofs` |

How they fit: `Server` treats a run as *running → asks for includes → ends or
panics*; `Parser` is what happens in a run; `SessionView` takes the sessions that
`Parser` keeps as a stack and adds the data; `UpdateBlock` is the step
`WriteRecords` of `Parser` (and, without a session, `UpdateDirect` of
`SessionView`) in detail. `WebServer` is composed with the abstract server: its
database is `SerialRuns` with a client for each request, which is sound because
`Server` is shown to implement `SerialRuns`.

### Parser

`frames` holds the active calls, outermost first; `deps` of a frame is the
counter of that call. The document is not stored: every step chooses the next
token, so a behaviour is a document together with the values its scripts
produced. `open` is a history of the start tags whose end tag is still ahead. It
says which element a token really belongs to, and the code does not have it. A
start tag enters a call, an end tag decides by `EndsCall` (parser.rs:400-404)
whether the call returns, `Leave` is what the caller does after it (pops, closes
the session, starts the next round of a loop), `Unwind` is the same for an error.
`case()` and `condition_loop()` scan tokens themselves and are frames of their own;
the output of a `narrow`, which is scanned in its turn, is one too (`conditions`).

`consumed`, `single` and `swallowed` are histories that say which documents the
counter can be right about: every element read by one call, at most one counted
child per call, no swallowed error. `ScopeFollowsDocument` holds under them, and
the two violation runs show what happens without. `Enclosing` lists the session
elements that enclose the current position according to `open`.

Left out: the output, attribute values (every choice they could make is
possible), `wide` conditions, and a session whose name is already on the stack.

### Server

A connection is one sequence of messages per direction. A buffered reader may
take more than it wants; what it holds when it is dropped is `garbled`. A client
can leave at any point, its last message perhaps cut short. The process ends if
the accept loop's `unwrap()` fails. `handler` follows `handler()` line by line;
`holder` and `poisoned` are the mutexes. `Substituting` clients have documents
with `substitute`: an unanswered include then locks the adaptor a second time
(parser/include.rs:18-30), and the thread is `stuck`. So does an include of a blank
path, which the client is not even asked for (include.rs:38, `BlankInclude`): the
client is there then, and waits. `Silent` clients may connect and never send the name
of a database, which the accept loop waits for (main.rs:79-82); `Lazy` ones may never
answer an include; the documents of `Endless` ones may be interpreted for ever, as a
`wd:while` or a script can.

`Serially` is the refinement: under `runner <- holder`, `broken <- poisoned`,
`sent <- asked`, every step is a step of `SerialRuns` or a stutter. `AtMostOnce` says
`Accounted`, a property of `SerialRuns`, of the server through the same mapping.

`Quiet` is the stutter that tells a system at rest from a deadlock: no client is in a
call and every thread has ended, is `stuck`, or waits for a mutex that a stuck thread
holds. The last is what becomes of a client that leaves while it waits behind one.
`NoDeadlock` says of every client that waits in a call what it waits for: a message or
an end of the connection that is there, a thread that can go on (`GoesOn`), the accept
loop, or a mutex. Of a mutex it demands that a run of the same database holds it which
can go on, is kept by its client (`HeldByClient`) or by an include of its own
(`HeldByItself`), or that nobody does.

### SessionView

Values are the numbers of the writes that made them, so "older" has a meaning.
`Found` is what a search shows and `Record(id)` what a record reads; both are
operators because they change nothing. `layered` is a history: a session was
opened in another one, was left pending, or was bypassed.

`View` is the collection as the innermost session has it: the tables' rows, those the
session wrote as it wrote them, without those it deleted. `Transactional` is the
refinement of `Transactions`: under `view <- View` and `open <- stack # <<>>`, every
step is a step of that module or a stutter as long as nothing is `layered`. Steps that
set `layered` have no counterpart there, so the property is stated of the others. A
session that is dropped by `session_gc` maps to a stutter: its rows are in nobody's view.
The database itself is external: `ResultWith`, `Commits` and `Cleared` state
what the handlers rely on.

Left out: several records in one update (UpdateBlock), expiry of sessions, what
becomes of a session that `session_gc` drops while it is on the stack (the code looks
at its expiry only, session.rs:102-108), and opening a session by a name that is on
the stack.

### UpdateBlock

`calls` holds the recursive calls of `make_update_struct()`. A call is between
records (`rec = 0`) or in one, and counts tags there. `inside` in a record and
`open` are histories of the true nesting. Writing goes through `records` in
order; a record in `pends` is reached when the record around it was written. Each
call of the database is a step, as each takes the lock anew (update.rs:216-239): the
row is put (`Overwrite`, `Insert`), the older relations of an overwritten row are
removed (`Unlink`), those of the record are registered one by one (`Register`), and the
row is added to `commit_rows` (`Push`). `part` and `left` say how far a record is, and
the process may die anywhere in it. The row attribute is cut to `RowBits` bits as the
code cuts it to 32. The table may begin with relations of rows that are not there: a
block that names such a row leaves them (update.rs:233), and a row inserted later
under the number takes them over.

`told` is what a `wd:on` of the block is given: the rows written for the records of
the block itself, not those for records in `pends`. `deleted` is a history of the rows
that the block deleted.

Left out: the variables of `wd:on`, terms and activity, several collections, and the
relations that a later commit of the session makes.

### WebServer

`stage` says where a request is. The stages in `Waiting` wait for the visitor or
for a worker; those in `Blocking` (`opening` a static file, `connecting` to the
database server, `naming` the database and waiting for the acknowledgement, `asking`,
`executing`) occupy a worker; `Ended` says what the visitor is shown. A step ends
where the code next waits, or where a file or the server's state is read. The
database is `SerialRuns` behind an accept loop: while `silenced`, that loop waits for
the name of a connection that says nothing, and nobody is acknowledged
(wild-doc-server/src/main.rs:79-82, wild-doc-client-lib/src/lib.rs:34-36). `FallsSilent`
and `Speaks` are those of others who connect to it. A run that fails sends the text of
its error as its answer (main.rs:169-177); `failed` says of which requests, and
`Shown` what the visitor gets of an answer.

`include_cache` is the cache of the client library for a call, `cache` that of the run
on the server; `Edit` changes or removes a file at any moment. `opened` and `given`
are histories of what went into the answer: the files that the web server reads itself
(the static file, request.xml), and the documents that the run was given. A run may
include `/request.xml` as well: it is then read a second time, through the caches, and
may be another version than the one that is interpreted. `seen` has the versions of
each file since the request arrived. `Begin`, `Finish`, `Send` and `Answer` are the
actions of `SerialRuns`.

Left out: the settings and certificates read at the start, the encoding of parameters
and header fields, uploaded files, and a start of the web server or of the database
server after its end.

### ModuleCache

One file, with the loads of a run that use it (specifiers that differ only in
their fragment share the file). The loads are futures of one thread, so nothing
else runs while one is between truncating and writing; the process can die there. A
redirect to a location that is no URL or not text panics (module_loader.rs:149-177),
and the other loads of the run are gone with it.
Any response that is not a redirect is a body like any other, error pages too.

## 3. Runs

| Run | Shows |
|---|---|
| `parser_sessions` | `TypeOK`, `NoUnderflow`, `Balanced`, `SessionsClosedAsAsked` on documents of sessions, updates, searches and a swallowed error |
| `parser_documents` | `Balanced`, `ScopeFollowsDocument` on every construct but updates and errors: elements scanned outside `parse()`, loops, second passes, includes, scopes, stray start tags |
| `parser_overrun` | **violated**: the session of the repository's example (wild-doc/README.md:30-51) is not closed at its end tag |
| `parser_swallowed` | **violated**: the call of an element with `clear_on_close` returns and leaves its session uncleared, an update in it having swallowed an error with another session open |
| `server_shared` | two clients of one database, one with documents that substitute includes and name blank paths: `Exclusive`, `NeverGarbled`, `OwnAnswer`, `NoDeadlock`, `AtMostOnce`, `Serially`, `Returns` |
| `server_held_up` | `Returns` for the client of another database while one never answers, never sends its name, or has documents without end |
| `session_view_nested` | `OwnWritesRead`, `SearchShowsView`, `ShownIsCommitted`, `NewerStays`, `Transactional` with two sessions |
| `session_view_found` | **violated**: a record cannot read what the search in the same session found |
| `update_written` | `TypeOK`, `ReadAsNested`, `RelationsAsDeclared`, `RowsTold`, `EachTaken`, `OthersStay` on blocks of two records with foreign elements anywhere |
| `update_unreachable` | **violated**: a deletion in `pends` reaches `unreachable!()` |
| `module_cache_kept` | `KeptWhole`, `Settled`, `LoadsEnd` |
| `web_requests` | `TypeOK`, `OneVersion`, `Fresh`, `ShownAsRun`, `WorkersGoOn`, `AllAnswered` with a slow visitor, an endless host, changing files, a host that includes its request.xml, and a server that breaks, goes down or is kept by a silent connection |

Each property of a passing run is accompanied by a mutated definition in the same
module (the ones with `Mutant:` above them) that breaks it: a plausible slip in
that code, such as a dropped pop, a mutex taken over after a panic, a session
emptied too late.

### Bounds

* Parser: four nested calls, counters up to 2, two sessions and four open start tags
  with one error (`parser_sessions`), or one session and three open start tags
  without errors (`parser_documents`, whose vocabulary is the largest). Two counted
  children suffice for an overrun, two nested sessions for closing the wrong one. The
  vocabulary is split over the runs, each with the elements that can affect one
  another. The theorems cover every vocabulary and bound, the order of several
  sessions in `ScopeFollowsDocument` among them.
* Server: two clients, two requests each, one or two includes. A second request
  is needed for what a reader keeps of the first; a second include for telling a
  question from an answer. A client with substituting documents shares the database, so
  that one thread can wait behind another's stuck one.
* SessionView: two sessions, two rows, two new rows per session, four writes: a
  write in each of two sessions, one past them, one more. Two new rows in one session
  are the fewest that a commit could place on the same row.
* UpdateBlock: two records, four open tags (a collection, its pends, a record in them
  and an element more) and counters up to three, which lets stray end tags make a
  counter negative (update.rs:427-430); rows of three bits, a table with two rows that
  depend on each other, so that a deletion has a relation to remove in each direction, a
  relation of a row that is not there, and room for two insertions. Records name a row
  of a session, a new one, an old one, one that is not there and one that is cut to 0
  (`Named = {-1, 0, 2, 3, 8}`).
* ModuleCache: two loads, two versions on the host, all five redirects.
* WebServer: two requests for one host, one of a slow visitor, and one for another
  host, whose documents may be interpreted forever; two workers; one change of a
  file. A worker is lost to the endless run and the other one must do; one change is
  enough for an include read before and after it.

### Fairness

`Server`, `ModuleCache` and `WebServer` have liveness properties.

* `Server`: threads are scheduled, the accept loop goes on, and a client inside
  `new()` or `exec()` continues, as those functions have no other way to go; a
  program need not connect, call or leave, a client in `Lazy` need not answer and one
  in `Silent` need not send its name. The runs of a client in `Endless` need not end
  (their thread is fair only outside the interpretation); that the others' do is an
  assumption on their documents, which nothing in the code sees to. `Returns` leaves
  out the clients of a database that a lazy or endless client uses, as nothing in the
  code takes the mutex from its run. To the others it promises that a call ends unless
  the client comes to be behind a stuck run (`Behind`), its own or another's, which
  never releases the mutex, or is not accepted while the accept loop waits for a silent
  connection (`KeptOut`).
* `ModuleCache`: hosts answer and connections end; the HTTP client has no timeout.
* `WebServer`: connections are accepted, a free worker takes up what is ready, a
  blocked one goes on when it can, and a database begins with what it was sent.
  Visitors go on unless they are in `Slow`, runs end unless their host is in
  `Endless`. The acknowledgement of the database server is strongly fair: it comes if
  the accept loop is free again and again. Nothing is assumed of silent connections,
  which may stay for good, and the code has no timeout against them. `AllAnswered`
  therefore has the premise that no connection stays silent for ever (`[]<>~silenced`):
  with one that does, every request that needs the database server keeps its worker in
  the wait for the acknowledgement, and enough of them stop the web server. It is about
  the other requests, and promises them an end only while there are more workers than
  requests for endless hosts: `request()` keeps its worker until the run is over
  (request.rs:203-208), and nothing times out.

## 4. Findings

1. parser.rs:246 — a call with two counted children reads past its end tag.
2. update.rs:62 — a swallowed error leaves an inner session on the stack. In the run
   the element around the update has `clear_on_close`, which wild-doc/README.md:56 relies on:
   its call ends at the inner session's end tag, pops and closes that one, and its own
   session is not cleared.
3. record.rs:36 — a session that has the collection hides the committed rows from
   `wd:record`, although a search in it finds them. The example of wild-doc/README.md:184-199
   reads every row found this way, in a session that holds nothing yet; in the run the
   session holds one uncommitted row, as README.md:31 leaves one, and the other rows
   read as nothing.
4. update.rs:194 — `unreachable!()` is reached by `delete` in `pends`.

Seen on the way and not stated as properties: `p.len` prints the whole result of a
search, as segments that are unknown after it are skipped (var.rs:49-86, used in
tests/test1.rs:112); `wd:case` runs every matching `wd:when` and keeps the last
(case.rs:25-34); one connection that sends no name keeps the accept loop of the database
server, and through the acknowledgement the workers of a web server; a dropped
connection ends a request with its last byte removed (main.rs:133-144).

## 5. What is proved

`ParserProofs`, for every vocabulary and bound:

* `StacksInvariant`: `Spec => []StackInduction`. `Balanced` and `NoUnderflow` say
  what holds for the innermost call only. When it returns, the next call must be
  in order again, so the induction describes all calls: the heights they were given
  grow by exactly what each caller pushed (`Tight`) or, once errors were swallowed,
  by at least that (`Stacked`); the session of an element lies at the height its
  call was given (`Owned`); buffers are nested as the calls are (`Marked`).
* `ParserTyped`, `NothingUnderflows`, `StacksBalanced` follow from it, and
  `SessionsClosed` (`SessionsClosedAsAsked`) from it and a step lemma on closing.

`ParserScopeProofs`: `ScopesFollow` (`ScopeFollowsDocument`). With one counted child
per call the counter of a call equals the number of its open elements, which is
nothing a call can see by itself. The induction (`ScopesInvariant`) says that the
i-th call reads the i-th open element (`Aligned`), that the sessions on the stack are
in the order they were opened (`Ordered`) and that each was pushed by a call that is
still active (`Covered`); with `StackInduction` the sessions on the stack are then
those of the enclosing elements.

`ServerProofs`, for any clients and databases: `ServerInvariant`, with the fact
that a thread in a run holds its mutex (`HoldsLock`); `ServerTyped`; `RunsAlone`
(`Exclusive`).

`ServerProtocolProofs`: `ProtocolInvariant` says for each state of a handler and its
client which messages can lie on the connection: what is there is what the next
reader expects (`InLine`), the two ends agree on the phase (`Linked`) and on the
request (`Accounts`), and a connection waiting to be accepted holds its name and
nothing else. From it `NothingGarbled` (`NeverGarbled`), `OwnAnswers` (`OwnAnswer`) and
`ServesSerially`: `Spec => Serially`, where sending a request maps to `Send`, taking
the mutex to `Begin`, the end of a run to `Finish` or `Break`, reading an answer to
`Answer`, the `unwrap()` of the accept loop to `Exit`, and every other step to a
stutter.

In the same module, `NobodyWaitsForNobody` (`NoDeadlock`). That a client waits for
something is not inductive: whether a thread that reads will find a message follows
from who owes whom one. `Delivered` therefore says that a message the client has sent
lies on the connection until the thread has read it, that a client which waits without
an answer on its way is owed one by the thread, that a half of a request is followed by
the other half or the end of the connection, and that a connection is in the backlog, at
the accept loop, or has a thread. `AnsweredAtMostOnce` (`AtMostOnce`) is proved on the
abstract side: `Accounted` is inductive in `SerialRuns`, and `ServesSerially` carries it
over.

`SessionViewProofs`, for any sessions and rows: `WriteInvariant`: nothing is newer
than the last write (`Recent`), without layers only the open session holds rows
(`Alone`), and those are newer than the tables' (`Newest`). From it `SessionViewTyped`,
`ReadsOwnWrites` (`OwnWritesRead`) and `NoOlderWrite` (`NewerStays`). With the fact that
without layers a session holds something only of rows the tables have (`Based`),
`CommitsTheShown` (`ShownIsCommitted`) follows: the placement of new rows extends to a
bijection between the rows found before the commit and the rows there after it.
`SessionsAreTransactions` (`Transactional`) is the refinement, one lemma per action:
opening maps to `Begin`, a close with a commit to `Commit` (the rows the tables then
have are the published view, and the session that is left holds nothing), any other
close to `Rollback`, an update to `Update` or `Write`, and dropping a session to a
stutter. `Alone` makes the view that a newly opened session shows the tables' own, and
`Based` lets a row that is written or deleted be one the view can have. With both,
`SearchesShowView` (`SearchShowsView`): the loop of a search over the sessions, which
compares what each of them has, finds the rows of the view.

`UpdateBlockProofs`, for any table, block and bound: `BlockInvariant` is an induction on
the reading (the calls lie in the block as its records are nested, and the owner of a
record comes before it) and one on the writing (records are written in order, and
nothing is registered for a row that no record was written to). `Midway` says how far
the record being written is, and `EachDeclared` that the relations of its row are then
those it declares without the ones in `left`. From it `BlockTyped`, `ReadsAsNested`,
`RelationsDeclared`, `TellsRows`.

Two more inductions on the writing stand beside it. `TakesEach` (`EachTaken`): the
position never skips a record, because what a record in `pends` depends on comes before
it (`Turn`), so whether its owner was written is settled when its turn comes.
`LeavesOthers` (`OthersStay`): a step writes the row of its own record only, registers
relations of that row only, and removes relations of a deleted row only.

`ModuleCacheProofs`: `CacheInvariant` (an answer is what the host sent, one load at most
has the file open) gives `CacheTyped` and `FileWhole` (`KeptWhole`);
`SettledByFirstLoads` (`Settled`) uses that "the file has these contents and no load
fetches" is inductive by itself.

`WebServerProofs`: `WebInvariant` ties the stage of a request to what the database
server has of it and to what both caches hold of each document. From it `WebTyped`,
`AnswersFromOneVersion` (`OneVersion`), `AnswersFresh` (`Fresh`), `ShownAgrees`
(`ShownAsRun`). `WorkersAreNotLost` (`WorkersGoOn`) needs what the database server has
of a request that is executing: it was sent once and its answer not yet read
(`Counted`). A worker that waits then waits for an answer that is there, an end of the
server, a database that is free, or another request's run, or it is before its first
request and waits for an acknowledgement that a silent connection withholds (`KeptOut`);
and if fewer requests than workers are held by endless runs while no worker is free, one
of the busy ones is not held, by cardinality. That is the only use of
`IsFiniteSet(Requests)`, which says that the requests are those that ever arrive,
however many. None of the theorems assumes anything of which files are included, shown
or interpreted.

The assumptions are the named ones on the constants: `ParserBounds`, `ServerBounds`,
`SessionViewBounds`, `UpdateBlockBounds`, `ModuleCacheBounds`, `WebServerBounds`.

With these every safety property that the passing runs check is a theorem. Only
model-checked: the liveness properties `Returns`, `LoadsEnd` and `AllAnswered`, which
are out of the prover's reach, and the four violations. `NoDeadlock` and `WorkersGoOn`
are the safety that `Returns` and `AllAnswered` rest on: the theorems exclude, for any
number of clients and workers, that everyone waits for everyone, and leave to TLC that
what can go on does.

## 6. Not modelled

Sorting orders, conditions and joins of a search, attribute evaluation, script
engines other than the module cache, `wd:collections` and
`wd:delete_collection` and image conversion: pure conversions or single calls of a
library. Of the web server, its start, the certificates, the encoding of parameters
and header fields and uploads. The `wide` conditions of a search:
`condition_loop()` then scans the output of the element with a position of the
outer buffer (search.rs:166-171), and what becomes of a position past the end of
its input is up to the tokenizer. The database (semilattice_database_session) and the
XML tokenizer (maybe_xml) are outside the repository; well-formed documents are
assumed where the tokenizer would be at issue.

## 7. Plan

What is left, in order:

1. `UpdateBlock`: the writing as an abstract batch, with the step `WriteRecords` of
   `Parser` and `UpdateDirect` of `SessionView` as its uses.
2. `SessionView`: sequence cursors and expiry of sessions.
3. `Include`: the adaptors as modules of their own (lock, cache, substitute) and
   an abstract one that `IncludeLocal` and `IncludeRemote` both implement.
4. Pure modules checked against reference definitions: variable paths over the
   stack of scopes, `to_end()`, the branch of `case()`, sort orders.
5. `Parser`: `wide` conditions, once the tokenizer's part is settled.
