----------------------------- MODULE SessionView -----------------------------
(***************************************************************************)
(* What a document sees of one collection while it writes to it through    *)
(* sessions: wd:session, wd:update, wd:search, wd:record and wd:session_gc *)
(* of wild-doc/src/parser/.  A session keeps its writes in rows of its own *)
(* until they are committed to the tables or cleared; it is found again by *)
(* its name, in a later document too.  Sessions nest.                      *)
(*                                                                         *)
(* The database (semilattice-database-session) is external: its part here  *)
(* is what the handlers rely on.  wd:search and wd:record change nothing   *)
(* and are operators.  A value is the number of the write that made it.    *)
(***************************************************************************)
EXTENDS Integers, Sequences, FiniteSets

CONSTANTS
    Sessions,       \* names of sessions
    MaxRow,         \* bound: rows of the collection
    MaxNew,         \* bound: rows that only one session has
    MaxWrites       \* bound: writes

ASSUME SessionViewBounds == {MaxRow, MaxNew, MaxWrites} \subseteq Nat

VARIABLES
    tables,         \* the committed rows
    temp,           \* the rows each session holds of the collection
    stack,          \* the sessions of the interpreter, innermost last
    writes,         \* history: the number of writes
    layered         \* history: some write could pass another, because sessions
                    \* were nested or left pending, or one was bypassed

vars == <<tables, temp, stack, writes, layered>>

None == 0
Deleted == -1
Rows == 1 .. MaxRow
NewRows == -MaxNew .. -1
Ids == NewRows \cup Rows
Writes == 1 .. MaxWrites

TypeOK ==
    /\ tables \in [Rows -> Writes \cup {None}]
    /\ temp \in [Sessions -> [Ids -> Writes \cup {None, Deleted}]]
    /\ stack \in Seq(Sessions)
    /\ writes \in 0 .. MaxWrites
    /\ layered \in BOOLEAN

Init ==
    /\ tables = [r \in Rows |-> None]
    /\ temp = [s \in Sessions |-> [id \in Ids |-> None]]
    /\ stack = <<>>
    /\ writes = 0
    /\ layered = FALSE

-----------------------------------------------------------------------------
(* Reading *)

OnStack(s) == \E i \in 1 .. Len(stack) : stack[i] = s
Own == stack[Len(stack)]

\* Session::temporary_collection() has the collection.
Touched(s) == \E id \in Ids : temp[s][id] # None
TouchedAt == {i \in 1 .. Len(stack) : Touched(stack[i])}
Outermost == stack[CHOOSE i \in TouchedAt : \A j \in TouchedAt : i <= j]
Innermost == stack[CHOOSE i \in TouchedAt : \A j \in TouchedAt : i >= j]

\* Session::result_with(): the rows a session adds, keeps and hides.
ResultWith(s) ==
    {id \in Ids : \/ temp[s][id] \in Writes
                  \/ id \in Rows /\ temp[s][id] = None /\ tables[id] # None}

\* The rows of wd:search.  The loop over the sessions starts at the innermost
\* one and does not stop at the first it finds.
\* Mutant: the sessions are passed over.
Found_Tables == {r \in Rows : tables[r] # None}
Found ==
    IF TouchedAt = {} THEN {r \in Rows : tables[r] # None}
    ELSE ResultWith(Outermost)

\* What wd:record reads of a row.  The first session that has the collection is
\* asked, and nothing else is when it does not have the row.
\* Mutant: the session found last is asked.
Record_Outermost(id) ==
    IF TouchedAt # {} THEN temp[Outermost][id]
    ELSE IF id \in Rows THEN tables[id] ELSE None
Record(id) ==
    IF TouchedAt # {} THEN temp[Innermost][id]
    ELSE IF id \in Rows THEN tables[id] ELSE None

-----------------------------------------------------------------------------
(* Writing *)

Nothing == [id \in Ids |-> None]
\* Mutant: clearing a session leaves what it has.
Cleared_Kept(s) == temp
Cleared(s) == [temp EXCEPT ![s] = Nothing]

\* wd:session: an existing session of that name is taken up as it was left, or
\* started again with initialize.  A name is not opened twice at a time.
Open(s, initialize) ==
    /\ ~OnStack(s)
    /\ stack' = Append(stack, s)
    /\ temp' = IF initialize THEN Cleared(s) ELSE temp
    /\ layered' = (layered \/ stack # <<>>)
    /\ UNCHANGED <<tables, writes>>

\* What becomes of a row of the tables that a session holds something of.
\* Mutant: rows deleted in the session stay.
Committed_NoDelete(old, mine) == IF mine \in Writes THEN mine ELSE old
Committed(old, mine) ==
    CASE mine = None -> old
      [] mine = Deleted -> None
      [] OTHER -> mine

\* The contents t that the tables may have when a session that holds these rows
\* is committed: its new rows get free rows, and a row that it wrote but that
\* was deleted from the tables meanwhile may stay away.
Commits(held, t) ==
    \E place \in [{id \in NewRows : held[id] \in Writes} ->
                  {r \in Rows : tables[r] = None /\ held[r] = None}] :
       /\ \A i, j \in DOMAIN place : i # j => place[i] # place[j]
       /\ \A r \in Rows :
             \/ \E i \in DOMAIN place : place[i] = r /\ t[r] = held[i]
             \/ /\ \A i \in DOMAIN place : place[i] # r
                /\ \/ t[r] = Committed(tables[r], held[r])
                   \/ tables[r] = None /\ t[r] = None

\* SessionDatabase::commit(): the session is empty afterwards.
CommitOwn(held) ==
    /\ \E t \in [Rows -> Writes \cup {None}] : Commits(held, t) /\ tables' = t
    /\ temp' = Cleared(Own)

\* The end of a wd:session: commit_on_close, else clear_on_close, else neither.
CloseCommit ==
    /\ stack # <<>>
    /\ CommitOwn(temp[Own])
    /\ stack' = SubSeq(stack, 1, Len(stack) - 1)
    /\ UNCHANGED <<writes, layered>>

\* Mutant: the session is closed and what it holds stays.
CloseClear_Popped ==
    /\ stack # <<>>
    /\ stack' = SubSeq(stack, 1, Len(stack) - 1)
    /\ UNCHANGED <<tables, temp, writes, layered>>
CloseClear ==
    /\ stack # <<>>
    /\ temp' = Cleared(Own)
    /\ stack' = SubSeq(stack, 1, Len(stack) - 1)
    /\ UNCHANGED <<tables, writes, layered>>

CloseKeep ==
    /\ stack # <<>>
    /\ stack' = SubSeq(stack, 1, Len(stack) - 1)
    /\ layered' = (layered \/ Touched(Own))
    /\ UNCHANGED <<tables, temp, writes>>

\* wd:update with one record, in a session: a row that is there, one the session
\* has added, or a new one, is written or deleted in the innermost session.  The
\* attribute commit then commits all that the session holds.
UpdateSession(id, delete, commit) ==
    LET held == [temp[Own] EXCEPT ![id] = IF delete THEN Deleted ELSE writes + 1] IN
    /\ stack # <<>> /\ writes < MaxWrites
    /\ IF id \in Rows THEN tables[id] # None
       ELSE delete => temp[Own][id] \in Writes
    /\ writes' = writes + 1
    /\ IF commit THEN CommitOwn(held)
       ELSE temp' = [temp EXCEPT ![Own] = held] /\ UNCHANGED tables
    /\ UNCHANGED <<stack, layered>>

\* Without a session, or with without_session, it goes to the tables; a row of a
\* session is passed over.
UpdateDirect(r, delete) ==
    /\ writes < MaxWrites
    /\ delete => tables[r] # None
    /\ writes' = writes + 1
    /\ tables' = [tables EXCEPT ![r] = IF delete THEN None ELSE writes + 1]
    /\ layered' = (layered \/ stack # <<>>)
    /\ UNCHANGED <<temp, stack>>

\* wd:session_gc drops a session that was not used for some time.  The code looks
\* at its expiry only; what becomes of one that is dropped while it is on the
\* stack, being longer there than the expiry it asks for, is up to the database
\* and left out.
SessionGc(s) ==
    /\ ~OnStack(s)
    /\ temp' = Cleared(s)
    /\ UNCHANGED <<tables, stack, writes, layered>>

Next ==
    \/ \E s \in Sessions :
          SessionGc(s) \/ \E initialize \in BOOLEAN : Open(s, initialize)
    \/ CloseCommit \/ CloseClear \/ CloseKeep
    \/ \E delete \in BOOLEAN :
          \/ \E id \in Ids, commit \in BOOLEAN : UpdateSession(id, delete, commit)
          \/ \E r \in Rows : UpdateDirect(r, delete)

Spec == Init /\ [][Next]_vars
-----------------------------------------------------------------------------
(* Properties *)

\* However sessions are nested, a row that the innermost session has written
\* reads as it was written (record.rs:30-37, update.rs:113-119).
OwnWritesRead ==
    stack # <<>> =>
       \A id \in Ids : temp[Own][id] # None => Record(id) = temp[Own][id]

Live(t) == {r \in Rows : t[r] # None}

\* What a search shows before a session closes is what its commit leaves in the
\* tables: the same rows, and a row for each new one (search.rs:59-71, parser.rs:254-258).
ShownIsCommitted ==
    [][CloseCommit /\ ~layered =>
         /\ Found \cap Rows \subseteq Live(tables')
         /\ Cardinality(Found) = Cardinality(Live(tables'))]_vars

\* As long as sessions are neither nested nor bypassed nor left pending, each one
\* is a transaction: what the document writes goes to a view that starts as the
\* tables, a commit publishes that view as it is, and a session that is cleared or
\* taken up again later leaves nothing of it behind (session.rs:45-62,
\* parser.rs:253-265, update.rs:68-130): see Transactions.
ViewOf(held) ==
    [id \in Ids |-> CASE held[id] = Deleted -> None
                      [] held[id] = None -> IF id \in Rows THEN tables[id] ELSE None
                      [] OTHER -> held[id]]
View == ViewOf(IF stack = <<>> THEN Nothing ELSE temp[Own])
Transaction == INSTANCE Transactions WITH
    Values <- Writes, view <- View, open <- stack # <<>>
Transactional ==
    /\ Transaction!Init
    /\ [][~layered' => [Transaction!Next]_(Transaction!vars)]_vars

\* A search shows the rows of that view: the loop over the sessions finds the
\* one whose writes count, or the tables (search.rs:59-87).
SearchShowsView == ~layered => Found = {id \in Ids : View[id] # None}

\* As long as sessions are neither nested nor bypassed nor left pending, no row
\* goes back to an older write: what was cleared is not committed later
\* (parser.rs:253-265, update.rs:68-130).
NewerStays ==
    [][~layered' => \A r \in Rows :
          tables'[r] = None \/ tables'[r] >= tables[r]]_vars

\* The repository's example of a search in an update (README.md:184-199) reads
\* every row that wd:search finds in a session with wd:record (README.md:191) and
\* uses its fields (README.md:193-194): a row that is found can be read, at least
\* while sessions are neither nested nor bypassed nor left pending.
FoundRowsRead == ~layered => \A id \in Found : Record(id) # None
=============================================================================
