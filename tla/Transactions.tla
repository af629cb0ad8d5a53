---------------------------- MODULE Transactions ----------------------------
(***************************************************************************)
(* What wd:session promises a document that uses one session at a time: a  *)
(* transaction.  The document works on a view of the collection that       *)
(* begins as the tables are; a commit makes the tables what the view is,   *)
(* its new rows placed where there were none, and a close without a commit *)
(* throws the view away.                                                   *)
(***************************************************************************)
CONSTANTS
    Rows,       \* rows of the tables
    NewRows,    \* rows that only a view has
    Values,     \* what is written to a row
    None        \* no row

VARIABLES
    tables,     \* the committed rows
    view,       \* the rows as the document sees them
    open        \* a session is open

vars == <<tables, view, open>>

\* A view to which nothing was written.
Base(t) == [id \in Rows \cup NewRows |-> IF id \in Rows THEN t[id] ELSE None]

Init ==
    /\ tables = [r \in Rows |-> None]
    /\ view = Base(tables)
    /\ open = FALSE

Begin ==
    /\ ~open /\ open' = TRUE
    /\ UNCHANGED <<tables, view>>

\* The contents t that the tables may have when v is committed.
Published(v, t) ==
    \E place \in [{id \in NewRows : v[id] # None} -> {r \in Rows : tables[r] = None}] :
       /\ \A i, j \in DOMAIN place : i # j => place[i] # place[j]
       /\ \A r \in Rows :
             \/ \E i \in DOMAIN place : place[i] = r /\ t[r] = v[i]
             \/ t[r] = v[r] /\ \A i \in DOMAIN place : place[i] # r

Publish(v) ==
    /\ \E t \in [Rows -> Values \cup {None}] : Published(v, t) /\ tables' = t
    /\ view' = Base(tables')

\* A row is written or deleted, and the view committed if that is asked for.
Update(id, value, commit) ==
    LET v == [view EXCEPT ![id] = value] IN
    /\ open
    /\ id \in Rows => tables[id] # None
    /\ IF commit THEN Publish(v) ELSE view' = v /\ UNCHANGED tables
    /\ UNCHANGED open

Commit ==
    /\ open /\ open' = FALSE
    /\ Publish(view)

Rollback ==
    /\ open /\ open' = FALSE
    /\ view' = Base(tables)
    /\ UNCHANGED tables

\* Without a session a row is written at once.
Write(r, value) ==
    /\ ~open
    /\ tables' = [tables EXCEPT ![r] = value]
    /\ view' = Base(tables')
    /\ UNCHANGED open

Next ==
    \/ Begin \/ Commit \/ Rollback
    \/ \E value \in Values \cup {None} :
          \/ \E id \in Rows \cup NewRows, commit \in {TRUE, FALSE} : Update(id, value, commit)
          \/ \E r \in Rows : Write(r, value)

Spec == Init /\ [][Next]_vars
=============================================================================
