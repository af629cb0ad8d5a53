----------------------------- MODULE UpdateBlock -----------------------------
(***************************************************************************)
(* One wd:update (wild-doc/src/parser/update.rs): make_update_struct()     *)
(* reads the records from the output of the element's content, records in  *)
(* the pends of a record among them, and the records are then written to   *)
(* the tables one by one, with the relations to the rows they depend on,   *)
(* or handed to the innermost session.  A record is written in several     *)
(* calls of the database, each under a lock of its own, and the thread may *)
(* come to its end between any two of them: every state is one where the   *)
(* block may stop.                                                         *)
(*                                                                         *)
(* The block is not stored: each reading step chooses the next token.  The *)
(* records are numbered in the order of their start tags, which is the     *)
(* order they are written in.  There is one collection, and a relation is  *)
(* a pair of rows: the row that depends on another, and that other one.    *)
(***************************************************************************)
EXTENDS Integers, Sequences

CONSTANTS
    MaxRow,         \* bound: rows of the collection
    RowBits,        \* the width of a row number
    OldRows,        \* the rows of the collection before the block
    OldRelation,    \* the relations then, some of rows that are not there
    Named,          \* the values of the attribute row
    Dependable,     \* rows a depend element names, negative ones of the session
    MaxRecords,     \* bound: records in a block
    MaxOpen,        \* bound: start tags still open when another one is read
    MaxDeps         \* bound: the value of a call's counter

Rows == 1 .. MaxRow

ASSUME UpdateBlockBounds ==
    /\ {MaxRow, RowBits, MaxRecords, MaxOpen} \subseteq Nat /\ MaxDeps \in Nat \ {0}
    /\ Dependable \subseteq Int
    /\ OldRows \subseteq Rows /\ OldRelation \subseteq Rows \X (Rows \cup Dependable)
    /\ Named \subseteq Int
    /\ \A n \in Named : (IF n < 0 THEN -n ELSE n) % 2 ^ RowBits \in 0 .. MaxRow

VARIABLES
    mode,       \* what update() is doing
    calls,      \* active calls of make_update_struct(), outermost first
    open,       \* history: elements whose end tag is still ahead
    plain,      \* history: the block held nothing but records
    records,    \* the records read so far
    at,         \* the record to be written next, or that is being written
    part,       \* how far that is: its row was written, its relations are
    left,       \* dependencies of it that are still to be registered
    wrote,      \* the row each record was written to, 0 for none
    rows,       \* the rows of the collection
    relation,   \* <<row, the row it depends on>>
    told,       \* the rows that a wd:on of the block is given
    deleted     \* history: rows that the block deleted

readVars == <<calls, open, plain, records>>
writeVars == <<at, part, left, wrote, rows, relation, told, deleted>>
vars == <<mode, readVars, writeVars>>

Modes == {"reading", "writing", "done", "rejected", "panicked", "unreachable"}
\* A record deletes a row or updates one, and an update may ask to inherit the
\* relations of the row if it has no depend element (inherit_depend_if_empty).
Kinds == {"update", "inherit", "delete"}
Record == [owner : 0 .. MaxRecords, inside : 0 .. MaxRecords, kept : BOOLEAN,
           session : BOOLEAN, row : 0 .. MaxRow, does : Kinds,
           depends : SUBSET Dependable]
\* rec is the record whose element the call is in, owner that of its pends.
Call == [owner : 0 .. MaxRecords, rec : 0 .. MaxRecords, deps : 0 .. MaxDeps,
         keyed : BOOLEAN]
Element == [tag : {"collection", "pends", "other"}, rec : 0 .. MaxRecords]

TypeOK ==
    /\ mode \in Modes
    /\ calls \in Seq(Call)
    /\ open \in Seq(Element)
    /\ plain \in BOOLEAN
    /\ records \in Seq(Record) /\ Len(records) <= MaxRecords
    /\ at \in 1 .. MaxRecords + 1
    /\ part \in {"next", "written", "linking"}
    /\ left \subseteq Rows \cup Dependable
    /\ wrote \in [1 .. MaxRecords -> 0 .. MaxRow]
    /\ rows \subseteq Rows
    /\ relation \subseteq Rows \X (Rows \cup Dependable)
    /\ told \subseteq Rows
    /\ deleted \subseteq Rows

Init ==
    /\ mode = "reading"
    /\ calls = <<[owner |-> 0, rec |-> 0, deps |-> 0, keyed |-> TRUE]>>
    /\ open = <<>>
    /\ plain = TRUE
    /\ records = <<>>
    /\ at = 1 /\ part = "next" /\ left = {}
    /\ wrote = [i \in 1 .. MaxRecords |-> 0]
    /\ rows = OldRows
    /\ relation = OldRelation
    /\ told = {}
    /\ deleted = {}

-----------------------------------------------------------------------------
(* Reading *)

Top == calls[Len(calls)]
Reading == mode = "reading"
BetweenRecords == Reading /\ Top.rec = 0
InRecord == Reading /\ Top.rec # 0 /\ Top.deps < MaxDeps
With(field, value) == [calls EXCEPT ![Len(calls)] = [@ EXCEPT ![field] = value]]
Deeper == With("deps", Top.deps + 1)
\* The record of the element that the next token is in.
Inside == IF open = <<>> THEN 0 ELSE open[Len(open)].rec
Opened(tag, rec) ==
    /\ Len(open) < MaxOpen
    /\ open' = Append(open, [tag |-> tag, rec |-> rec])

\* Nothing more is read: what was kept for reading is dropped, and after an
\* error the records are.
EndReading(next) == mode' = next /\ calls' = <<>> /\ open' = <<>> /\ plain' = TRUE
AllRead == EndReading("writing") /\ UNCHANGED records
Fail(next) == EndReading(next) /\ records' = <<>>

\* The row that the attribute names: "row as u32" and "(-row) as u32".
RowOf(n) == (IF n < 0 THEN -n ELSE n) % 2 ^ RowBits

\* The start tag of a collection with a name, between records.
CollectionStart(n, does) ==
    /\ BetweenRecords /\ Len(records) < MaxRecords
    /\ Opened("collection", Len(records) + 1)
    /\ records' = Append(records,
          [owner |-> Top.owner, inside |-> Inside, kept |-> Top.keyed,
           session |-> n < 0, row |-> RowOf(n), does |-> does,
           depends |-> {}])
    /\ calls' = [calls EXCEPT ![Len(calls)] =
                    [@ EXCEPT !.rec = Len(records) + 1, !.deps = 1]]
    /\ UNCHANGED <<mode, plain, writeVars>>

\* A field, skipped with its end tag.
Field ==
    /\ InRecord
    /\ calls' = Deeper
    /\ UNCHANGED <<mode, open, plain, records, writeVars>>

\* A field that is not UTF-8, or a base64 one that does not decode.
BadField ==
    /\ InRecord
    /\ Fail("rejected") \/ Fail("panicked")
    /\ UNCHANGED writeVars

\* A depend element adds to the record, or names a row that cannot be, with an
\* error or, where the number is too large, a panic.
Depend ==
    /\ InRecord
    /\ \E d \in Dependable :
          records' = [records EXCEPT ![Top.rec].depends = @ \cup {d}]
    /\ UNCHANGED <<mode, calls, open, plain, writeVars>>
BadDepend ==
    /\ InRecord
    /\ Fail("rejected") \/ Fail("panicked")
    /\ UNCHANGED writeVars

\* Mutant: the records in pends belong to the owner of the enclosing record.
PendsCall_Outer(keyed) ==
    [owner |-> Top.owner, rec |-> 0, deps |-> 0, keyed |-> keyed /\ Top.keyed]
PendsCall(keyed) ==
    [owner |-> Top.rec, rec |-> 0, deps |-> 0, keyed |-> keyed /\ Top.keyed]

\* A pends element is read by a call of its own; its records are dropped when
\* it has no key.
PendsStart(keyed) ==
    /\ InRecord
    /\ Opened("pends", Top.rec)
    /\ calls' = Append(Deeper, PendsCall(keyed))
    /\ UNCHANGED <<mode, plain, records, writeVars>>

\* Any other start tag (a collection in a record, or without a name, too) is
\* counted in a record and ignored between records.
OtherStart(tag) ==
    /\ Reading /\ (Top.rec # 0 => Top.deps < MaxDeps)
    /\ Opened(tag, Inside)
    /\ plain' = FALSE
    /\ calls' = IF Top.rec # 0 THEN Deeper ELSE calls
    /\ UNCHANGED <<mode, records, writeVars>>

\* The call returns: to the record whose pends it read, or to update().
Return(rest, still) ==
    IF Len(calls) = 1 THEN AllRead
    ELSE /\ calls' = SubSeq(calls, 1, Len(calls) - 1)
         /\ open' = rest /\ plain' = still
         /\ UNCHANGED <<mode, records>>

EndsRecord(tag) == tag = "collection"

\* Mutant: end tags are accepted without a start tag that was counted.
TooMany_Never == FALSE
TooMany == Top.deps = 0

\* An end tag: of a collection, it ends the record; any other one must match a
\* start tag that was counted.  Between records it ends the call.
EndTag ==
    /\ Reading /\ open # <<>>
    /\ LET tag == open[Len(open)].tag
           rest == SubSeq(open, 1, Len(open) - 1)
       IN  \/ Top.rec = 0 /\ Return(rest, plain)
           \/ /\ Top.rec # 0 /\ ~EndsRecord(tag) /\ TooMany
              /\ Fail("rejected")
           \/ /\ Top.rec # 0 /\ (EndsRecord(tag) \/ ~TooMany)
              /\ open' = rest
              /\ calls' = IF EndsRecord(tag) THEN With("rec", 0)
                          ELSE With("deps", Top.deps - 1)
              /\ UNCHANGED <<mode, plain, records>>
    /\ UNCHANGED writeVars

\* An empty element between records ends the call too.
EmptyElement ==
    /\ BetweenRecords
    /\ Return(open, FALSE)
    /\ UNCHANGED writeVars

\* The end of the block ends every record and call.
EndOfBlock ==
    /\ Reading /\ open = <<>>
    /\ AllRead
    /\ UNCHANGED writeVars

-----------------------------------------------------------------------------
(* Writing *)

\* In a session, and without without_session, the records are handed over.
HandOver ==
    /\ mode = "writing" /\ at = 1 /\ part = "next"
    /\ mode' = "done"
    /\ UNCHANGED <<readVars, writeVars>>

Now == records[at]
Writing == mode = "writing" /\ at <= Len(records) /\ part = "next"
\* A record in pends is reached when the record of the pends was written.
\* Mutant: only the records outside pends are.
Reached_Outside == Now.kept /\ Now.owner = 0
Reached == Now.kept /\ (Now.owner # 0 => wrote[Now.owner] # 0)
Deletes == Now.does = "delete"
Step == at' = at + 1 /\ part' = "next" /\ left' = {} /\ UNCHANGED <<mode, readVars>>

\* update_pends() adds the row of the record to the dependencies.
\* Mutant: it takes those of the record as they are.
Declared_AsRead(i) == records[i].depends
Declared(i) ==
    records[i].depends \cup
       IF records[i].owner = 0 THEN {} ELSE {wrote[records[i].owner]}
\* Depends::Default, which update_pends() makes Overwrite.
Inherits(i) ==
    /\ records[i].does = "inherit" /\ records[i].row # 0
    /\ records[i].owner = 0 /\ records[i].depends = {}

\* Rows of a session are passed over, and what is not reached is not written.
PassOver ==
    /\ Writing
    /\ \/ ~Reached
       \/ Now.session /\ ~(Deletes /\ Now.owner # 0)
       \/ Deletes /\ Now.row = 0
    /\ UNCHANGED <<wrote, rows, relation, told, deleted>>
    /\ Step

Writable == Writing /\ Reached /\ ~Now.session /\ ~Deletes
Puts(row) ==
    /\ wrote' = [wrote EXCEPT ![at] = row]
    /\ UNCHANGED <<mode, readVars, at, relation, told, deleted>>

\* record_update() with a row, which nobody looks for.
Overwrite ==
    /\ Writable /\ Now.row \in Rows
    /\ Puts(Now.row)
    /\ rows' \in {rows, rows \cup {Now.row}}
    /\ part' = IF Inherits(at) THEN "linking" ELSE "written"
    /\ left' = {}

\* record_update() without one: there is nothing to delete.
Insert ==
    /\ Writable /\ Now.row = 0
    /\ \E row \in Rows \ rows : Puts(row) /\ rows' = rows \cup {row}
    /\ part' = "linking"
    /\ left' = Declared(at)

\* Relations of a row that is overwritten.
\* Mutant: those of the rows that depend on it go as well.
Unlinked_Both(row) == {p \in relation : row \notin {p[1], p[2]}}
\* Mutant: older relations stay.
Unlinked_Stay(row) == relation
Unlinked(row) == {p \in relation : p[1] # row}

Unlink ==
    /\ part = "written"
    /\ relation' = Unlinked(wrote[at])
    /\ part' = "linking"
    /\ left' = Declared(at)
    /\ UNCHANGED <<mode, readVars, at, wrote, rows, told, deleted>>

Register ==
    /\ part = "linking"
    /\ \E d \in left :
          /\ relation' = relation \cup {<<wrote[at], d>>}
          /\ left' = left \ {d}
    /\ UNCHANGED <<mode, readVars, at, part, wrote, rows, told, deleted>>

\* record_update() returns the row of the record, and drops those that
\* update_pends() returns for its pends.
Push ==
    /\ part = "linking" /\ left = {}
    /\ told' = IF Now.owner = 0 THEN told \cup {wrote[at]} ELSE told
    /\ UNCHANGED <<wrote, rows, relation, deleted>>
    /\ Step

\* A record that deletes a row; rows that depend on it may go with it.
Delete ==
    /\ Writing /\ Reached /\ Deletes /\ ~Now.session
    /\ Now.owner = 0 /\ Now.row \in Rows
    /\ \E also \in SUBSET {p[1] : p \in {q \in relation : q[2] = Now.row}} :
          LET gone == also \cup {Now.row} IN
          /\ rows' = rows \ gone
          /\ relation' = {p \in relation : p[1] \notin gone /\ p[2] \notin gone}
          /\ deleted' = deleted \cup gone
    /\ UNCHANGED <<wrote, told>>
    /\ Step

\* update_pends() does not expect one.
DeleteInPends ==
    /\ Writing /\ Reached /\ Deletes /\ Now.owner # 0 /\ Now.row # 0
    /\ mode' = "unreachable"
    /\ UNCHANGED <<readVars, writeVars>>

Written ==
    /\ mode = "writing" /\ at > Len(records)
    /\ mode' = "done"
    /\ UNCHANGED <<readVars, writeVars>>

Ended ==
    /\ mode \in {"done", "rejected", "panicked", "unreachable"}
    /\ UNCHANGED vars

Read ==
    \/ \E n \in Named, does \in Kinds : CollectionStart(n, does)
    \/ Field \/ BadField \/ Depend \/ BadDepend
    \/ \E keyed \in BOOLEAN : PendsStart(keyed)
    \/ \E tag \in {"collection", "other"} : OtherStart(tag)
    \/ EndTag \/ EmptyElement \/ EndOfBlock

Write ==
    \/ HandOver \/ PassOver \/ Overwrite \/ Insert \/ Unlink \/ Register \/ Push
    \/ Delete \/ DeleteInPends \/ Written

Next == Read \/ Write \/ Ended

Spec == Init /\ [][Next]_vars
-----------------------------------------------------------------------------
(* Properties *)

\* As long as the block holds nothing but records, the calls follow its nesting:
\* the record that takes fields and dependencies is the innermost one whose
\* element is open, and a record in pends belongs to the record around it
\* (update.rs:345-438,538).
ReadAsNested ==
    plain /\ Reading =>
      /\ \A i \in 1 .. Len(records) : records[i].owner = records[i].inside
      /\ IF open # <<>> /\ open[Len(open)].tag = "collection"
           THEN Top.rec = Inside
           ELSE Top.rec = 0 /\ Top.owner = Inside

\* The record has its row, and what the row depended on before is gone.
Linked(i) ==
    wrote[i] # 0 /\ ~Inherits(i) /\ (i < at \/ part = "linking")
LinkedLast(i) ==
    Linked(i) /\ \A j \in i + 1 .. Len(records) : Linked(j) => wrote[j] # wrote[i]
LinksOf(row) == {p[2] : p \in {q \in relation : q[1] = row}}

\* Wherever the block stops, between two records or between two calls for one of
\* them, the relations are those that its records declare, their pends' among them.
\* Nothing is registered but what a record declares for the row it was written to.
\* Of an overwritten row nothing stays from before, and nothing of a record before
\* the last: what it declares replaces that as a whole, so that a record which is
\* cut short leaves a part of its own relations and never a mix; a record that
\* inherits changes nothing.  A row that is inserted takes over what an earlier
\* row or record left for its number (update.rs:77-112,156-270).
RelationsAsDeclared ==
    /\ \A p \in relation : p \in OldRelation
          \/ \E i \in 1 .. Len(records) : wrote[i] = p[1] /\ p[2] \in Declared(i)
    /\ \A i \in 1 .. Len(records) : LinkedLast(i) =>
          LET registered == Declared(i) \ (IF i = at THEN left ELSE {}) IN
          /\ records[i].row # 0 => LinksOf(wrote[i]) \subseteq registered
          /\ wrote[i] \notin deleted => registered \ deleted \subseteq LinksOf(wrote[i])

\* A wd:on can tell every row that the block wrote: it is given those of the
\* records outside pends, and a row that it is not given depends on the row of
\* the record around it (update.rs:89-101,181-188,240-241,266-267).
RowsTold ==
    \A i \in 1 .. Len(records) : i < at /\ wrote[i] # 0 =>
       IF records[i].owner = 0 THEN wrote[i] \in told
       ELSE LET around == wrote[records[i].owner] IN
            /\ around # 0
            /\ LinkedLast(i) /\ {wrote[i], around} \cap deleted = {} =>
                  <<wrote[i], around>> \in relation

\* Every record is taken in its turn: it was written, or its row deleted, unless the
\* code drops it for a reason of its own, as it does with what lies in pends without
\* a key or of a record that was not written, with rows of a session, and with a
\* deletion of no row.  A block that is done was written to its end or handed over
\* as a whole (update.rs:77-130,161-199,240-241).
EachTaken ==
    /\ \A i \in 1 .. Len(records) : i < at =>
          \/ wrote[i] # 0
          \/ ~records[i].kept \/ records[i].session
          \/ records[i].owner # 0 /\ wrote[records[i].owner] = 0
          \/ records[i].does = "delete" /\ records[i].row \in deleted \cup {0}
    /\ mode = "done" => at \in {1, Len(records) + 1}

\* What the block does not write stays wherever it stops: a row that was not deleted
\* is still there, and as long as no record has begun to replace its relations it has
\* those it had, but for those to rows that were deleted (update.rs:77-112,226-239).
OthersStay ==
    \A r \in Rows \ deleted :
       /\ r \in OldRows => r \in rows
       /\ (\A i \in 1 .. Len(records) : Linked(i) => wrote[i] # r) =>
             \A d \in (Rows \cup Dependable) \ deleted :
                <<r, d>> \in relation <=> <<r, d>> \in OldRelation

\* What the code asserts (update.rs:194, "_ => unreachable!()"): no record that
\* deletes a row reaches update_pends().
OnlyUpdatesInPends == mode # "unreachable"
=============================================================================
