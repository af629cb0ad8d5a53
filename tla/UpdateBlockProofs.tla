------------------------- MODULE UpdateBlockProofs -------------------------
(***************************************************************************)
(* Proofs about UpdateBlock, for any table, block and bound: the calls     *)
(* that read a block follow its nesting, and the rows that are written     *)
(* have the relations their records declare.                               *)
(***************************************************************************)
EXTENDS UpdateBlock, SequenceTheorems, TLAPS

\* There is a call, and those that wait for another one are in a record.
Waiting ==
    Reading =>
      /\ Len(calls) > 0
      /\ \A k \in 1 .. Len(calls) - 1 : calls[k].rec # 0

\* Calls and records refer to records read before.
Backwards ==
    /\ \A k \in 1 .. Len(calls) :
          calls[k].rec <= Len(records) /\ calls[k].owner <= Len(records)
    /\ \A i \in 1 .. Len(records) : records[i].owner < i

\* In a block of records, the open elements are a collection and its pends for
\* each call that waits, and the collection that the innermost call is in.
Collection(rec) == [tag |-> "collection", rec |-> rec]
Pends(rec) == [tag |-> "pends", rec |-> rec]
Nesting ==
    plain /\ Reading =>
      /\ Len(open) = 2 * Len(calls) - (IF Top.rec = 0 THEN 2 ELSE 1)
      /\ calls[1].owner = 0
      /\ \A k \in 2 .. Len(calls) : calls[k].owner = calls[k - 1].rec
      /\ \A k \in 1 .. Len(calls) :
            /\ 2 * k - 1 <= Len(open) => open[2 * k - 1] = Collection(calls[k].rec)
            /\ 2 * k <= Len(open) => open[2 * k] = Pends(calls[k].rec)
Placed == plain /\ Reading => \A i \in 1 .. Len(records) : records[i].owner = records[i].inside

ReadInduction == Waiting /\ Backwards /\ Nesting /\ Placed

\* Records are written in their order, those in pends after the one around them.
InOrder ==
    /\ Reading => at = 1 /\ part = "next"
    /\ \A j \in 1 .. MaxRecords : j > at \/ (j = at /\ part = "next") => wrote[j] = 0
    /\ \A i \in 1 .. Len(records) :
          wrote[i] # 0 /\ records[i].owner # 0 => wrote[records[i].owner] # 0
\* The record that is being written, and what is left of it.
Midway ==
    /\ part = "next" => left = {}
    /\ part # "next" =>
          /\ mode = "writing" /\ at <= Len(records) /\ wrote[at] # 0
          /\ left \subseteq Declared(at)
          /\ part = "written" => ~Inherits(at) /\ left = {}
\* wd:on is given the rows of the records outside pends.
Told == \A i \in 1 .. Len(records) :
          i < at /\ wrote[i] # 0 /\ records[i].owner = 0 => wrote[i] \in told

\* The two halves of RelationsAsDeclared.
Known ==
    \A p \in relation : p \in OldRelation
       \/ \E i \in 1 .. Len(records) : wrote[i] = p[1] /\ p[2] \in Declared(i)
Pending(i) == IF i = at THEN left ELSE {}
AsDeclared(i) ==
    /\ records[i].row # 0 => LinksOf(wrote[i]) \subseteq Declared(i) \ Pending(i)
    /\ wrote[i] \notin deleted =>
          (Declared(i) \ Pending(i)) \ deleted \subseteq LinksOf(wrote[i])
EachDeclared == \A i \in 1 .. Len(records) : LinkedLast(i) => AsDeclared(i)

WriteInduction == InOrder /\ Midway /\ Told /\ Known /\ EachDeclared

BlockInduction == TypeOK /\ ReadInduction /\ WriteInduction

-----------------------------------------------------------------------------
(* Sequences and types *)

LEMMA Appended ==
    ASSUME NEW S, NEW s \in Seq(S), NEW x \in S
    PROVE  /\ Append(s, x) \in Seq(S)
           /\ Len(Append(s, x)) = Len(s) + 1
           /\ \A i \in 1 .. Len(s) : Append(s, x)[i] = s[i]
           /\ Append(s, x)[Len(s) + 1] = x
  BY AppendProperties

LEMMA Prefix ==
    ASSUME NEW S, NEW s \in Seq(S), NEW k \in 0 .. Len(s)
    PROVE  /\ SubSeq(s, 1, k) \in Seq(S)
           /\ Len(SubSeq(s, 1, k)) = k
           /\ \A i \in 1 .. k : SubSeq(s, 1, k)[i] = s[i]
<1>1. Len(s) \in Nat
  BY LenProperties
<1> QED
  BY <1>1, SMT

LEMMA Shortened ==
    ASSUME NEW S, NEW s \in Seq(S), Len(s) > 0
    PROVE  /\ SubSeq(s, 1, Len(s) - 1) \in Seq(S)
           /\ Len(SubSeq(s, 1, Len(s) - 1)) = Len(s) - 1
           /\ \A i \in 1 .. Len(s) - 1 : SubSeq(s, 1, Len(s) - 1)[i] = s[i]
<1>1. Len(s) \in Nat
  BY LenProperties
<1>2. Len(s) - 1 \in 0 .. Len(s)
  BY <1>1
<1> QED
  BY <1>2, Prefix

LEMMA Replaced ==
    ASSUME NEW S, NEW s \in Seq(S), NEW x \in S, NEW k \in 1 .. Len(s)
    PROVE  /\ [s EXCEPT ![k] = x] \in Seq(S)
           /\ Len([s EXCEPT ![k] = x]) = Len(s)
           /\ \A i \in 1 .. Len(s) :
                 [s EXCEPT ![k] = x][i] = IF i = k THEN x ELSE s[i]
  BY ExceptSeq

LEMMA Bounds ==
    /\ MaxRecords \in Nat /\ MaxRow \in Nat /\ MaxDeps \in Nat /\ MaxDeps > 0
    /\ 0 \in 0 .. MaxRecords /\ 0 \in 0 .. MaxRow
  BY UpdateBlockBounds

\* What the types say of the sequences.
LEMMA Typed ==
    ASSUME TypeOK
    PROVE  /\ calls \in Seq(Call) /\ Len(calls) \in Nat
           /\ open \in Seq(Element) /\ Len(open) \in Nat
           /\ records \in Seq(Record) /\ Len(records) \in 0 .. MaxRecords
           /\ \A k \in 1 .. Len(calls) : calls[k] \in Call
           /\ \A k \in 1 .. Len(open) : open[k] \in Element
           /\ \A i \in 1 .. Len(records) : records[i] \in Record
<1>1. calls \in Seq(Call) /\ open \in Seq(Element) /\ records \in Seq(Record)
      /\ Len(records) <= MaxRecords
  BY DEF TypeOK
<1>2. Len(calls) \in Nat /\ Len(open) \in Nat /\ Len(records) \in Nat
  BY <1>1, LenProperties
<1> QED
  BY <1>1, <1>2, ElementOfSeq, Bounds

-----------------------------------------------------------------------------
(* Reading *)

LEMMA NothingWritten ==
    ASSUME BlockInduction, Reading
    PROVE  at = 1 /\ part = "next" /\ left = {} /\ \A j \in 1 .. MaxRecords : wrote[j] = 0
<1>1. InOrder /\ Midway
  BY DEF BlockInduction, WriteInduction
<1>2. \A j \in 1 .. MaxRecords : j > 1 \/ j = 1
  BY Bounds
<1> QED
  BY <1>1, <1>2 DEF InOrder, Midway

\* While nothing was written, records come and go.
LEMMA WritesLater ==
    ASSUME BlockInduction, Reading, UNCHANGED writeVars,
           records' \in Seq(Record), Len(records') <= MaxRecords
    PROVE  WriteInduction'
<1>1. at = 1 /\ part = "next" /\ left = {} /\ \A j \in 1 .. MaxRecords : wrote[j] = 0
  BY NothingWritten
<1>2. UNCHANGED <<at, part, left, wrote, rows, relation, told, deleted>>
  BY DEF writeVars
<1>3. Len(records') \in Nat /\ Len(records) \in Nat /\ Len(records) <= MaxRecords
  <2>1. Len(records) \in 0 .. MaxRecords
    BY Typed DEF BlockInduction
  <2> QED
    BY <2>1, LenProperties, Bounds
<1>4. /\ \A i \in 1 .. Len(records') : wrote'[i] = 0
      /\ \A i \in 1 .. Len(records) : wrote[i] = 0
  BY <1>1, <1>2, <1>3, Bounds
<1>5. InOrder' /\ Midway' /\ Told'
  BY <1>1, <1>2, <1>4 DEF InOrder, Midway, Told
<1>6. Known'
  <2>1. \A p \in relation : p[1] # 0
    <3>1. relation \subseteq Rows \X (Rows \cup Dependable)
      BY DEF BlockInduction, TypeOK
    <3> QED
      BY <3>1, Bounds DEF Rows
  <2> QED
    BY <1>2, <1>4, <2>1 DEF BlockInduction, WriteInduction, Known
<1>7. EachDeclared'
  BY <1>4 DEF EachDeclared, LinkedLast, Linked
<1> QED
  BY <1>5, <1>6, <1>7 DEF WriteInduction

\* Where reading ends, nothing is left of it but records to write.
LEMMA Ends ==
    ASSUME BlockInduction, Reading, NEW next \in Modes \ {"reading"}, EndReading(next),
           records' \in {records, <<>>}, UNCHANGED writeVars
    PROVE  BlockInduction'
<1>1. TypeOK /\ ReadInduction
  BY DEF BlockInduction
<1>2. records' \in Seq(Record) /\ Len(records') \in Nat /\ Len(records') <= Len(records)
      /\ Len(records') <= MaxRecords
  <2>1. CASE records' = records
    BY <1>1, <2>1, Typed, Bounds
  <2>2. CASE records' = <<>>
    BY <1>1, <2>2, Typed, Bounds, EmptySeq
  <2> QED
    BY <2>1, <2>2
<1>3. TypeOK'
  <2>1. mode' \in Modes /\ calls' \in Seq(Call) /\ open' \in Seq(Element)
        /\ plain' \in BOOLEAN
    BY EmptySeq DEF EndReading
  <2> QED
    BY <1>1, <1>2, <2>1 DEF TypeOK, writeVars
<1>4. ReadInduction'
  <2>1. \A i \in 1 .. Len(records') : records'[i] = records[i]
    BY <1>2
  <2>2. Backwards'
    BY <1>1, <1>2, <2>1, Typed DEF EndReading, ReadInduction, Backwards
  <2>3. ~Reading'
    BY DEF EndReading, Reading
  <2> QED
    BY <2>2, <2>3 DEF ReadInduction, Waiting, Nesting, Placed
<1>5. WriteInduction'
  BY <1>2, WritesLater
<1> QED
  BY <1>3, <1>4, <1>5 DEF BlockInduction

LEMMA TopCall ==
    ASSUME BlockInduction, Reading
    PROVE  /\ Len(calls) > 0
           /\ Len(calls) \in 1 .. Len(calls) /\ Top = calls[Len(calls)] /\ Top \in Call
           /\ Top.rec \in 0 .. Len(records) /\ Top.owner \in 0 .. Len(records)
           /\ Top.rec \in 0 .. MaxRecords /\ Top.owner \in 0 .. MaxRecords
           /\ Top.deps \in 0 .. MaxDeps /\ Top.keyed \in BOOLEAN
<1>1. TypeOK /\ Waiting /\ Backwards
  BY DEF BlockInduction, ReadInduction
<1>2. Len(calls) > 0 /\ Len(calls) \in 1 .. Len(calls)
  BY <1>1, Typed DEF Waiting
<1>3. Top = calls[Len(calls)] /\ Top \in Call
  BY <1>1, <1>2, Typed DEF Top
<1>4. Top.rec <= Len(records) /\ Top.owner <= Len(records)
  BY <1>1, <1>2 DEF Backwards, Top
<1>5. Top.rec \in 0 .. MaxRecords /\ Top.owner \in 0 .. MaxRecords
      /\ Top.deps \in 0 .. MaxDeps /\ Top.keyed \in BOOLEAN
  BY <1>3 DEF Call
<1> QED
  BY <1>1, <1>2, <1>3, <1>4, <1>5, Typed

\* The calls after a change of the innermost one.
LEMMA Within ==
    ASSUME BlockInduction, Reading, NEW call \in Call
    PROVE  LET cs == [calls EXCEPT ![Len(calls)] = call] IN
           /\ cs \in Seq(Call) /\ Len(cs) = Len(calls)
           /\ cs[Len(calls)] = call
           /\ \A k \in 1 .. Len(calls) - 1 : cs[k] = calls[k]
<1>1. calls \in Seq(Call) /\ Len(calls) \in Nat /\ Len(calls) \in 1 .. Len(calls)
  BY TopCall, Typed DEF BlockInduction
<1> QED
  BY <1>1, Replaced

\* A count changes nothing else of the call.
LEMMA Counts ==
    ASSUME BlockInduction, Reading, NEW d \in 0 .. MaxDeps
    PROVE  LET cs == With("deps", d) IN
           /\ cs \in Seq(Call) /\ Len(cs) = Len(calls)
           /\ \A k \in 1 .. Len(calls) :
                 cs[k].rec = calls[k].rec /\ cs[k].owner = calls[k].owner
<1> DEFINE call == [Top EXCEPT !.deps = d]
<1>1. call \in Call /\ call.rec = Top.rec /\ call.owner = Top.owner
  BY TopCall DEF Call
<1>2. With("deps", d) = [calls EXCEPT ![Len(calls)] = call]
  BY TopCall DEF With
<1> DEFINE cs == [calls EXCEPT ![Len(calls)] = call]
<1>3. cs \in Seq(Call) /\ Len(cs) = Len(calls) /\ cs[Len(calls)] = call
      /\ \A k \in 1 .. Len(calls) - 1 : cs[k] = calls[k]
  BY <1>1, Within
<1>4. Len(calls) \in Nat
  BY Typed DEF BlockInduction
<1>5. \A k \in 1 .. Len(calls) : cs[k].rec = calls[k].rec /\ cs[k].owner = calls[k].owner
  <2> SUFFICES ASSUME NEW k \in 1 .. Len(calls)
               PROVE  cs[k].rec = calls[k].rec /\ cs[k].owner = calls[k].owner
    OBVIOUS
  <2> HIDE DEF cs, call
  <2>1. CASE k = Len(calls)
    BY <1>1, <1>3, <2>1, TopCall
  <2>2. CASE k # Len(calls)
    BY <1>3, <1>4, <2>2
  <2> QED
    BY <2>1, <2>2
<1> QED
  BY <1>2, <1>3, <1>5

\* Reading goes on with the same records in the same places.
SamePlaces(cs) ==
    /\ Len(cs) = Len(calls)
    /\ \A k \in 1 .. Len(calls) : cs[k].rec = calls[k].rec /\ cs[k].owner = calls[k].owner
SameOwners ==
    /\ Len(records') = Len(records)
    /\ \A i \in 1 .. Len(records) : records'[i].owner = records[i].owner
                                    /\ records'[i].inside = records[i].inside

LEMMA GoesOn ==
    ASSUME BlockInduction, Reading, TypeOK', SamePlaces(calls'), SameOwners,
           UNCHANGED <<mode, open, plain, writeVars>>
    PROVE  BlockInduction'
<1>1. TypeOK /\ Waiting /\ Backwards /\ Nesting /\ Placed
  BY DEF BlockInduction, ReadInduction
<1>2. Waiting'
  BY <1>1 DEF Waiting, SamePlaces, Reading
<1>3. Backwards'
  BY <1>1 DEF Backwards, SamePlaces, SameOwners
<1>4. Nesting'
  <2> SUFFICES ASSUME plain PROVE Nesting'
    BY DEF Nesting
  <2>1. Top'.rec = Top.rec
    BY TopCall DEF Top, SamePlaces
  <2>2. 1 \in 1 .. Len(calls) /\ Len(calls) \in Nat
    BY TopCall, <1>1, Typed
  <2>3. \A k \in 2 .. Len(calls) : k - 1 \in 1 .. Len(calls) /\ k \in 1 .. Len(calls)
    BY <2>2
  <2> QED
    BY <1>1, <2>1, <2>2, <2>3 DEF Nesting, SamePlaces, Reading
<1>5. Placed'
  BY <1>1 DEF Placed, SameOwners, Reading
<1>6. WriteInduction'
  BY WritesLater, Bounds DEF TypeOK
<1> QED
  BY <1>2, <1>3, <1>4, <1>5, <1>6 DEF BlockInduction, ReadInduction

LEMMA InsideTyped == TypeOK => Inside \in 0 .. MaxRecords
<1> SUFFICES ASSUME TypeOK PROVE Inside \in 0 .. MaxRecords
  OBVIOUS
<1>1. CASE open = <<>>
  BY <1>1, Bounds DEF Inside
<1>2. CASE open # <<>>
  <2>1. Len(open) \in 1 .. Len(open)
    BY <1>2, Typed, EmptySeq
  <2>2. open[Len(open)] \in Element
    BY <2>1, Typed
  <2> QED
    BY <1>2, <2>2 DEF Inside, Element
<1> QED
  BY <1>1, <1>2

LEMMA FieldStep ==
    ASSUME BlockInduction, Field
    PROVE  BlockInduction'
<1>1. Reading /\ Top.deps < MaxDeps /\ calls' = With("deps", Top.deps + 1)
      /\ UNCHANGED <<mode, open, plain, records, writeVars>>
  BY DEF Field, InRecord, Deeper
<1>2. Top.deps + 1 \in 0 .. MaxDeps
  BY <1>1, TopCall, Bounds
<1>3. calls' \in Seq(Call) /\ SamePlaces(calls')
  BY <1>1, <1>2, Counts DEF SamePlaces
<1>4. TypeOK'
  BY <1>1, <1>3 DEF BlockInduction, TypeOK, writeVars
<1> QED
  BY <1>1, <1>3, <1>4, GoesOn DEF SameOwners

LEMMA Failing ==
    ASSUME BlockInduction, BadField \/ BadDepend
    PROVE  BlockInduction'
<1>1. Reading /\ UNCHANGED writeVars /\ records' \in {records, <<>>}
      /\ (EndReading("rejected") \/ EndReading("panicked"))
  BY DEF BadField, BadDepend, InRecord, Fail
<1>2. "rejected" \in Modes \ {"reading"} /\ "panicked" \in Modes \ {"reading"}
  BY DEF Modes
<1> QED
  BY <1>1, <1>2, Ends

LEMMA DependStep ==
    ASSUME BlockInduction, Depend
    PROVE  BlockInduction'
<1>1. PICK d \in Dependable : records' = [records EXCEPT ![Top.rec].depends = @ \cup {d}]
  BY DEF Depend
<1>2. Reading /\ Top.rec # 0 /\ UNCHANGED <<mode, calls, open, plain, writeVars>>
  BY DEF Depend, InRecord
<1>3. TypeOK /\ Top.rec \in 1 .. Len(records) /\ records \in Seq(Record)
  BY <1>2, TopCall, Typed DEF BlockInduction
<1> DEFINE changed == [records[Top.rec] EXCEPT !.depends = @ \cup {d}]
<1>4. records[Top.rec] \in Record
  BY <1>3, Typed
<1>5. changed \in Record /\ changed.owner = records[Top.rec].owner
      /\ changed.inside = records[Top.rec].inside
  BY <1>4 DEF Record
<1>6. records' = [records EXCEPT ![Top.rec] = changed]
  BY <1>1
<1> HIDE DEF changed
<1>7. /\ records' \in Seq(Record) /\ Len(records') = Len(records)
      /\ \A i \in 1 .. Len(records) :
            records'[i] = IF i = Top.rec THEN changed ELSE records[i]
  BY <1>3, <1>5, <1>6, Replaced
<1>8. SameOwners
  BY <1>5, <1>7 DEF SameOwners
<1>9. TypeOK'
  BY <1>2, <1>3, <1>7 DEF TypeOK, writeVars
<1> QED
  BY <1>2, <1>8, <1>9, GoesOn DEF SamePlaces

\* A start tag that belongs to no record.
LEMMA OtherStep ==
    ASSUME BlockInduction, NEW tag \in {"collection", "other"}, OtherStart(tag)
    PROVE  BlockInduction'
<1>1. /\ Reading /\ plain' = FALSE /\ UNCHANGED <<mode, records, writeVars>>
      /\ calls' = calls \/ (Top.deps < MaxDeps /\ calls' = With("deps", Top.deps + 1))
      /\ open' = Append(open, [tag |-> tag, rec |-> Inside])
  BY DEF OtherStart, Opened, Deeper
<1>2. TypeOK /\ Waiting /\ Backwards
  BY DEF BlockInduction, ReadInduction
<1>3. calls' \in Seq(Call) /\ SamePlaces(calls')
  <2>1. CASE calls' = calls
    BY <1>2, <2>1, Typed DEF SamePlaces
  <2>2. CASE Top.deps < MaxDeps /\ calls' = With("deps", Top.deps + 1)
    <3>1. Top.deps + 1 \in 0 .. MaxDeps
      BY <1>1, <2>2, TopCall, Bounds
    <3> QED
      BY <1>1, <2>2, <3>1, Counts DEF SamePlaces
  <2> QED
    BY <1>1, <2>1, <2>2
<1>4. Inside \in 0 .. MaxRecords
  BY <1>2, InsideTyped
<1>5. open' \in Seq(Element)
  <2>1. [tag |-> tag, rec |-> Inside] \in Element
    BY <1>4 DEF Element
  <2> QED
    BY <1>1, <1>2, <2>1, Typed, Appended
<1>6. TypeOK'
  BY <1>1, <1>2, <1>3, <1>5 DEF TypeOK, writeVars
<1>7. Waiting' /\ Backwards' /\ Nesting' /\ Placed'
  BY <1>1, <1>2, <1>3 DEF Waiting, Backwards, Nesting, Placed, SamePlaces, Reading
<1> QED
  BY <1>1, <1>6, <1>7, WritesLater DEF BlockInduction, ReadInduction, TypeOK

LEMMA CollectionStep ==
    ASSUME BlockInduction, NEW n \in Named, NEW does \in Kinds, CollectionStart(n, does)
    PROVE  BlockInduction'
<1> DEFINE new == Len(records) + 1
           record == [owner |-> Top.owner, inside |-> Inside, kept |-> Top.keyed,
                      session |-> n < 0, row |-> RowOf(n), does |-> does, depends |-> {}]
           call == [Top EXCEPT !.rec = new, !.deps = 1]
<1>1. /\ Reading /\ Top.rec = 0 /\ Len(records) < MaxRecords
      /\ open' = Append(open, Collection(new))
      /\ records' = Append(records, record)
      /\ calls' = [calls EXCEPT ![Len(calls)] = call]
      /\ UNCHANGED <<mode, plain, writeVars>>
  <2>1. calls' = [calls EXCEPT ![Len(calls)] = [@ EXCEPT !.rec = new, !.deps = 1]]
    BY DEF CollectionStart
  <2>2. calls' = [calls EXCEPT ![Len(calls)] = call]
    BY <2>1 DEF Top
  <2> QED
    BY <2>2 DEF CollectionStart, BetweenRecords, Opened, Collection
<1>2. TypeOK /\ Waiting /\ Backwards /\ Nesting /\ Placed
  BY DEF BlockInduction, ReadInduction
<1>3. new \in 1 .. MaxRecords /\ Len(records) \in 0 .. MaxRecords
  BY <1>1, <1>2, Typed, Bounds
<1>4. open' \in Seq(Element) /\ Len(open') = Len(open) + 1
      /\ (\A k \in 1 .. Len(open) : open'[k] = open[k])
      /\ open'[Len(open) + 1] = Collection(new)
  <2>1. Collection(new) \in Element
    BY <1>3 DEF Collection, Element
  <2> QED
    BY <1>1, <1>2, <2>1, Typed, Appended
<1>5. call \in Call /\ call.rec = new /\ call.owner = Top.owner
  <2> HIDE DEF new
  <2>1. 1 \in 0 .. MaxDeps /\ new \in 0 .. MaxRecords
    BY <1>3, Bounds
  <2> QED
    BY <1>1, <2>1, TopCall DEF Call
<1> HIDE DEF call
<1>6. /\ calls' \in Seq(Call) /\ Len(calls') = Len(calls) /\ calls'[Len(calls)] = call
      /\ \A k \in 1 .. Len(calls) - 1 : calls'[k] = calls[k]
  BY <1>1, <1>5, Within
<1>7. Inside \in 0 .. MaxRecords
  BY <1>2, InsideTyped
<1>8. record \in Record /\ record.owner = Top.owner /\ record.inside = Inside
  <2>1. RowOf(n) \in 0 .. MaxRow
    BY UpdateBlockBounds DEF RowOf
  <2>2. (n < 0) \in BOOLEAN /\ {} \in SUBSET Dependable
    OBVIOUS
  <2> QED
    BY <1>1, <1>7, <2>1, <2>2, TopCall DEF Record
<1> HIDE DEF record
<1>9. /\ records' \in Seq(Record) /\ Len(records') = new
      /\ (\A i \in 1 .. Len(records) : records'[i] = records[i])
      /\ records'[new] = record
  BY <1>1, <1>2, <1>8, Typed, Appended
<1>10. TypeOK'
  <2>1. Len(records') <= MaxRecords
    BY <1>3, <1>9, Bounds
  <2> HIDE DEF new
  <2> QED
    BY <1>1, <1>2, <1>4, <1>6, <1>9, <2>1 DEF TypeOK, writeVars
<1>11. Len(calls) \in Nat \ {0} /\ Len(open) \in Nat /\ Top' = call
  <2>1. Top' = calls'[Len(calls')]
    BY DEF Top
  <2>2. Top' = call
    BY <1>6, <2>1
  <2>3. Len(calls) > 0 /\ Len(calls) \in Nat /\ Len(open) \in Nat
    BY <1>1, <1>2, TopCall, Typed
  <2> QED
    BY <2>2, <2>3
<1>12. Waiting'
  BY <1>1, <1>2, <1>6, <1>11 DEF Waiting, Reading
<1>13. Backwards'
  <2>1. \A k \in 1 .. Len(calls) : calls'[k].rec <= new /\ calls'[k].owner <= new
    <3> SUFFICES ASSUME NEW k \in 1 .. Len(calls)
                 PROVE  calls'[k].rec <= new /\ calls'[k].owner <= new
      OBVIOUS
    <3>1. CASE k = Len(calls)
      <4>1. calls'[k].rec = new /\ calls'[k].owner = Top.owner
        BY <1>5, <1>6, <3>1
      <4>2. Top.owner \in 0 .. Len(records)
        BY <1>1, TopCall
      <4> QED
        BY <1>3, <4>1, <4>2
    <3>2. CASE k # Len(calls)
      <4>1. calls'[k] = calls[k]
        <5>1. k \in 1 .. Len(calls) - 1
          BY <1>11, <3>2
        <5> QED
          BY <1>6, <5>1
      <4>2. calls[k].rec <= Len(records) /\ calls[k].owner <= Len(records)
        BY <1>2 DEF Backwards
      <4> QED
        <5>1. calls[k] \in Call
          BY <1>2, Typed
        <5>2. calls[k].rec \in Nat /\ calls[k].owner \in Nat
          BY <5>1 DEF Call
        <5> QED
          BY <1>3, <4>1, <4>2, <5>2
    <3> QED
      BY <3>1, <3>2
  <2>2. \A i \in 1 .. new : records'[i].owner < i
    <3> SUFFICES ASSUME NEW i \in 1 .. new PROVE records'[i].owner < i
      OBVIOUS
    <3>1. CASE i = new
      BY <1>1, <1>3, <1>8, <1>9, <3>1, TopCall
    <3>2. CASE i # new
      BY <1>2, <1>3, <1>9, <3>2 DEF Backwards
    <3> QED
      BY <3>1, <3>2
  <2> QED
    BY <1>6, <1>9, <2>1, <2>2 DEF Backwards
<1>14. Nesting' /\ Placed'
  <2> SUFFICES ASSUME plain PROVE Nesting' /\ Placed'
    BY <1>1 DEF Nesting, Placed
  <2> DEFINE m == Len(calls)
  <2>1. Len(open) = 2 * m - 2 /\ m \in Nat \ {0}
    BY <1>1, <1>2, <1>11 DEF Nesting
  <2>2. Len(open') = 2 * m - 1 /\ 2 * m - 1 = Len(open) + 1
    BY <1>4, <2>1
  <2>3. new # 0
    BY <1>3
  <2>4. \A k \in 1 .. m :
           /\ 2 * k - 1 <= Len(open') => open'[2 * k - 1] = Collection(calls'[k].rec)
           /\ 2 * k <= Len(open') => open'[2 * k] = Pends(calls'[k].rec)
    <3> SUFFICES ASSUME NEW k \in 1 .. m
                 PROVE  /\ 2 * k - 1 <= Len(open') => open'[2 * k - 1] = Collection(calls'[k].rec)
                        /\ 2 * k <= Len(open') => open'[2 * k] = Pends(calls'[k].rec)
      OBVIOUS
    <3>1. CASE k = m
      BY <1>4, <1>5, <1>6, <2>1, <2>2, <3>1
    <3>2. CASE k # m
      <4>1. k \in 1 .. m - 1 /\ 2 * k - 1 \in 1 .. Len(open) /\ 2 * k \in 1 .. Len(open)
        BY <2>1, <3>2
      <4>2. open[2 * k - 1] = Collection(calls[k].rec) /\ open[2 * k] = Pends(calls[k].rec)
        BY <1>1, <1>2, <4>1 DEF Nesting
      <4> QED
        BY <1>4, <1>6, <4>1, <4>2
    <3> QED
      BY <3>1, <3>2
  <2>5. \A k \in 1 .. m : calls'[k].owner = calls[k].owner
    <3> SUFFICES ASSUME NEW k \in 1 .. m PROVE calls'[k].owner = calls[k].owner
      OBVIOUS
    <3>1. CASE k = m
      BY <1>1, <1>5, <1>6, <3>1, TopCall
    <3>2. CASE k # m
      BY <1>6, <2>1, <3>2
    <3> QED
      BY <3>1, <3>2
  <2>6. \A k \in 2 .. m : calls'[k].owner = calls'[k - 1].rec
    <3> SUFFICES ASSUME NEW k \in 2 .. m PROVE calls'[k].owner = calls'[k - 1].rec
      OBVIOUS
    <3>1. k \in 1 .. m /\ k - 1 \in 1 .. m - 1
      BY <2>1
    <3> QED
      BY <1>1, <1>2, <1>6, <2>5, <3>1 DEF Nesting
  <2>7. calls'[1].owner = 0
    BY <1>1, <1>2, <2>1, <2>5 DEF Nesting
  <2>8. Nesting'
    BY <1>5, <1>6, <1>11, <2>2, <2>3, <2>4, <2>6, <2>7 DEF Nesting
  <2>9. Top.owner = Inside
    <3>1. CASE m = 1
      BY <1>1, <1>2, <2>1, <3>1, EmptySeq, Typed, TopCall DEF Nesting, Inside
    <3>2. CASE m # 1
      <4> HIDE DEF m
      <4>1. m - 1 \in 1 .. m /\ 2 * (m - 1) = Len(open) /\ m \in 2 .. m
        BY <2>1, <3>2
      <4>2. open # <<>>
        <5>1. Len(open) # 0
          BY <4>1
        <5> QED
          BY <5>1, EmptySeq
      <4> USE DEF m
      <4>3. open[2 * (m - 1)] = Pends(calls[m - 1].rec)
        BY <1>1, <1>2, <4>1 DEF Nesting
      <4>4. Top.owner = calls[m - 1].rec
        <5>1. calls[m].owner = calls[m - 1].rec
          BY <1>1, <1>2, <4>1 DEF Nesting
        <5> QED
          BY <5>1 DEF Top
      <4> QED
        BY <4>1, <4>2, <4>3, <4>4 DEF Inside, Pends
    <3> QED
      BY <3>1, <3>2
  <2>10. Placed'
    <3> SUFFICES ASSUME NEW i \in 1 .. new PROVE records'[i].owner = records'[i].inside
      BY <1>9 DEF Placed
    <3>1. CASE i = new
      BY <1>8, <1>9, <2>9, <3>1
    <3>2. CASE i # new
      BY <1>1, <1>2, <1>3, <1>9, <3>2 DEF Placed
    <3> QED
      BY <3>1, <3>2
  <2> QED
    BY <2>8, <2>10
<1>15. WriteInduction'
  BY <1>1, <1>3, <1>9, WritesLater, Bounds
<1> QED
  BY <1>10, <1>12, <1>13, <1>14, <1>15 DEF BlockInduction, ReadInduction

\* A call of its own for the pends of the record.
LEMMA PendsStep ==
    ASSUME BlockInduction, NEW keyed \in BOOLEAN, PendsStart(keyed)
    PROVE  BlockInduction'
<1> DEFINE m == Len(calls)
           call == PendsCall(keyed)
           counted == With("deps", Top.deps + 1)
<1>1. /\ Reading /\ Top.rec # 0 /\ Top.deps < MaxDeps
      /\ open' = Append(open, Pends(Top.rec))
      /\ calls' = Append(counted, call)
      /\ UNCHANGED <<mode, plain, records, writeVars>>
  BY DEF PendsStart, InRecord, Opened, Deeper, Pends
<1>2. TypeOK /\ Waiting /\ Backwards /\ Nesting /\ Placed
  BY DEF BlockInduction, ReadInduction
<1>3. m \in Nat \ {0} /\ Len(open) \in Nat /\ Top.rec \in 1 .. Len(records)
      /\ Top.rec \in 0 .. MaxRecords
  BY <1>1, <1>2, TopCall, Typed
<1>4. call \in Call /\ call.rec = 0 /\ call.owner = Top.rec
  <2>1. (keyed /\ Top.keyed) \in BOOLEAN
    OBVIOUS
  <2>2. 0 \in 0 .. MaxDeps /\ 0 \in 0 .. MaxRecords
    BY Bounds
  <2> QED
    BY <1>3, <2>1, <2>2 DEF PendsCall, Call
<1>5. counted \in Seq(Call) /\ Len(counted) = m
      /\ \A k \in 1 .. m : counted[k].rec = calls[k].rec /\ counted[k].owner = calls[k].owner
  <2>1. Top.deps + 1 \in 0 .. MaxDeps
    BY <1>1, TopCall, Bounds
  <2> QED
    BY <1>1, <2>1, Counts
<1> HIDE DEF call, counted
<1>6. /\ calls' \in Seq(Call) /\ Len(calls') = m + 1
      /\ calls'[m + 1] = call
      /\ \A k \in 1 .. m : calls'[k].rec = calls[k].rec /\ calls'[k].owner = calls[k].owner
  BY <1>1, <1>4, <1>5, Appended
<1>7. open' \in Seq(Element) /\ Len(open') = Len(open) + 1
      /\ (\A k \in 1 .. Len(open) : open'[k] = open[k])
      /\ open'[Len(open) + 1] = Pends(Top.rec)
  <2>1. Pends(Top.rec) \in Element
    BY <1>3 DEF Pends, Element
  <2> QED
    BY <1>1, <1>2, <2>1, Typed, Appended
<1>8. TypeOK'
  BY <1>1, <1>2, <1>6, <1>7 DEF TypeOK, writeVars
<1>9. Waiting'
  <2> SUFFICES ASSUME NEW k \in 1 .. m PROVE calls'[k].rec # 0
    BY <1>3, <1>6 DEF Waiting
  <2>1. CASE k = m
    BY <1>1, <1>6, <2>1, TopCall
  <2>2. CASE k # m
    BY <1>1, <1>2, <1>3, <1>6, <2>2 DEF Waiting
  <2> QED
    BY <2>1, <2>2
<1>10. Backwards'
  <2> SUFFICES ASSUME NEW k \in 1 .. m + 1
               PROVE  calls'[k].rec <= Len(records) /\ calls'[k].owner <= Len(records)
    BY <1>1, <1>2, <1>6 DEF Backwards
  <2>1. CASE k = m + 1
    BY <1>3, <1>4, <1>6, <1>2, <2>1, Typed
  <2>2. CASE k # m + 1
    BY <1>2, <1>3, <1>6, <2>2 DEF Backwards
  <2> QED
    BY <2>1, <2>2
<1>11. Placed'
  BY <1>1, <1>2 DEF Placed, Reading
<1>12. Nesting'
  <2> SUFFICES ASSUME plain PROVE Nesting'
    BY <1>1 DEF Nesting
  <2>1. Len(open) = 2 * m - 1
    BY <1>1, <1>2 DEF Nesting
  <2>2. Len(open') = 2 * m
    BY <1>3, <1>7, <2>1
  <2>3. Top' = call
    BY <1>6 DEF Top
  <2>4. \A k \in 1 .. m + 1 :
           /\ 2 * k - 1 <= Len(open') => open'[2 * k - 1] = Collection(calls'[k].rec)
           /\ 2 * k <= Len(open') => open'[2 * k] = Pends(calls'[k].rec)
    <3> SUFFICES ASSUME NEW k \in 1 .. m + 1
                 PROVE  /\ 2 * k - 1 <= Len(open') => open'[2 * k - 1] = Collection(calls'[k].rec)
                        /\ 2 * k <= Len(open') => open'[2 * k] = Pends(calls'[k].rec)
      OBVIOUS
    <3>1. CASE k = m + 1
      BY <1>3, <2>2, <3>1
    <3>2. CASE k = m
      <4>1. 2 * k - 1 \in 1 .. Len(open) /\ 2 * k = Len(open) + 1 /\ k \in 1 .. m
            /\ 2 * k - 1 <= Len(open)
        BY <1>3, <2>1, <3>2
      <4>2. open[2 * k - 1] = Collection(calls[k].rec)
        BY <1>1, <1>2, <4>1 DEF Nesting
      <4>3. Top.rec = calls'[k].rec
        BY <1>1, <1>6, <3>2, <4>1, TopCall
      <4> QED
        BY <1>6, <1>7, <4>1, <4>2, <4>3
    <3>3. CASE k < m
      <4>1. 2 * k - 1 \in 1 .. Len(open) /\ 2 * k \in 1 .. Len(open) /\ k \in 1 .. m
        BY <1>3, <2>1, <3>3
      <4>2. open[2 * k - 1] = Collection(calls[k].rec) /\ open[2 * k] = Pends(calls[k].rec)
        BY <1>1, <1>2, <4>1 DEF Nesting
      <4> QED
        BY <1>6, <1>7, <4>1, <4>2
    <3> QED
      BY <1>3, <3>1, <3>2, <3>3
  <2>5. \A k \in 2 .. m + 1 : calls'[k].owner = calls'[k - 1].rec
    <3> SUFFICES ASSUME NEW k \in 2 .. m + 1 PROVE calls'[k].owner = calls'[k - 1].rec
      OBVIOUS
    <3>1. CASE k = m + 1
      BY <1>1, <1>3, <1>4, <1>6, <3>1, TopCall
    <3>2. CASE k # m + 1
      <4>1. k \in 2 .. m /\ k \in 1 .. m /\ k - 1 \in 1 .. m
        BY <1>3, <3>2
      <4> QED
        BY <1>1, <1>2, <1>6, <4>1 DEF Nesting
    <3> QED
      BY <3>1, <3>2
  <2>6. calls'[1].owner = 0
    BY <1>1, <1>2, <1>3, <1>6 DEF Nesting
  <2> QED
    BY <1>3, <1>4, <1>6, <2>2, <2>3, <2>4, <2>5, <2>6 DEF Nesting
<1>13. WriteInduction'
  BY <1>1, <1>2, WritesLater, Typed DEF TypeOK
<1> QED
  BY <1>8, <1>9, <1>10, <1>11, <1>12, <1>13 DEF BlockInduction, ReadInduction

\* Between records a call returns to the record around it, whose pends it read.
LEMMA ReturnStep ==
    ASSUME BlockInduction, BetweenRecords, NEW rest \in Seq(Element), NEW still \in BOOLEAN,
           Return(rest, still), UNCHANGED writeVars,
           still => plain /\ open # <<>> /\ rest = SubSeq(open, 1, Len(open) - 1)
    PROVE  BlockInduction'
<1> DEFINE m == Len(calls)
<1>1. Reading /\ Top.rec = 0
  BY DEF BetweenRecords
<1>2. TypeOK /\ Waiting /\ Backwards /\ Nesting /\ Placed
  BY DEF BlockInduction, ReadInduction
<1>3. m \in Nat \ {0} /\ calls \in Seq(Call) /\ open \in Seq(Element) /\ Len(open) \in Nat
  BY <1>1, <1>2, TopCall, Typed
<1>4. CASE m = 1
  <2>1. EndReading("writing") /\ records' = records /\ "writing" \in Modes \ {"reading"}
    BY <1>4 DEF Return, AllRead, Modes
  <2> QED
    BY <1>1, <2>1, Ends
<1>5. CASE m # 1
  <2>1. calls' = SubSeq(calls, 1, m - 1) /\ open' = rest /\ plain' = still
        /\ UNCHANGED <<mode, records>>
    BY <1>5 DEF Return
  <2>2. m - 1 \in Nat \ {0} /\ m > 0
    BY <1>3, <1>5
  <2>3. calls' \in Seq(Call) /\ Len(calls') = m - 1
        /\ \A k \in 1 .. m - 1 : calls'[k] = calls[k]
    BY <1>3, <2>1, <2>2, Shortened
  <2>4. TypeOK'
    BY <1>2, <2>1, <2>3 DEF TypeOK, writeVars
  <2>5. Waiting' /\ Backwards'
    BY <1>1, <1>2, <2>1, <2>2, <2>3 DEF Waiting, Backwards, Reading
  <2>6. Placed'
    BY <1>1, <1>2, <2>1 DEF Placed, Reading
  <2>7. Nesting'
    <3> SUFFICES ASSUME still PROVE Nesting'
      BY <2>1 DEF Nesting
    <3>1. Len(open) = 2 * m - 2
      BY <1>1, <1>2 DEF Nesting
    <3>2. Len(open') = 2 * m - 3 /\ \A k \in 1 .. Len(open) - 1 : open'[k] = open[k]
      <4>1. Len(open) > 0 /\ open' = SubSeq(open, 1, Len(open) - 1)
        BY <1>3, <2>1, <2>2, <3>1
      <4>2. Len(open') = Len(open) - 1 /\ \A k \in 1 .. Len(open) - 1 : open'[k] = open[k]
        BY <1>3, <4>1, Shortened
      <4> QED
        BY <1>3, <3>1, <4>2
    <3>3. Top' = calls[m - 1] /\ Top'.rec # 0
      <4>1. Top' = calls'[Len(calls')]
        BY DEF Top
      <4>2. m - 1 \in 1 .. m - 1
        <5> HIDE DEF m
        <5> QED
          BY <1>3, <2>2
      <4> QED
        BY <1>1, <1>2, <2>3, <4>1, <4>2 DEF Waiting
    <3>4. \A k \in 1 .. m - 1 :
             /\ 2 * k - 1 <= Len(open') => open'[2 * k - 1] = Collection(calls'[k].rec)
             /\ 2 * k <= Len(open') => open'[2 * k] = Pends(calls'[k].rec)
      <4> SUFFICES ASSUME NEW k \in 1 .. m - 1
                   PROVE  /\ 2 * k - 1 <= Len(open') => open'[2 * k - 1] = Collection(calls'[k].rec)
                          /\ 2 * k <= Len(open') => open'[2 * k] = Pends(calls'[k].rec)
        OBVIOUS
      <4>1. k \in 1 .. m /\ 2 * k - 1 \in Int /\ 2 * k \in Int
        BY <1>3
      <4>2. /\ 2 * k - 1 <= Len(open) => open[2 * k - 1] = Collection(calls[k].rec)
            /\ 2 * k <= Len(open) => open[2 * k] = Pends(calls[k].rec)
        BY <1>1, <1>2, <4>1 DEF Nesting
      <4>3. /\ 2 * k - 1 <= Len(open') => 2 * k - 1 \in 1 .. Len(open) - 1
            /\ 2 * k <= Len(open') => 2 * k \in 1 .. Len(open) - 1
        BY <1>3, <3>1, <3>2
      <4>4. calls'[k] = calls[k]
        BY <2>3
      <4>5. /\ 2 * k - 1 <= Len(open') => open'[2 * k - 1] = open[2 * k - 1]
            /\ 2 * k <= Len(open') => open'[2 * k] = open[2 * k]
        BY <3>2, <4>3
      <4>6. /\ 2 * k - 1 <= Len(open') => 2 * k - 1 <= Len(open)
            /\ 2 * k <= Len(open') => 2 * k <= Len(open)
        BY <1>3, <3>1, <3>2, <4>1
      <4> QED
        BY <4>2, <4>4, <4>5, <4>6
    <3>5. \A k \in 2 .. m - 1 : calls'[k].owner = calls'[k - 1].rec
      <4> SUFFICES ASSUME NEW k \in 2 .. m - 1 PROVE calls'[k].owner = calls'[k - 1].rec
        OBVIOUS
      <4>1. k \in 2 .. m /\ k \in 1 .. m - 1 /\ k - 1 \in 1 .. m - 1
        BY <1>3
      <4> QED
        BY <1>1, <1>2, <2>3, <4>1 DEF Nesting
    <3>6. calls'[1].owner = 0
      BY <1>1, <1>2, <2>2, <2>3 DEF Nesting
    <3> QED
      BY <1>3, <2>3, <3>2, <3>3, <3>4, <3>5, <3>6 DEF Nesting
  <2>8. WriteInduction'
    BY <1>1, <1>2, <2>1, WritesLater, Typed DEF TypeOK
  <2> QED
    BY <2>4, <2>5, <2>6, <2>7, <2>8 DEF BlockInduction, ReadInduction
<1> QED
  BY <1>4, <1>5

\* An element without content returns as well.
LEMMA EmptyStep ==
    ASSUME BlockInduction, EmptyElement
    PROVE  BlockInduction'
<1>1. open \in Seq(Element)
  BY Typed DEF BlockInduction
<1> QED
  BY <1>1, ReturnStep DEF EmptyElement

LEMMA EndTagStep ==
    ASSUME BlockInduction, EndTag
    PROVE  BlockInduction'
<1> DEFINE m == Len(calls)
           tag == open[Len(open)].tag
           rest == SubSeq(open, 1, Len(open) - 1)
<1>1. Reading /\ open # <<>> /\ UNCHANGED writeVars
      /\ \/ Top.rec = 0 /\ Return(rest, plain)
         \/ Fail("rejected")
         \/ /\ Top.rec # 0 /\ (EndsRecord(tag) \/ ~TooMany)
            /\ open' = rest
            /\ calls' = IF EndsRecord(tag) THEN With("rec", 0) ELSE With("deps", Top.deps - 1)
            /\ UNCHANGED <<mode, plain, records>>
  BY DEF EndTag
<1>2. TypeOK /\ Waiting /\ Backwards /\ Nesting /\ Placed
  BY DEF BlockInduction, ReadInduction
<1>3. m \in Nat \ {0} /\ Len(open) \in Nat \ {0} /\ open \in Seq(Element)
  <2>1. m \in Nat /\ m > 0 /\ Len(open) \in Nat /\ open \in Seq(Element)
    BY <1>1, <1>2, TopCall, Typed
  <2>2. Len(open) # 0
    BY <1>1, <2>1, EmptySeq
  <2> QED
    BY <2>1, <2>2
<1>4. /\ rest \in Seq(Element) /\ Len(rest) = Len(open) - 1
      /\ \A k \in 1 .. Len(open) - 1 : rest[k] = open[k]
  <2>1. Len(open) > 0
    BY <1>3
  <2> QED
    BY <1>3, <2>1, Shortened
<1>5. CASE Top.rec = 0 /\ Return(rest, plain)
  <2>1. BetweenRecords
    BY <1>1, <1>5 DEF BetweenRecords
  <2>2. plain \in BOOLEAN
    BY <1>2 DEF TypeOK
  <2> QED
    BY <1>1, <1>4, <1>5, <2>1, <2>2, ReturnStep
<1>6. CASE Fail("rejected")
  <2>1. "rejected" \in Modes \ {"reading"}
    BY DEF Modes
  <2>2. EndReading("rejected") /\ records' \in {records, <<>>}
    BY <1>6 DEF Fail
  <2> QED
    BY <1>1, <2>1, <2>2, Ends
<1>7. CASE /\ Top.rec # 0 /\ (EndsRecord(tag) \/ ~TooMany)
           /\ open' = rest
           /\ calls' = IF EndsRecord(tag) THEN With("rec", 0) ELSE With("deps", Top.deps - 1)
           /\ UNCHANGED <<mode, plain, records>>
  <2> DEFINE call == IF EndsRecord(tag) THEN [Top EXCEPT !.rec = 0]
                     ELSE [Top EXCEPT !.deps = Top.deps - 1]
  <2>1. calls' = [calls EXCEPT ![m] = call]
    BY <1>7 DEF With, Top
  <2>2. call \in Call /\ call.owner = Top.owner
        /\ call.rec = (IF EndsRecord(tag) THEN 0 ELSE Top.rec)
    <3>1. CASE EndsRecord(tag)
      <4>1. 0 \in 0 .. MaxRecords
        BY Bounds
      <4> QED
        BY <1>1, <3>1, <4>1, TopCall DEF Call
    <3>2. CASE ~EndsRecord(tag)
      <4>1. Top.deps # 0 /\ Top.deps \in 0 .. MaxDeps
        BY <1>1, <1>7, <3>2, TopCall DEF TooMany
      <4>2. Top.deps - 1 \in 0 .. MaxDeps
        BY <4>1, Bounds
      <4> QED
        BY <1>1, <3>2, <4>2, TopCall DEF Call
    <3> QED
      BY <3>1, <3>2
  <2> HIDE DEF call
  <2>3. /\ calls' \in Seq(Call) /\ Len(calls') = m /\ calls'[m] = call
        /\ \A k \in 1 .. m - 1 : calls'[k] = calls[k]
    BY <1>1, <2>1, <2>2, Within
  <2>4. TypeOK'
    BY <1>1, <1>2, <1>4, <1>7, <2>3 DEF TypeOK, writeVars
  <2>5. \A k \in 1 .. m : calls'[k].owner = calls[k].owner
    <3> SUFFICES ASSUME NEW k \in 1 .. m PROVE calls'[k].owner = calls[k].owner
      OBVIOUS
    <3>1. CASE k = m
      BY <2>2, <2>3, <3>1 DEF Top
    <3>2. CASE k # m
      <4>1. k \in 1 .. m - 1
        BY <1>3, <3>2
      <4> QED
        BY <2>3, <4>1
    <3> QED
      BY <3>1, <3>2
  <2>6. Waiting'
    BY <1>1, <1>2, <1>3, <1>7, <2>3 DEF Waiting, Reading
  <2>7. Backwards'
    <3> SUFFICES ASSUME NEW k \in 1 .. m
                 PROVE  calls'[k].rec <= Len(records) /\ calls'[k].owner <= Len(records)
      BY <1>2, <1>7, <2>3 DEF Backwards
    <3>1. calls'[k].owner <= Len(records)
      BY <1>2, <2>5 DEF Backwards
    <3>2. calls'[k].rec <= Len(records)
      <4>1. CASE k = m
        <5>1. Top.rec \in 0 .. Len(records) /\ Len(records) \in 0 .. MaxRecords
          BY <1>1, <1>2, TopCall, Typed
        <5>2. 0 <= Len(records)
          BY <5>1, Bounds
        <5>3. calls'[k].rec \in {0, Top.rec}
          BY <2>2, <2>3, <4>1
        <5> QED
          BY <5>1, <5>2, <5>3
      <4>2. CASE k # m
        <5>1. k \in 1 .. m - 1
          BY <1>3, <4>2
        <5>2. calls'[k] = calls[k]
          BY <2>3, <5>1
        <5> QED
          BY <1>2, <5>2 DEF Backwards
      <4> QED
        BY <4>1, <4>2
    <3> QED
      BY <3>1, <3>2
  <2>8. Placed'
    BY <1>1, <1>2, <1>7 DEF Placed, Reading
  <2>9. Nesting'
    <3> SUFFICES ASSUME plain PROVE Nesting'
      BY <1>7 DEF Nesting
    <3>1. Len(open) = 2 * m - 1 /\ open[2 * m - 1] = Collection(calls[m].rec)
      <4>1. m \in 1 .. m /\ 2 * m - 1 <= 2 * m - 1
        BY <1>3
      <4>2. Len(open) = 2 * m - 1
        BY <1>1, <1>2, <1>7 DEF Nesting
      <4> QED
        BY <1>1, <1>2, <4>1, <4>2 DEF Nesting
    <3>2. EndsRecord(tag)
      BY <3>1 DEF EndsRecord, Collection
    <3>3. Len(open') = 2 * m - 2 /\ \A k \in 1 .. Len(open) - 1 : open'[k] = open[k]
      BY <1>3, <1>4, <1>7, <3>1
    <3>4. Top' = call /\ call.rec = 0
      <4>1. Top' = calls'[Len(calls')]
        BY DEF Top
      <4> QED
        BY <2>2, <2>3, <3>2, <4>1
    <3>5. \A k \in 1 .. m :
             /\ 2 * k - 1 <= Len(open') => open'[2 * k - 1] = Collection(calls'[k].rec)
             /\ 2 * k <= Len(open') => open'[2 * k] = Pends(calls'[k].rec)
      <4> SUFFICES ASSUME NEW k \in 1 .. m
                   PROVE  /\ 2 * k - 1 <= Len(open') => open'[2 * k - 1] = Collection(calls'[k].rec)
                          /\ 2 * k <= Len(open') => open'[2 * k] = Pends(calls'[k].rec)
        OBVIOUS
      <4> HIDE DEF m
      <4>1. CASE k = m
        BY <1>3, <3>3, <4>1
      <4>2. CASE k # m
        <5>1. k \in 1 .. m - 1 /\ 2 * k - 1 \in 1 .. Len(open) - 1 /\ 2 * k \in 1 .. Len(open) - 1
              /\ 2 * k - 1 <= Len(open) /\ 2 * k <= Len(open)
          BY <1>3, <3>1, <4>2
        <5> USE DEF m
        <5>2. open[2 * k - 1] = Collection(calls[k].rec) /\ open[2 * k] = Pends(calls[k].rec)
          BY <1>1, <1>2, <5>1 DEF Nesting
        <5> QED
          BY <2>3, <3>3, <5>1, <5>2
      <4> QED
        BY <4>1, <4>2
    <3>6. \A k \in 2 .. m : calls'[k].owner = calls'[k - 1].rec
      <4> SUFFICES ASSUME NEW k \in 2 .. m PROVE calls'[k].owner = calls'[k - 1].rec
        OBVIOUS
      <4>1. k \in 1 .. m /\ k - 1 \in 1 .. m - 1
        BY <1>3
      <4>2. calls[k].owner = calls[k - 1].rec
        BY <1>1, <1>2 DEF Nesting
      <4> QED
        BY <2>3, <2>5, <4>1, <4>2
    <3>7. calls'[1].owner = 0
      <4>1. 1 \in 1 .. m
        BY <1>3
      <4> QED
        BY <1>1, <1>2, <2>5, <4>1 DEF Nesting
    <3> QED
      BY <2>3, <3>3, <3>4, <3>5, <3>6, <3>7 DEF Nesting
  <2>10. records' \in Seq(Record) /\ Len(records') <= MaxRecords
    BY <1>2, <1>7 DEF TypeOK
  <2> QED
    BY <1>1, <2>4, <2>6, <2>7, <2>8, <2>9, <2>10, WritesLater DEF BlockInduction, ReadInduction
<1> QED
  BY <1>1, <1>5, <1>6, <1>7

LEMMA EndOfBlockStep ==
    ASSUME BlockInduction, EndOfBlock
    PROVE  BlockInduction'
<1>1. Reading /\ EndReading("writing") /\ records' = records /\ UNCHANGED writeVars
  BY DEF EndOfBlock, AllRead
<1>2. "writing" \in Modes \ {"reading"}
  BY DEF Modes
<1> QED
  BY <1>1, <1>2, Ends

LEMMA ReadStep ==
    ASSUME BlockInduction, Read
    PROVE  BlockInduction'
<1>1. CASE \E n \in Named, does \in Kinds : CollectionStart(n, does)
  BY <1>1, CollectionStep
<1>2. CASE \E keyed \in BOOLEAN : PendsStart(keyed)
  BY <1>2, PendsStep
<1>3. CASE \E tag \in {"collection", "other"} : OtherStart(tag)
  BY <1>3, OtherStep
<1> QED
  BY <1>1, <1>2, <1>3, FieldStep, Failing, DependStep, EndTagStep, EmptyStep,
     EndOfBlockStep DEF Read

-----------------------------------------------------------------------------
(* Writing *)

\* Where nothing is read, the calls and the nesting do not matter.
LEMMA NothingRead ==
    ASSUME BlockInduction, mode # "reading", mode' # "reading", UNCHANGED readVars
    PROVE  ReadInduction'
<1>1. Backwards /\ UNCHANGED <<calls, open, plain, records>>
  BY DEF BlockInduction, ReadInduction, readVars
<1>2. Backwards'
  BY <1>1 DEF Backwards
<1> QED
  BY <1>2 DEF ReadInduction, Waiting, Nesting, Placed, Reading

\* The record that is to be written.
LEMMA Current ==
    ASSUME BlockInduction, mode = "writing", at <= Len(records)
    PROVE  /\ at \in 1 .. Len(records) /\ at \in 1 .. MaxRecords
           /\ Len(records) \in Nat /\ Len(records) <= MaxRecords
           /\ Now = records[at] /\ Now \in Record /\ Now.owner \in 0 .. at - 1
           /\ \A i \in 1 .. Len(records) : i \in 1 .. MaxRecords /\ records[i].owner \in 0 .. i - 1
           /\ \A j \in 1 .. MaxRecords : j > at \/ (j = at /\ part = "next") => wrote[j] = 0
           /\ wrote \in [1 .. MaxRecords -> 0 .. MaxRow]
<1>1. TypeOK /\ Backwards /\ InOrder
  BY DEF BlockInduction, ReadInduction, WriteInduction
<1>2. at \in 1 .. MaxRecords + 1 /\ wrote \in [1 .. MaxRecords -> 0 .. MaxRow]
  BY <1>1 DEF TypeOK
<1>3. Len(records) \in Nat /\ Len(records) <= MaxRecords /\ MaxRecords \in Nat
  BY <1>1, Typed, Bounds
<1>4. at \in 1 .. Len(records) /\ at \in 1 .. MaxRecords
  BY <1>2, <1>3
<1>5. \A i \in 1 .. Len(records) : i \in 1 .. MaxRecords /\ records[i].owner \in 0 .. i - 1
  <2> SUFFICES ASSUME NEW i \in 1 .. Len(records)
               PROVE  i \in 1 .. MaxRecords /\ records[i].owner \in 0 .. i - 1
    OBVIOUS
  <2>1. records[i] \in Record /\ records[i].owner < i
    BY <1>1, Typed DEF Backwards
  <2>2. records[i].owner \in 0 .. MaxRecords
    BY <2>1 DEF Record
  <2> QED
    BY <1>3, <2>1, <2>2
<1>6. Now = records[at] /\ Now \in Record
  BY <1>1, <1>4, Typed DEF Now
<1>7. \A j \in 1 .. MaxRecords : j > at \/ (j = at /\ part = "next") => wrote[j] = 0
  BY <1>1 DEF InOrder
<1> QED
  BY <1>2, <1>3, <1>4, <1>5, <1>6, <1>7

\* The record that is being written.
LEMMA Underway ==
    ASSUME BlockInduction, part # "next"
    PROVE  /\ mode = "writing" /\ at <= Len(records) /\ at \in 1 .. Len(records)
           /\ wrote[at] \in Rows /\ left \subseteq Declared(at)
           /\ part = "written" => ~Inherits(at) /\ left = {}
           /\ Declared(at) \subseteq Rows \cup Dependable
<1>1. /\ mode = "writing" /\ at <= Len(records) /\ wrote[at] # 0
      /\ left \subseteq Declared(at)
      /\ part = "written" => ~Inherits(at) /\ left = {}
  BY DEF BlockInduction, WriteInduction, Midway
<1>2. /\ at \in 1 .. Len(records) /\ at \in 1 .. MaxRecords
      /\ records[at] \in Record /\ records[at].owner \in 0 .. at - 1
      /\ wrote \in [1 .. MaxRecords -> 0 .. MaxRow]
  BY <1>1, Current
<1>3. wrote[at] \in Rows
  BY <1>1, <1>2, Bounds DEF Rows
<1>4. records[at].depends \subseteq Dependable
  BY <1>2 DEF Record
<1>5. ASSUME records[at].owner # 0
      PROVE  wrote[records[at].owner] \in Rows
  <2>1. records[at].owner \in 1 .. MaxRecords
    BY <1>2, <1>5, Bounds
  <2>2. wrote[records[at].owner] # 0
    BY <1>1, <1>2, <1>5 DEF BlockInduction, WriteInduction, InOrder
  <2> QED
    BY <1>2, <2>1, <2>2, Bounds DEF Rows
<1>6. Declared(at) \subseteq Rows \cup Dependable
  BY <1>4, <1>5 DEF Declared
<1> QED
  BY <1>1, <1>2, <1>3, <1>6

\* The dependencies of a record that is reached are rows, or those the block names.
LEMMA DeclaredTyped ==
    ASSUME BlockInduction, Writing, Reached
    PROVE  Declared(at) \subseteq Rows \cup Dependable
<1>1. /\ at \in 1 .. MaxRecords /\ Now = records[at]
      /\ records[at] \in Record /\ records[at].owner \in 0 .. at - 1
      /\ wrote \in [1 .. MaxRecords -> 0 .. MaxRow]
  BY Current DEF Writing
<1>2. records[at].depends \subseteq Dependable
  BY <1>1 DEF Record
<1>3. ASSUME records[at].owner # 0
      PROVE  wrote[records[at].owner] \in Rows
  <2>1. records[at].owner \in 1 .. MaxRecords
    BY <1>1, <1>3, Bounds
  <2>2. wrote[records[at].owner] # 0
    BY <1>1, <1>3 DEF Reached
  <2> QED
    BY <1>1, <2>1, <2>2, Bounds DEF Rows
<1> QED
  BY <1>2, <1>3 DEF Declared

\* What a record declares was settled before it.
LEMMA DeclaredBefore ==
    ASSUME BlockInduction, mode = "writing", at <= Len(records), records' = records,
           \A j \in 1 .. MaxRecords : j # at => wrote'[j] = wrote[j]
    PROVE  \A i \in 1 .. at : Declared(i)' = Declared(i)
<1>1. /\ at \in 1 .. Len(records) /\ Len(records) \in Nat
      /\ \A i \in 1 .. Len(records) : i \in 1 .. MaxRecords /\ records[i].owner \in 0 .. i - 1
  BY Current
<1> SUFFICES ASSUME NEW i \in 1 .. at PROVE Declared(i)' = Declared(i)
  OBVIOUS
<1>2. CASE records[i].owner = 0
  BY <1>2 DEF Declared
<1>3. CASE records[i].owner # 0
  <2>1. i \in 1 .. Len(records) /\ records[i].owner \in 0 .. i - 1 /\ i \in 1 .. MaxRecords
    BY <1>1
  <2>2. records[i].owner \in 1 .. MaxRecords /\ records[i].owner # at
    BY <1>1, <1>3, <2>1, Bounds
  <2>3. wrote'[records[i].owner] = wrote[records[i].owner]
    BY <2>2
  <2> QED
    BY <2>3 DEF Declared
<1> QED
  BY <1>2, <1>3

\* Records are linked in their order.
LEMMA LinkedBefore ==
    ASSUME BlockInduction, mode = "writing", at <= Len(records),
           NEW i \in 1 .. Len(records), Linked(i)
    PROVE  /\ i \in 1 .. at /\ i \in 1 .. MaxRecords /\ wrote[i] # 0
           /\ i = at => part = "linking"
<1>1. /\ at \in 1 .. Len(records) /\ Len(records) \in Nat /\ i \in 1 .. MaxRecords
      /\ \A j \in 1 .. MaxRecords : j > at \/ (j = at /\ part = "next") => wrote[j] = 0
  BY Current
<1>2. wrote[i] # 0 /\ (i < at \/ part = "linking")
  BY DEF Linked
<1> QED
  BY <1>1, <1>2

\* A step that ends the turn of a record: it was linked, or it is not written and
\* rows may have been deleted, with their relations.
LEMMA TurnEnds ==
    ASSUME BlockInduction, mode = "writing", at <= Len(records), Step, wrote' = wrote,
           \/ part = "next"
           \/ part = "linking" /\ left = {} /\ (Now.owner = 0 => wrote[at] \in told'),
           told \subseteq told', told' \subseteq Rows,
           NEW gone \in SUBSET Rows, rows' = rows \ gone, deleted' = deleted \cup gone,
           relation' = {p \in relation : p[1] \notin gone /\ p[2] \notin gone}
    PROVE  BlockInduction'
<1>1. TypeOK /\ InOrder /\ Midway /\ Told /\ Known /\ EachDeclared
  BY DEF BlockInduction, WriteInduction
<1>2. UNCHANGED <<mode, calls, open, plain, records, wrote>> /\ at' = at + 1
      /\ part' = "next" /\ left' = {}
  BY DEF Step, readVars
<1>3. /\ at \in 1 .. Len(records) /\ at \in 1 .. MaxRecords
      /\ Len(records) \in Nat /\ Len(records) <= MaxRecords /\ Now = records[at]
      /\ \A j \in 1 .. MaxRecords : j > at \/ (j = at /\ part = "next") => wrote[j] = 0
  BY Current
<1>4. left = {}
  BY <1>1 DEF Midway
<1>5. TypeOK'
  <2>1. at' \in 1 .. MaxRecords + 1
    BY <1>2, <1>3, Bounds
  <2> QED
    BY <1>1, <1>2, <2>1 DEF TypeOK
<1>6. ReadInduction'
  BY <1>2, NothingRead DEF Step
<1>7. InOrder' /\ Midway'
  <2>1. \A j \in 1 .. MaxRecords : j >= at + 1 => j > at
    BY <1>3
  <2> QED
    BY <1>1, <1>2, <1>3, <2>1 DEF InOrder, Midway, Reading
<1>8. Told'
  <2> SUFFICES ASSUME NEW i \in 1 .. Len(records), i < at + 1, wrote[i] # 0,
                      records[i].owner = 0
               PROVE  wrote[i] \in told'
    BY <1>2 DEF Told
  <2>1. CASE i = at
    BY <1>3, <2>1
  <2>2. CASE i # at
    BY <1>1, <1>3, <2>2 DEF Told
  <2> QED
    BY <2>1, <2>2
<1>9. Known'
  BY <1>1, <1>2 DEF Known, Declared
<1>10. \A i \in 1 .. Len(records) : Linked(i)' <=> Linked(i)
  <2> SUFFICES ASSUME NEW i \in 1 .. Len(records), wrote[i] # 0
               PROVE  i < at + 1 <=> (i < at \/ part = "linking")
    BY <1>2 DEF Linked, Inherits
  <2>1. i \in 1 .. MaxRecords /\ i <= at /\ ~(i = at /\ part = "next")
    BY <1>3, Bounds
  <2> QED
    BY <1>3, <2>1
<1>11. EachDeclared'
  <2> SUFFICES ASSUME NEW i \in 1 .. Len(records), LinkedLast(i)'
               PROVE  AsDeclared(i)'
    BY <1>2 DEF EachDeclared
  <2>1. LinkedLast(i)
    <3> SUFFICES Linked(i) /\ \A j \in i + 1 .. Len(records) : Linked(j) => wrote[j] # wrote[i]
      BY DEF LinkedLast
    <3>1. Linked(i)' /\ \A j \in i + 1 .. Len(records) : Linked(j)' => wrote[j] # wrote[i]
      BY <1>2 DEF LinkedLast
    <3>2. \A j \in i + 1 .. Len(records) : j \in 1 .. Len(records)
      BY <1>3
    <3> QED
      BY <1>10, <3>1, <3>2
  <2>2. AsDeclared(i) /\ Pending(i) = {} /\ Pending(i)' = {}
    BY <1>1, <1>2, <1>4, <2>1 DEF EachDeclared, Pending
  <2>3. LinksOf(wrote[i])' \subseteq LinksOf(wrote[i])
    BY <1>2 DEF LinksOf
  <2>4. wrote[i] \notin gone => LinksOf(wrote[i]) \ gone \subseteq LinksOf(wrote[i])'
    <3> SUFFICES ASSUME wrote[i] \notin gone, NEW p \in relation, p[1] = wrote[i], p[2] \notin gone
                 PROVE  p[2] \in LinksOf(wrote[i])'
      BY DEF LinksOf
    <3>1. p \in relation' /\ p[1] = wrote'[i]
      BY <1>2
    <3> QED
      BY <3>1 DEF LinksOf
  <2>5. Declared(i)' = Declared(i)
    BY <1>2 DEF Declared
  <2> QED
    BY <1>2, <2>2, <2>3, <2>4, <2>5 DEF AsDeclared
<1> QED
  BY <1>5, <1>6, <1>7, <1>8, <1>9, <1>11 DEF BlockInduction, WriteInduction

\* A record gets its row, before any relation changes; it counts as linked at once
\* when it is inserted.
LEMMA Begun ==
    ASSUME BlockInduction, Writing, Reached, NEW row \in Rows, Puts(row),
           rows' \subseteq Rows, left' \subseteq Declared(at),
           \/ part' = "written" /\ ~Inherits(at) /\ left' = {}
           \/ part' = "linking" /\ Inherits(at) /\ left' = {}
           \/ part' = "linking" /\ Now.row = 0 /\ left' = Declared(at)
    PROVE  BlockInduction'
<1>1. TypeOK /\ InOrder /\ Midway /\ Told /\ Known /\ EachDeclared
  BY DEF BlockInduction, WriteInduction
<1>2. UNCHANGED <<mode, calls, open, plain, records, at, relation, told, deleted>>
      /\ wrote' = [wrote EXCEPT ![at] = row]
  BY DEF Puts, readVars
<1>3. /\ mode = "writing" /\ at <= Len(records) /\ part = "next" /\ left = {}
      /\ at \in 1 .. Len(records) /\ at \in 1 .. MaxRecords
      /\ Len(records) \in Nat /\ Len(records) <= MaxRecords
      /\ Now = records[at]
      /\ \A i \in 1 .. Len(records) : i \in 1 .. MaxRecords /\ records[i].owner \in 0 .. i - 1
      /\ \A j \in 1 .. MaxRecords : j > at \/ j = at => wrote[j] = 0
      /\ wrote \in [1 .. MaxRecords -> 0 .. MaxRow]
  BY <1>1, Current DEF Writing, Midway
<1>4. row # 0 /\ row \in 0 .. MaxRow
  BY Bounds DEF Rows
<1>5. wrote' \in [1 .. MaxRecords -> 0 .. MaxRow] /\ wrote'[at] = row /\ wrote[at] = 0
      /\ \A j \in 1 .. MaxRecords : j # at => wrote'[j] = wrote[j]
  BY <1>2, <1>3, <1>4
<1>6. TypeOK'
  <2>1. Declared(at) \subseteq Rows \cup Dependable
    BY DeclaredTyped
  <2> QED
    BY <1>1, <1>2, <1>5, <2>1 DEF TypeOK
<1>7. ReadInduction'
  BY <1>2, <1>3, NothingRead DEF Puts
<1>8. \A i \in 1 .. at : Declared(i)' = Declared(i)
  BY <1>2, <1>3, <1>5, DeclaredBefore
<1>9. InOrder'
  <2>1. \A j \in 1 .. MaxRecords : j > at' \/ (j = at' /\ part' = "next") => wrote'[j] = 0
    <3> SUFFICES ASSUME NEW j \in 1 .. MaxRecords, j > at PROVE wrote'[j] = 0
      BY <1>2
    <3> QED
      BY <1>3, <1>5
  <2>2. \A i \in 1 .. Len(records) :
           wrote'[i] # 0 /\ records[i].owner # 0 => wrote'[records[i].owner] # 0
    <3> SUFFICES ASSUME NEW i \in 1 .. Len(records), wrote'[i] # 0, records[i].owner # 0
                 PROVE  wrote'[records[i].owner] # 0
      OBVIOUS
    <3>1. wrote[records[i].owner] # 0
      BY <1>1, <1>3, <1>5 DEF InOrder, Reached
    <3>2. records[i].owner \in 1 .. MaxRecords
      <4>1. i \in 1 .. MaxRecords /\ records[i].owner \in 0 .. i - 1
        BY <1>3
      <4> QED
        BY <4>1, Bounds
    <3> QED
      BY <1>4, <1>5, <3>1, <3>2
  <2>3. ~Reading'
    BY <1>2, <1>3 DEF Reading
  <2> QED
    BY <1>2, <2>1, <2>2, <2>3 DEF InOrder
<1>10. Midway'
  <2>1. Declared(at)' = Declared(at) /\ Inherits(at)' = Inherits(at)
    BY <1>2, <1>3, <1>8 DEF Inherits
  <2> QED
    BY <1>2, <1>3, <1>4, <1>5, <2>1 DEF Midway
<1>11. Told'
  <2> SUFFICES ASSUME NEW i \in 1 .. Len(records), i < at, wrote'[i] # 0, records[i].owner = 0
               PROVE  wrote'[i] \in told
    BY <1>2 DEF Told
  <2>1. wrote'[i] = wrote[i]
    BY <1>3, <1>5
  <2> QED
    BY <1>1, <2>1 DEF Told
<1>12. Known'
  <2> SUFFICES ASSUME NEW p \in relation, p \notin OldRelation
               PROVE  \E i \in 1 .. Len(records) : wrote'[i] = p[1] /\ p[2] \in Declared(i)'
    BY <1>2 DEF Known
  <2>1. PICK i \in 1 .. Len(records) : wrote[i] = p[1] /\ p[2] \in Declared(i)
    BY <1>1 DEF Known
  <2>2. p[1] # 0
    BY <1>1, Bounds DEF TypeOK, Rows
  <2>3. i \in 1 .. MaxRecords /\ i \in 1 .. at /\ i # at
    BY <1>3, <2>1, <2>2
  <2> QED
    BY <1>5, <1>8, <2>1, <2>3
<1>13. EachDeclared'
  <2> SUFFICES ASSUME NEW i \in 1 .. Len(records), LinkedLast(i)'
               PROVE  AsDeclared(i)'
    BY <1>2 DEF EachDeclared
  <2>1. CASE i = at
    <3>1. part' = "linking" /\ ~Inherits(at)
      BY <1>2, <1>3, <2>1 DEF LinkedLast, Linked, Inherits
    <3>2. records[i].row = 0 /\ Pending(i)' = Declared(i)'
      BY <1>2, <1>3, <1>8, <2>1, <3>1 DEF Pending
    <3> QED
      BY <1>2, <3>2 DEF AsDeclared
  <2>2. CASE i # at
    <3>1. Linked(i)' /\ \A j \in i + 1 .. Len(records) : Linked(j)' => wrote'[j] # wrote'[i]
      BY <1>2 DEF LinkedLast
    <3>2. i \in 1 .. MaxRecords /\ wrote'[i] = wrote[i] /\ wrote[i] # 0 /\ i < at
      BY <1>3, <1>5, <2>2, <3>1 DEF Linked
    <3>3. Linked(i)
      BY <1>2, <3>1, <3>2 DEF Linked, Inherits
    <3>4. ASSUME NEW j \in i + 1 .. Len(records), Linked(j)
          PROVE  wrote[j] # wrote[i]
      <4>1. j \in 1 .. Len(records)
        BY <1>3
      <4>2. j \in 1 .. MaxRecords /\ j < at
        BY <1>3, <3>4, <4>1, LinkedBefore
      <4>3. Linked(j)' /\ wrote'[j] = wrote[j]
        BY <1>2, <1>3, <1>5, <3>4, <4>2 DEF Linked, Inherits
      <4> QED
        BY <3>1, <3>2, <4>3
    <3>5. AsDeclared(i)
      BY <1>1, <3>3, <3>4 DEF EachDeclared, LinkedLast
    <3>6. Declared(i)' = Declared(i) /\ Pending(i)' = {} /\ Pending(i) = {}
      BY <1>2, <1>3, <1>8, <2>2, <3>2 DEF Pending
    <3>7. LinksOf(wrote[i])' = LinksOf(wrote[i])
      BY <1>2, <3>2 DEF LinksOf
    <3> QED
      BY <1>2, <3>2, <3>5, <3>6, <3>7 DEF AsDeclared
  <2> QED
    BY <2>1, <2>2
<1> QED
  BY <1>6, <1>7, <1>9, <1>10, <1>11, <1>12, <1>13 DEF BlockInduction, WriteInduction

\* A record that is being written: the relations of other rows stay.
LEMMA Links ==
    ASSUME BlockInduction, part # "next", part' = "linking",
           UNCHANGED <<mode, readVars, at, wrote, rows, told, deleted>>,
           left' \subseteq Declared(at), ~Inherits(at),
           relation' \subseteq Rows \X (Rows \cup Dependable), Known',
           \A p \in relation \cup relation' :
              p[1] # wrote[at] => (p \in relation <=> p \in relation'),
           LinkedLast(at)' => AsDeclared(at)'
    PROVE  BlockInduction'
<1>1. TypeOK /\ InOrder /\ Told /\ EachDeclared
  BY DEF BlockInduction, WriteInduction
<1>2. UNCHANGED <<mode, calls, open, plain, records, at, wrote, rows, told, deleted>>
  BY DEF readVars
<1>3. /\ mode = "writing" /\ at <= Len(records) /\ at \in 1 .. Len(records)
      /\ wrote[at] \in Rows /\ Declared(at) \subseteq Rows \cup Dependable
  BY Underway
<1>4. /\ Len(records) \in Nat
      /\ \A j \in 1 .. MaxRecords : j > at => wrote[j] = 0
      /\ \A i \in 1 .. Len(records) : i \in 1 .. MaxRecords
  BY <1>3, Current
<1>5. TypeOK'
  BY <1>1, <1>2, <1>3 DEF TypeOK
<1>6. ReadInduction'
  BY <1>2, <1>3, NothingRead
<1>7. InOrder'
  BY <1>1, <1>2, <1>3 DEF InOrder, Reading
<1>8. \A i \in 1 .. Len(records) : Declared(i)' = Declared(i) /\ (Inherits(i)' <=> Inherits(i))
  BY <1>2 DEF Declared, Inherits
<1>9. Midway'
  BY <1>2, <1>3, <1>8, Bounds DEF Midway, Rows
<1>10. Told'
  BY <1>1, <1>2 DEF Told
<1>11. EachDeclared'
  <2> SUFFICES ASSUME NEW i \in 1 .. Len(records), LinkedLast(i)', i # at
               PROVE  AsDeclared(i)'
    BY <1>2 DEF EachDeclared
  <2>1. Linked(i)' /\ \A j \in i + 1 .. Len(records) : Linked(j)' => wrote[j] # wrote[i]
    BY <1>2 DEF LinkedLast
  <2>2. i < at /\ wrote[i] # 0
    <3>1. wrote'[i] # 0
      BY <2>1 DEF Linked
    <3>2. wrote[i] # 0
      BY <1>2, <3>1
    <3>3. i \in 1 .. MaxRecords
      BY <1>4
    <3>4. ~(i > at)
      BY <1>4, <3>2, <3>3
    <3> QED
      BY <1>3, <1>4, <3>2, <3>3, <3>4, Bounds
  <2>3. Linked(i)
    BY <1>2, <2>1, <2>2 DEF Linked, Inherits
  <2>4. Linked(at)' /\ at \in i + 1 .. Len(records)
    BY <1>2, <1>3, <1>4, <2>2, Bounds DEF Linked, Inherits, Rows
  <2>5. wrote[at] # wrote[i]
    BY <2>1, <2>4
  <2>6. ASSUME NEW j \in i + 1 .. Len(records), Linked(j)
        PROVE  wrote[j] # wrote[i]
    <3>1. Linked(j)'
      BY <1>2, <2>6 DEF Linked, Inherits
    <3> QED
      BY <2>1, <3>1
  <2>7. AsDeclared(i)
    BY <1>1, <2>3, <2>6 DEF EachDeclared, LinkedLast
  <2>8. LinksOf(wrote[i])' = LinksOf(wrote[i])
    <3>1. {q \in relation' : q[1] = wrote[i]} = {q \in relation : q[1] = wrote[i]}
      BY <2>5
    <3> QED
      BY <1>2, <3>1 DEF LinksOf
  <2>9. Pending(i)' = {} /\ Pending(i) = {}
    BY <1>2 DEF Pending
  <2> QED
    BY <1>2, <1>8, <2>7, <2>8, <2>9 DEF AsDeclared
<1> QED
  BY <1>5, <1>6, <1>7, <1>9, <1>10, <1>11 DEF BlockInduction, WriteInduction

LEMMA PassStep ==
    ASSUME BlockInduction, PassOver
    PROVE  BlockInduction'
<1>1. Writing /\ Step /\ UNCHANGED <<wrote, rows, relation, told, deleted>>
  BY DEF PassOver
<1>2. {} \in SUBSET Rows /\ rows' = rows \ {} /\ deleted' = deleted \cup {}
      /\ relation' = {p \in relation : p[1] \notin {} /\ p[2] \notin {}}
  BY <1>1
<1>3. told' = told /\ told \subseteq Rows
  BY <1>1 DEF BlockInduction, TypeOK
<1> QED
  BY <1>1, <1>2, <1>3, TurnEnds DEF Writing

LEMMA PushStep ==
    ASSUME BlockInduction, Push
    PROVE  BlockInduction'
<1>1. part = "linking" /\ left = {} /\ Step /\ UNCHANGED <<wrote, rows, relation, deleted>>
      /\ told' = IF Now.owner = 0 THEN told \cup {wrote[at]} ELSE told
  BY DEF Push
<1>2. {} \in SUBSET Rows /\ rows' = rows \ {} /\ deleted' = deleted \cup {}
      /\ relation' = {p \in relation : p[1] \notin {} /\ p[2] \notin {}}
  BY <1>1
<1>3. mode = "writing" /\ at <= Len(records) /\ wrote[at] \in Rows
  BY <1>1, Underway
<1>4. told \subseteq told' /\ told' \subseteq Rows
  BY <1>1, <1>3 DEF BlockInduction, TypeOK
<1> QED
  BY <1>1, <1>2, <1>3, <1>4, TurnEnds

LEMMA DeleteStep ==
    ASSUME BlockInduction, Delete
    PROVE  BlockInduction'
<1>1. PICK also \in SUBSET {p[1] : p \in {q \in relation : q[2] = Now.row}} :
         /\ rows' = rows \ (also \cup {Now.row})
         /\ relation' = {p \in relation :
               p[1] \notin also \cup {Now.row} /\ p[2] \notin also \cup {Now.row}}
         /\ deleted' = deleted \cup (also \cup {Now.row})
  BY DEF Delete
<1>2. Writing /\ Step /\ UNCHANGED <<wrote, told>> /\ Now.row \in Rows
  BY DEF Delete
<1>3. also \cup {Now.row} \in SUBSET Rows /\ told \subseteq Rows
  <2>1. relation \subseteq Rows \X (Rows \cup Dependable) /\ told \subseteq Rows
    BY DEF BlockInduction, TypeOK
  <2> QED
    BY <1>2, <2>1
<1> QED
  BY <1>1, <1>2, <1>3, TurnEnds DEF Writing

LEMMA OverwriteStep ==
    ASSUME BlockInduction, Overwrite
    PROVE  BlockInduction'
<1>1. /\ Writing /\ Reached /\ Now.row \in Rows /\ Puts(Now.row)
      /\ rows' \in {rows, rows \cup {Now.row}} /\ left' = {}
      /\ part' = IF Inherits(at) THEN "linking" ELSE "written"
  BY DEF Overwrite, Writable
<1>2. rows' \subseteq Rows
  BY <1>1 DEF BlockInduction, TypeOK
<1> QED
  BY <1>1, <1>2, Begun

LEMMA InsertStep ==
    ASSUME BlockInduction, Insert
    PROVE  BlockInduction'
<1>1. PICK row \in Rows \ rows : Puts(row) /\ rows' = rows \cup {row}
  BY DEF Insert
<1>2. Writing /\ Reached /\ Now.row = 0 /\ part' = "linking" /\ left' = Declared(at)
  BY DEF Insert, Writable
<1>3. rows' \subseteq Rows
  BY <1>1 DEF BlockInduction, TypeOK
<1> QED
  BY <1>1, <1>2, <1>3, Begun

LEMMA UnlinkStep ==
    ASSUME BlockInduction, Unlink
    PROVE  BlockInduction'
<1>1. /\ part = "written" /\ relation' = {p \in relation : p[1] # wrote[at]}
      /\ part' = "linking" /\ left' = Declared(at)
      /\ UNCHANGED <<mode, readVars, at, wrote, rows, told, deleted>>
  BY DEF Unlink, Unlinked
<1>2. ~Inherits(at)
  BY <1>1, Underway
<1>3. relation' \subseteq Rows \X (Rows \cup Dependable) /\ Known'
  BY <1>1 DEF BlockInduction, TypeOK, WriteInduction, Known, Declared, readVars
<1>4. LinksOf(wrote[at])' = {}
  BY <1>1 DEF LinksOf
<1>5. Declared(at)' = Declared(at) /\ Pending(at)' = Declared(at)
  BY <1>1 DEF Pending, Declared, readVars
<1>6. AsDeclared(at)'
  BY <1>1, <1>4, <1>5 DEF AsDeclared
<1> QED
  BY <1>1, <1>2, <1>3, <1>6, Links

LEMMA RegisterStep ==
    ASSUME BlockInduction, Register
    PROVE  BlockInduction'
<1>1. /\ part = "linking" /\ part' = "linking"
      /\ UNCHANGED <<mode, readVars, at, wrote, rows, told, deleted>>
  BY DEF Register
<1>2. PICK d \in left : /\ relation' = relation \cup {<<wrote[at], d>>}
                        /\ left' = left \ {d}
  BY DEF Register
<1>3. /\ wrote[at] \in Rows /\ left \subseteq Declared(at) /\ at \in 1 .. Len(records)
      /\ Declared(at) \subseteq Rows \cup Dependable
  BY <1>1, Underway
<1>4. d \in Declared(at)
  BY <1>2, <1>3
<1>5. ~Inherits(at)
  BY <1>4 DEF Inherits, Declared
<1>6. relation' \subseteq Rows \X (Rows \cup Dependable)
  BY <1>2, <1>3, <1>4 DEF BlockInduction, TypeOK
<1>7. \A i : Declared(i)' = Declared(i)
  BY <1>1 DEF Declared, readVars
<1>8. Known'
  <2> DEFINE new == <<wrote[at], d>>
  <2>1. new[1] = wrote[at] /\ new[2] = d
    OBVIOUS
  <2> HIDE DEF new
  <2>2. relation' = relation \cup {new} /\ records' = records /\ wrote' = wrote
    BY <1>1, <1>2 DEF new, readVars
  <2>3. Known
    BY DEF BlockInduction, WriteInduction
  <2> QED
    BY <1>3, <1>4, <1>7, <2>1, <2>2, <2>3 DEF Known
<1>9. \A p \in relation \cup relation' :
         p[1] # wrote[at] => (p \in relation <=> p \in relation')
  BY <1>2
<1>10. ASSUME LinkedLast(at)'
       PROVE  AsDeclared(at)'
  <2>1. LinkedLast(at)
    BY <1>1, <1>10 DEF LinkedLast, Linked, Inherits, readVars
  <2>2. AsDeclared(at)
    BY <1>3, <2>1 DEF BlockInduction, WriteInduction, EachDeclared
  <2>3. Pending(at) = left /\ Pending(at)' = left \ {d}
    BY <1>1, <1>2 DEF Pending
  <2>4. LinksOf(wrote[at])' = LinksOf(wrote[at]) \cup {d}
    <3> DEFINE new == <<wrote[at], d>>
    <3>1. new[1] = wrote[at] /\ new[2] = d
      OBVIOUS
    <3> HIDE DEF new
    <3>2. relation' = relation \cup {new} /\ wrote'[at'] = wrote[at]
      BY <1>1, <1>2 DEF new
    <3>3. {q \in relation' : q[1] = wrote[at]} = {q \in relation : q[1] = wrote[at]} \cup {new}
      BY <3>1, <3>2
    <3> QED
      BY <3>1, <3>2, <3>3 DEF LinksOf
  <2>5. /\ (Declared(at) \ Pending(at)) \cup {d} = Declared(at) \ Pending(at)'
        /\ Declared(at)' = Declared(at) /\ records'[at'] = records[at]
        /\ wrote'[at'] = wrote[at] /\ deleted' = deleted
    BY <1>1, <1>2, <1>4, <2>3 DEF Declared, readVars
  <2> QED
    BY <2>2, <2>4, <2>5 DEF AsDeclared
<1> QED
  BY <1>1, <1>2, <1>3, <1>5, <1>6, <1>8, <1>9, <1>10, Links

\* The block is handed over, done, or where the code does not expect it.
LEMMA StopStep ==
    ASSUME BlockInduction, HandOver \/ DeleteInPends \/ Written
    PROVE  BlockInduction'
<1>1. mode = "writing" /\ mode' \in {"done", "unreachable"}
      /\ UNCHANGED readVars /\ UNCHANGED writeVars
  BY DEF HandOver, DeleteInPends, Written, Writing
<1>2. part = "next"
  <2>1. Len(records) \in Nat /\ at \in Nat
    BY Typed, Bounds DEF BlockInduction, TypeOK
  <2> QED
    BY <2>1 DEF HandOver, DeleteInPends, Written, Writing, BlockInduction, WriteInduction, Midway
<1>3. ReadInduction'
  BY <1>1, NothingRead
<1>4. TypeOK'
  BY <1>1 DEF BlockInduction, TypeOK, Modes, readVars, writeVars
<1>5. InOrder' /\ Midway' /\ Told' /\ Known'
  BY <1>1, <1>2 DEF BlockInduction, WriteInduction, InOrder, Midway, Told, Known, Declared,
     Reading, readVars, writeVars
<1>6. EachDeclared'
  BY <1>1 DEF BlockInduction, WriteInduction, EachDeclared, LinkedLast, Linked, AsDeclared,
     Pending, LinksOf, Inherits, Declared, readVars, writeVars
<1> QED
  BY <1>3, <1>4, <1>5, <1>6 DEF BlockInduction, WriteInduction

LEMMA WriteStep ==
    ASSUME BlockInduction, Write
    PROVE  BlockInduction'
  BY StopStep, PassStep, OverwriteStep, InsertStep, UnlinkStep, RegisterStep, PushStep,
     DeleteStep DEF Write

-----------------------------------------------------------------------------
(* The theorems *)

LEMMA Begins == Init => BlockInduction
<1> SUFFICES ASSUME Init PROVE BlockInduction
  OBVIOUS
<1> DEFINE call == [owner |-> 0, rec |-> 0, deps |-> 0, keyed |-> TRUE]
<1>1. /\ mode = "reading" /\ calls = <<call>> /\ open = <<>> /\ plain = TRUE
      /\ records = <<>> /\ at = 1 /\ wrote = [i \in 1 .. MaxRecords |-> 0]
      /\ part = "next" /\ left = {}
      /\ rows = OldRows /\ relation = OldRelation /\ told = {} /\ deleted = {}
  BY DEF Init
<1>2. call \in Call /\ call.rec = 0 /\ call.owner = 0
  <2>1. 0 \in 0 .. MaxRecords /\ 0 \in 0 .. MaxDeps
    BY Bounds
  <2> QED
    BY <2>1 DEF Call
<1> HIDE DEF call
<1>3. calls \in Seq(Call) /\ Len(calls) = 1 /\ calls[1] = call
  BY <1>1, <1>2
<1>4. open \in Seq(Element) /\ Len(open) = 0 /\ records \in Seq(Record) /\ Len(records) = 0
  BY <1>1, EmptySeq
<1>5. TypeOK
  <2>1. at \in 1 .. MaxRecords + 1 /\ wrote \in [1 .. MaxRecords -> 0 .. MaxRow]
        /\ Len(records) <= MaxRecords
    BY <1>1, <1>4, Bounds
  <2>2. rows \subseteq Rows /\ relation \subseteq Rows \X (Rows \cup Dependable)
    BY <1>1, UpdateBlockBounds
  <2> QED
    BY <1>1, <1>3, <1>4, <2>1, <2>2 DEF TypeOK, Modes
<1>6. ReadInduction
  <2>1. Top = call
    BY <1>3 DEF Top
  <2>2. Waiting /\ Backwards /\ Placed
    BY <1>2, <1>3, <1>4 DEF Waiting, Backwards, Placed
  <2>3. Nesting
    BY <1>2, <1>3, <1>4, <2>1 DEF Nesting
  <2> QED
    BY <2>2, <2>3 DEF ReadInduction
<1>7. WriteInduction
  <2>1. InOrder
    BY <1>1, <1>4 DEF InOrder
  <2>2. Midway /\ Known
    BY <1>1 DEF Midway, Known
  <2>3. Told /\ EachDeclared
    BY <1>4 DEF Told, EachDeclared
  <2> QED
    BY <2>1, <2>2, <2>3 DEF WriteInduction
<1> QED
  BY <1>5, <1>6, <1>7 DEF BlockInduction

LEMMA StepKeeps == BlockInduction /\ [Next]_vars => BlockInduction'
<1> SUFFICES ASSUME BlockInduction, [Next]_vars PROVE BlockInduction'
  OBVIOUS
<1>1. CASE UNCHANGED vars
  <2>1. UNCHANGED <<mode, calls, open, plain, records>>
        /\ UNCHANGED <<at, part, left, wrote, rows, relation, told, deleted>>
    BY <1>1 DEF vars, readVars, writeVars
  <2>2. TypeOK /\ ReadInduction /\ WriteInduction
    BY DEF BlockInduction
  <2>3. TypeOK'
    BY <2>1, <2>2 DEF TypeOK
  <2>4. ReadInduction'
    BY <2>1, <2>2 DEF ReadInduction, Waiting, Backwards, Nesting, Placed, Reading, Top
  <2>5. InOrder' /\ Midway' /\ Told' /\ Known'
    BY <2>1, <2>2 DEF WriteInduction, InOrder, Midway, Told, Known, Declared, Inherits, Reading
  <2>6. EachDeclared'
    BY <2>1, <2>2 DEF WriteInduction, EachDeclared, LinkedLast, Linked, AsDeclared, Pending,
       LinksOf, Inherits, Declared
  <2> QED
    BY <2>3, <2>4, <2>5, <2>6 DEF BlockInduction, WriteInduction
<1> QED
  BY <1>1, ReadStep, WriteStep DEF Next, Ended

\* The calls that read a block and the writes that follow keep their induction
\* (update.rs:77-438).
THEOREM BlockInvariant == Spec => []BlockInduction
<1> QED
  BY Begins, StepKeeps, PTL DEF Spec

\* The variables have their types: every row that a record is written to is one of
\* the collection, and every dependency is a row or one the block names.
THEOREM BlockTyped == Spec => []TypeOK
<1>1. BlockInduction => TypeOK
  BY DEF BlockInduction
<1> QED
  BY <1>1, BlockInvariant, PTL

\* The records of a block without other elements are read as they are nested,
\* however deep (update.rs:345-438,538).
THEOREM ReadsAsNested == Spec => []ReadAsNested
<1>1. BlockInduction => ReadAsNested
  <2> SUFFICES ASSUME BlockInduction, plain, Reading
               PROVE  /\ \A i \in 1 .. Len(records) : records[i].owner = records[i].inside
                      /\ IF open # <<>> /\ open[Len(open)].tag = "collection"
                           THEN Top.rec = Inside
                           ELSE Top.rec = 0 /\ Top.owner = Inside
    BY DEF ReadAsNested
  <2> DEFINE m == Len(calls)
  <2>1. TypeOK /\ Nesting /\ Placed
    BY DEF BlockInduction, ReadInduction
  <2>2. m \in Nat /\ m > 0 /\ Len(open) \in Nat /\ open \in Seq(Element)
    BY <2>1, TopCall, Typed
  <2>3. /\ Len(open) = 2 * m - (IF Top.rec = 0 THEN 2 ELSE 1)
        /\ calls[1].owner = 0
        /\ \A k \in 2 .. m : calls[k].owner = calls[k - 1].rec
        /\ \A k \in 1 .. m :
              /\ 2 * k - 1 <= Len(open) => open[2 * k - 1] = Collection(calls[k].rec)
              /\ 2 * k <= Len(open) => open[2 * k] = Pends(calls[k].rec)
    BY <2>1 DEF Nesting
  <2>4. Top = calls[m]
    BY DEF Top
  <2> HIDE DEF m
  <2>5. CASE Top.rec # 0
    <3>1. Len(open) = 2 * m - 1 /\ m \in 1 .. m /\ 2 * m - 1 <= Len(open)
      BY <2>2, <2>3, <2>5
    <3>2. open[Len(open)] = Collection(Top.rec)
      BY <2>3, <2>4, <3>1
    <3>3. open # <<>>
      BY <2>2, <3>1, EmptySeq
    <3> QED
      BY <2>1, <3>2, <3>3 DEF Placed, Collection, Inside
  <2>6. CASE Top.rec = 0 /\ m = 1
    <3>1. Len(open) = 0
      BY <2>3, <2>6
    <3>2. open = <<>>
      BY <2>2, <3>1, EmptySeq
    <3> QED
      BY <2>1, <2>3, <2>4, <2>6, <3>2 DEF Placed, Inside
  <2>7. CASE Top.rec = 0 /\ m # 1
    <3>1. m - 1 \in 1 .. m /\ m \in 2 .. m /\ Len(open) = 2 * (m - 1) /\ 2 * (m - 1) <= Len(open)
      BY <2>2, <2>3, <2>7
    <3>2. open[2 * (m - 1)] = Pends(calls[m - 1].rec) /\ Top.owner = calls[m - 1].rec
      BY <2>3, <2>4, <3>1
    <3>3. Len(open) # 0
      BY <2>2, <3>1
    <3>4. open # <<>>
      BY <2>2, <3>3, EmptySeq
    <3> QED
      BY <2>1, <2>7, <3>1, <3>2, <3>4 DEF Placed, Pends, Inside
  <2> QED
    BY <2>5, <2>6, <2>7
<1> QED
  BY <1>1, BlockInvariant, PTL

\* Wherever the block stops, also between two calls for one record, the relations are
\* those that its records declare (update.rs:77-112,156-270).
THEOREM RelationsDeclared == Spec => []RelationsAsDeclared
<1>1. BlockInduction => RelationsAsDeclared
  BY DEF BlockInduction, WriteInduction, RelationsAsDeclared, Known, EachDeclared, AsDeclared,
     Pending
<1> QED
  BY <1>1, BlockInvariant, PTL

\* A wd:on is given the rows of the records outside pends, and a row in pends
\* leads to the row around it (update.rs:89-101,181-188,240-241,266-267).
THEOREM TellsRows == Spec => []RowsTold
<1>1. BlockInduction => RowsTold
  <2> SUFFICES ASSUME BlockInduction, NEW i \in 1 .. Len(records), i < at, wrote[i] # 0
               PROVE  IF records[i].owner = 0 THEN wrote[i] \in told
                      ELSE LET around == wrote[records[i].owner] IN
                           /\ around # 0
                           /\ LinkedLast(i) /\ {wrote[i], around} \cap deleted = {} =>
                                 <<wrote[i], around>> \in relation
    BY DEF RowsTold
  <2>1. TypeOK /\ InOrder /\ Told /\ EachDeclared
    BY DEF BlockInduction, WriteInduction
  <2>2. CASE records[i].owner = 0
    BY <2>1, <2>2 DEF Told
  <2>3. CASE records[i].owner # 0
    <3> DEFINE around == wrote[records[i].owner]
    <3>1. around # 0
      BY <2>1, <2>3 DEF InOrder
    <3>2. ASSUME LinkedLast(i), {wrote[i], around} \cap deleted = {}
          PROVE  <<wrote[i], around>> \in relation
      <4>1. i # at
        BY <2>1, Bounds DEF TypeOK
      <4>2. AsDeclared(i) /\ Pending(i) = {}
        BY <2>1, <3>2, <4>1 DEF EachDeclared, Pending
      <4>3. around \in Declared(i) \ deleted /\ wrote[i] \notin deleted
        BY <2>3, <3>2 DEF Declared
      <4>4. around \in LinksOf(wrote[i])
        BY <4>2, <4>3 DEF AsDeclared
      <4>5. PICK p \in relation : p[1] = wrote[i] /\ p[2] = around
        BY <4>4 DEF LinksOf
      <4>6. p = <<p[1], p[2]>>
        BY <2>1 DEF TypeOK
      <4> QED
        BY <4>5, <4>6
    <3> QED
      BY <2>3, <3>1, <3>2
  <2> QED
    BY <2>2, <2>3
<1> QED
  BY <1>1, BlockInvariant, PTL

-----------------------------------------------------------------------------
(* Nothing is lost *)

\* The reasons for which the code leaves a record out.
Dropped(i) ==
    \/ ~records[i].kept \/ records[i].session
    \/ records[i].owner # 0 /\ wrote[records[i].owner] = 0
Gone(i, rest) == records[i].does = "delete" /\ records[i].row \in rest \cup {0}

Taken == at <= Len(records) + 1 /\ EachTaken

\* One record has its turn, and those before it keep what they got.
LEMMA Turn ==
    ASSUME BlockInduction, Taken, mode = "writing", at <= Len(records), Step,
           wrote' = wrote, deleted \subseteq deleted',
           wrote[at] # 0 \/ Dropped(at) \/ Gone(at, deleted')
    PROVE  Taken'
<1>1. /\ at \in 1 .. Len(records) /\ Len(records) \in Nat
  BY Current
<1>2. UNCHANGED <<mode, records, wrote>> /\ at' = at + 1
  BY DEF Step, readVars
<1>3. at' <= Len(records') + 1
  BY <1>1, <1>2
<1>4. ASSUME NEW i \in 1 .. Len(records), i < at + 1
      PROVE  wrote[i] # 0 \/ Dropped(i) \/ Gone(i, deleted')
  <2>1. CASE i = at
    BY <2>1
  <2>2. CASE i # at
    <3>1. i < at
      BY <1>1, <1>4, <2>2
    <3>2. wrote[i] # 0 \/ Dropped(i) \/ Gone(i, deleted)
      BY <3>1 DEF Taken, EachTaken, Dropped, Gone
    <3>3. Gone(i, deleted) => Gone(i, deleted')
      BY DEF Gone
    <3> QED
      BY <3>2, <3>3
  <2> QED
    BY <2>1, <2>2
<1>5. EachTaken'
  BY <1>2, <1>4 DEF EachTaken, Dropped, Gone
<1> QED
  BY <1>3, <1>5 DEF Taken

\* A step in the middle of a record, which may get its row in it.
LEMMA SameTurn ==
    ASSUME BlockInduction, Taken, mode = "writing", at <= Len(records),
           UNCHANGED <<mode, records, at, deleted>>,
           \A j \in 1 .. MaxRecords : j # at => wrote'[j] = wrote[j]
    PROVE  Taken'
<1>1. /\ at \in 1 .. Len(records) /\ Len(records) \in Nat
      /\ \A i \in 1 .. Len(records) : i \in 1 .. MaxRecords /\ records[i].owner \in 0 .. i - 1
  BY Current
<1>2. ASSUME NEW i \in 1 .. Len(records), i < at
      PROVE  /\ wrote'[i] = wrote[i]
             /\ records[i].owner # 0 => wrote'[records[i].owner] = wrote[records[i].owner]
  <2>1. i \in 1 .. MaxRecords /\ i # at /\ records[i].owner \in 0 .. i - 1
    BY <1>1, <1>2
  <2>2. records[i].owner # 0 => records[i].owner \in 1 .. MaxRecords /\ records[i].owner # at
    BY <1>1, <1>2, <2>1, Bounds
  <2> QED
    BY <2>1, <2>2
<1> QED
  BY <1>2 DEF Taken, EachTaken

LEMMA TakenKept ==
    ASSUME BlockInduction, Taken, [Next]_vars
    PROVE  Taken'
<1>1. CASE Read
  <2>1. Reading /\ UNCHANGED writeVars
    BY <1>1 DEF Read, CollectionStart, BetweenRecords, Field, BadField, Depend, BadDepend,
       InRecord, PendsStart, OtherStart, EndTag, EmptyElement, EndOfBlock
  <2>2. at' = 1
    BY <2>1, NothingWritten DEF writeVars
  <2>3. BlockInduction'
    BY <1>1, ReadStep
  <2>4. Len(records') \in Nat
    BY <2>3, LenProperties DEF BlockInduction, TypeOK
  <2>5. mode' = "done" => FALSE
    BY <1>1 DEF Read, CollectionStart, BetweenRecords, Field, BadField, Depend, BadDepend,
       InRecord, PendsStart, OtherStart, EndTag, EmptyElement, EndOfBlock, Return, AllRead,
       Fail, EndReading, Reading
  <2> QED
    BY <2>2, <2>4, <2>5 DEF Taken, EachTaken
<1>2. CASE HandOver \/ DeleteInPends \/ Written
  <2>1. /\ mode = "writing" /\ UNCHANGED <<at, records, wrote, deleted>>
        /\ mode' = "done" => at = 1 \/ at > Len(records)
    BY <1>2 DEF HandOver, DeleteInPends, Written, Writing, readVars, writeVars
  <2>2. Len(records) \in Nat /\ at \in Nat
    BY Typed, Bounds DEF BlockInduction, TypeOK
  <2>3. mode' = "done" => at \in {1, Len(records) + 1}
    BY <2>1, <2>2 DEF Taken
  <2> QED
    BY <2>1, <2>3 DEF Taken, EachTaken
<1>3. CASE PassOver
  <2>1. Writing /\ Step /\ UNCHANGED <<wrote, deleted>>
    BY <1>3 DEF PassOver
  <2>2. Dropped(at) \/ Gone(at, deleted')
    BY <1>3, <2>1 DEF PassOver, Reached, Deletes, Dropped, Gone, Now
  <2> QED
    BY <2>1, <2>2, Turn DEF Writing
<1>4. CASE Overwrite \/ Insert
  <2>1. PICK row \in Rows : Writing /\ Puts(row)
    BY <1>4 DEF Overwrite, Insert, Writable
  <2>2. /\ mode = "writing" /\ at <= Len(records)
        /\ wrote' = [wrote EXCEPT ![at] = row]
        /\ UNCHANGED <<mode, records, at, deleted>>
    BY <2>1 DEF Writing, Puts, readVars
  <2>3. wrote \in [1 .. MaxRecords -> 0 .. MaxRow]
    BY <2>2, Current
  <2>4. \A j \in 1 .. MaxRecords : j # at => wrote'[j] = wrote[j]
    BY <2>2, <2>3
  <2> QED
    BY <2>2, <2>4, SameTurn
<1>5. CASE Unlink \/ Register
  <2>1. part # "next" /\ UNCHANGED <<mode, records, at, wrote, deleted>>
    BY <1>5 DEF Unlink, Register, readVars
  <2> QED
    BY <2>1, Underway, SameTurn
<1>6. CASE Push
  <2>1. part # "next" /\ Step /\ UNCHANGED <<wrote, deleted>>
    BY <1>6 DEF Push
  <2>2. mode = "writing" /\ at <= Len(records) /\ wrote[at] # 0
    BY <2>1 DEF BlockInduction, WriteInduction, Midway
  <2> QED
    BY <2>1, <2>2, Turn
<1>7. CASE Delete
  <2>1. /\ Writing /\ Step /\ wrote' = wrote /\ Now.does = "delete"
        /\ Now.row \in deleted' /\ deleted \subseteq deleted'
    BY <1>7 DEF Delete, Deletes
  <2>2. records' = records
    BY <2>1 DEF Step, readVars
  <2> QED
    BY <2>1, <2>2, Turn DEF Gone, Now, Writing
<1>8. CASE UNCHANGED vars
  BY <1>8 DEF vars, readVars, writeVars, Taken, EachTaken
<1> QED
  BY <1>1, <1>2, <1>3, <1>4, <1>5, <1>6, <1>7, <1>8 DEF Next, Write, Ended

\* Every record of a block is taken in its turn or left out for a reason, and a block
\* that is done was taken whole (update.rs:77-130,161-199).
THEOREM TakesEach == Spec => []EachTaken
<1>1. Init => Taken
  <2> SUFFICES ASSUME Init PROVE Taken
    OBVIOUS
  <2>1. at = 1 /\ Len(records) = 0 /\ mode = "reading"
    BY DEF Init
  <2> QED
    BY <2>1 DEF Taken, EachTaken
<1>2. BlockInduction /\ Taken /\ [Next]_vars => Taken'
  BY TakenKept
<1>3. Taken => EachTaken
  BY DEF Taken
<1> QED
  BY <1>1, <1>2, <1>3, BlockInvariant, PTL DEF Spec

-----------------------------------------------------------------------------
(* What is not written stays *)

\* A step after which more records are linked, or rows are deleted: the relations of
\* rows that are neither stay.
LEMMA Untouched ==
    ASSUME OthersStay, NEW gone, deleted' = deleted \cup gone,
           rows \ gone \subseteq rows',
           \A i \in 1 .. Len(records) : Linked(i) =>
              i \in 1 .. Len(records') /\ Linked(i)' /\ wrote'[i] = wrote[i],
           \A r \in Rows \ deleted' :
              (\A i \in 1 .. Len(records') : Linked(i)' => wrote'[i] # r) =>
                 \A d \in (Rows \cup Dependable) \ deleted' :
                    <<r, d>> \in relation' <=> <<r, d>> \in relation
    PROVE  OthersStay'
<1> SUFFICES ASSUME NEW r \in Rows \ deleted'
             PROVE  /\ r \in OldRows => r \in rows'
                    /\ (\A i \in 1 .. Len(records') : Linked(i)' => wrote'[i] # r) =>
                          \A d \in (Rows \cup Dependable) \ deleted' :
                             <<r, d>> \in relation' <=> <<r, d>> \in OldRelation
  BY DEF OthersStay
<1>1. r \in Rows \ deleted /\ r \notin gone
  OBVIOUS
<1>2. /\ r \in OldRows => r \in rows
      /\ (\A i \in 1 .. Len(records) : Linked(i) => wrote[i] # r) =>
            \A d \in (Rows \cup Dependable) \ deleted :
               <<r, d>> \in relation <=> <<r, d>> \in OldRelation
  BY <1>1 DEF OthersStay
<1>3. r \in OldRows => r \in rows'
  BY <1>1, <1>2
<1>4. ASSUME \A i \in 1 .. Len(records') : Linked(i)' => wrote'[i] # r,
             NEW d \in (Rows \cup Dependable) \ deleted'
      PROVE  <<r, d>> \in relation' <=> <<r, d>> \in OldRelation
  <2>1. \A i \in 1 .. Len(records) : Linked(i) => wrote[i] # r
    BY <1>4
  <2>2. d \in (Rows \cup Dependable) \ deleted
    BY <1>4
  <2> QED
    BY <1>2, <1>4, <2>1, <2>2
<1> QED
  BY <1>3, <1>4

\* While nothing was written no record is linked.
LEMMA ReadingStays ==
    ASSUME BlockInduction, OthersStay, Reading, UNCHANGED writeVars
    PROVE  OthersStay'
<1>1. Len(records) \in Nat /\ Len(records) <= MaxRecords
  <2>1. Len(records) \in 0 .. MaxRecords
    BY Typed DEF BlockInduction
  <2> QED
    BY <2>1, Bounds
<1>2. \A i \in 1 .. Len(records) : ~Linked(i)
  BY <1>1, NothingWritten, Bounds DEF Linked
<1>3. UNCHANGED <<rows, relation, deleted>>
  BY DEF writeVars
<1> QED
  BY <1>2, <1>3 DEF OthersStay

LEMMA StayKept ==
    ASSUME BlockInduction, OthersStay, [Next]_vars
    PROVE  OthersStay'
<1>1. CASE Read
  <2>1. Reading /\ UNCHANGED writeVars
    BY <1>1 DEF Read, CollectionStart, BetweenRecords, Field, BadField, Depend, BadDepend,
       InRecord, PendsStart, OtherStart, EndTag, EmptyElement, EndOfBlock
  <2> QED
    BY <2>1, ReadingStays
<1>2. CASE Overwrite \/ Insert
  <2>1. PICK row \in Rows : Writing /\ Puts(row)
    BY <1>2 DEF Overwrite, Insert, Writable
  <2>2. /\ mode = "writing" /\ at <= Len(records) /\ part = "next" /\ part' # "next"
        /\ wrote' = [wrote EXCEPT ![at] = row] /\ rows \subseteq rows'
        /\ UNCHANGED <<mode, records, at, relation, deleted>>
    BY <1>2, <2>1 DEF Overwrite, Insert, Writing, Puts, readVars
  <2>3. wrote \in [1 .. MaxRecords -> 0 .. MaxRow]
    BY <2>2, Current
  <2>4. ASSUME NEW i \in 1 .. Len(records), Linked(i)
        PROVE  Linked(i)' /\ wrote'[i] = wrote[i]
    <3>1. i \in 1 .. MaxRecords /\ i # at /\ i < at
      BY <2>2, <2>4, LinkedBefore DEF Linked
    <3>2. wrote'[i] = wrote[i]
      BY <2>2, <2>3, <3>1
    <3> QED
      BY <2>2, <2>4, <3>1, <3>2 DEF Linked, Inherits
  <2>5. deleted' = deleted \cup {} /\ rows \ {} \subseteq rows'
    BY <2>2
  <2> QED
    BY <2>2, <2>4, <2>5, Untouched
<1>3. CASE Unlink \/ Register
  <2>1. /\ part # "next" /\ part' = "linking"
        /\ UNCHANGED <<mode, records, at, wrote, rows, deleted>>
        /\ \/ relation' = {p \in relation : p[1] # wrote[at]}
           \/ \E d \in left : relation' = relation \cup {<<wrote[at], d>>}
        /\ Unlink \/ \E d \in left : d = d
    BY <1>3 DEF Unlink, Unlinked, Register, readVars
  <2>2. /\ at \in 1 .. Len(records) /\ wrote[at] \in Rows /\ left \subseteq Declared(at)
        /\ part = "written" => ~Inherits(at)
    BY <2>1, Underway
  <2>3. ~Inherits(at)
    BY <2>1, <2>2 DEF Unlink, Inherits, Declared
  <2>4. Linked(at)'
    BY <2>1, <2>2, <2>3, Bounds DEF Linked, Inherits, Rows
  <2>5. \A i \in 1 .. Len(records) : Linked(i) => Linked(i)' /\ wrote'[i] = wrote[i]
    BY <2>1 DEF Linked, Inherits
  <2>6. \A r, d : r # wrote[at] => (<<r, d>> \in relation' <=> <<r, d>> \in relation)
    BY <2>1
  <2>7. deleted' = deleted \cup {} /\ rows \ {} \subseteq rows'
    BY <2>1
  <2> QED
    BY <2>1, <2>2, <2>4, <2>5, <2>6, <2>7, Untouched
<1>4. CASE PassOver \/ Push \/ Delete
  <2>1. /\ mode = "writing" /\ at <= Len(records) /\ Step /\ wrote' = wrote
        /\ part \in {"next", "linking"}
    BY <1>4, Underway DEF PassOver, Push, Delete, Writing
  <2>2. PICK gone :
           /\ rows' = rows \ gone /\ deleted' = deleted \cup gone
           /\ relation' = {p \in relation : p[1] \notin gone /\ p[2] \notin gone}
    <3>1. CASE Delete
      BY <3>1 DEF Delete
    <3>2. CASE PassOver \/ Push
      <4>1. UNCHANGED <<rows, relation, deleted>>
        BY <3>2 DEF PassOver, Push
      <4>2. /\ rows' = rows \ {} /\ deleted' = deleted \cup {}
            /\ relation' = {p \in relation : p[1] \notin {} /\ p[2] \notin {}}
        BY <4>1
      <4> DEFINE none == {}
      <4>3. /\ rows' = rows \ none /\ deleted' = deleted \cup none
            /\ relation' = {p \in relation : p[1] \notin none /\ p[2] \notin none}
        BY <4>2
      <4> HIDE DEF none
      <4> QED
        BY <4>3
    <3> QED
      BY <1>4, <3>1, <3>2
  <2>3. records' = records /\ at' = at + 1
    BY <2>1 DEF Step, readVars
  <2>4. at \in 1 .. Len(records) /\ Len(records) \in Nat
    BY <2>1, Current
  <2>5. ASSUME NEW i \in 1 .. Len(records), Linked(i)
        PROVE  Linked(i)' /\ wrote'[i] = wrote[i]
    <3>1. i < at + 1
      BY <2>1, <2>4, <2>5, LinkedBefore
    <3> QED
      BY <2>1, <2>3, <2>5, <3>1 DEF Linked, Inherits
  <2>6. \A r \in Rows \ deleted', d \in (Rows \cup Dependable) \ deleted' :
           <<r, d>> \in relation' <=> <<r, d>> \in relation
    BY <2>2
  <2> QED
    BY <2>2, <2>3, <2>5, <2>6, Untouched
<1>5. CASE HandOver \/ DeleteInPends \/ Written \/ UNCHANGED vars
  <2>1. UNCHANGED <<records, at, part, wrote, rows, relation, deleted>>
    BY <1>5 DEF HandOver, DeleteInPends, Written, vars, readVars, writeVars
  <2> QED
    BY <2>1 DEF OthersStay, Linked, Inherits
<1> QED
  BY <1>1, <1>2, <1>3, <1>4, <1>5 DEF Next, Write, Ended

\* A block touches no row and no relation but those its records write or delete
\* (update.rs:77-112,226-239).
THEOREM LeavesOthers == Spec => []OthersStay
<1>1. Init => OthersStay
  BY DEF Init, OthersStay
<1>2. BlockInduction /\ OthersStay /\ [Next]_vars => OthersStay'
  BY StayKept
<1> QED
  BY <1>1, <1>2, BlockInvariant, PTL DEF Spec
=============================================================================
