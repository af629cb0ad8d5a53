-------------------------- MODULE SessionViewProofs --------------------------
(***************************************************************************)
(* Proofs about SessionView: a document reads what its innermost session   *)
(* wrote; and as long as sessions are neither nested nor bypassed nor left *)
(* pending, each one is a transaction whose view a search shows, no row    *)
(* goes back to an older write, and a commit leaves in the tables what a   *)
(* search has shown.                                                       *)
(***************************************************************************)
EXTENDS SessionView, SequenceTheorems, FiniteSetTheorems, FunctionTheorems, TLAPS

\* Nothing is newer than the last write.
Recent ==
    /\ \A r \in Rows : tables[r] <= writes
    /\ \A s \in Sessions : \A id \in Ids : temp[s][id] <= writes

\* One session at a time holds anything, and it is the one that is open.
Alone ==
    ~layered => /\ Len(stack) <= 1
                /\ \A s \in Sessions : Touched(s) => OnStack(s)

\* What it holds of a row is newer than the row.
Newest ==
    ~layered => \A s \in Sessions : \A r \in Rows :
                   temp[s][r] \in Writes => temp[s][r] >= tables[r]

WriteInduction == TypeOK /\ Recent /\ Alone /\ Newest

\* Values and identifiers are integers, and rows are identifiers.
LEMMA Numbers ==
    /\ Writes \cup {None} \subseteq Nat /\ None \notin Writes /\ Deleted \notin Writes
    /\ MaxWrites \in Nat /\ Rows \subseteq Ids /\ NewRows \subseteq Ids
    /\ None = 0 /\ Deleted = -1
  BY SessionViewBounds DEF Writes, None, Deleted, Rows, Ids

\* The innermost session is one of the sessions.
LEMMA OwnIsSession ==
    ASSUME TypeOK, stack # <<>>
    PROVE  /\ Own \in Sessions
           /\ Len(stack) \in Nat \ {0}
           /\ SubSeq(stack, 1, Len(stack) - 1) \in Seq(Sessions)
           /\ Len(SubSeq(stack, 1, Len(stack) - 1)) = Len(stack) - 1
<1>1. stack \in Seq(Sessions)
  BY DEF TypeOK
<1>2. Len(stack) \in Nat \ {0}
  BY <1>1, EmptySeq, LenProperties
<1>3. Own \in Sessions
  BY <1>1, <1>2, ElementOfSeq DEF Own
<1>4. 1 \in Int /\ Len(stack) - 1 \in Int
      /\ \A i \in 1 .. Len(stack) - 1 : stack[i] \in Sessions
  BY <1>1, <1>2, ElementOfSeq
<1>5. /\ SubSeq(stack, 1, Len(stack) - 1) \in Seq(Sessions)
      /\ Len(SubSeq(stack, 1, Len(stack) - 1)) =
            IF 1 <= Len(stack) - 1 THEN Len(stack) - 1 - 1 + 1 ELSE 0
  BY <1>4, SubSeqProperties
<1>6. ASSUME NEW n \in Nat \ {0}
      PROVE  (IF 1 <= n - 1 THEN n - 1 - 1 + 1 ELSE 0) = n - 1
  OBVIOUS
<1> QED
  BY <1>2, <1>3, <1>5, <1>6, Zenon

\* Emptying a session keeps the type of what sessions hold.
LEMMA ClearedTyped ==
    ASSUME TypeOK, NEW s \in Sessions
    PROVE  /\ Cleared(s) \in [Sessions -> [Ids -> Writes \cup {None, Deleted}]]
           /\ \A id \in Ids : Cleared(s)[s][id] = None
           /\ \A other \in Sessions \ {s} : Cleared(s)[other] = temp[other]
  BY DEF TypeOK, Cleared, Nothing

LEMMA EmptiedRecent ==
    ASSUME TypeOK, Recent, tables' = tables, writes' = writes,
           \A s \in Sessions : \A id \in Ids :
              temp'[s][id] = temp[s][id] \/ temp'[s][id] = None
    PROVE  Recent'
<1>1. writes \in Nat
  BY Numbers DEF TypeOK
<1> QED
  BY <1>1, Numbers DEF Recent

\* A commit of rows that are newer than those of the tables leaves no older row.
LEMMA CommitNewer ==
    ASSUME TypeOK, Recent,
           NEW held \in [Ids -> Writes \cup {None, Deleted}],
           NEW t \in [Rows -> Writes \cup {None}], Commits(held, t)
    PROVE  \A r \in Rows :
              \/ t[r] = tables[r] \/ t[r] = None
              \/ tables[r] = None /\ \E i \in Ids : t[r] = held[i] /\ held[i] \in Writes
              \/ t[r] = held[r] /\ held[r] \in Writes
<1> TAKE r \in Rows
<1>1. PICK place \in [{id \in NewRows : held[id] \in Writes} ->
                     {q \in Rows : tables[q] = None /\ held[q] = None}] :
         \/ \E i \in DOMAIN place : place[i] = r /\ t[r] = held[i]
         \/ /\ \A i \in DOMAIN place : place[i] # r
            /\ \/ t[r] = Committed(tables[r], held[r])
               \/ tables[r] = None /\ t[r] = None
  BY DEF Commits
<1>2. CASE \E i \in DOMAIN place : place[i] = r /\ t[r] = held[i]
  BY <1>1, <1>2, Numbers
<1>3. CASE t[r] = Committed(tables[r], held[r])
  BY <1>3, Numbers DEF Committed
<1> QED
  BY <1>1, <1>2, <1>3

-----------------------------------------------------------------------------
(* The steps *)

LEMMA OpenKeeps ==
    ASSUME WriteInduction, NEW s \in Sessions, NEW initialize \in BOOLEAN,
           Open(s, initialize)
    PROVE  WriteInduction'
<1>1. TypeOK
  BY DEF WriteInduction
<1>2. stack' \in Seq(Sessions) /\ Len(stack') = Len(stack) + 1
  BY <1>1, AppendProperties DEF TypeOK, Open
<1>3. temp' \in [Sessions -> [Ids -> Writes \cup {None, Deleted}]]
  BY <1>1, ClearedTyped DEF Open, TypeOK
<1>4. TypeOK'
  BY <1>1, <1>2, <1>3 DEF Open, TypeOK
<1>5. ASSUME NEW q \in Sessions, NEW id \in Ids
      PROVE  temp'[q][id] = temp[q][id] \/ temp'[q][id] = None
  BY <1>1, ClearedTyped DEF Open
<1>9. Recent'
  BY <1>1, <1>5, EmptiedRecent DEF Open, WriteInduction
<1>6. Newest'
  BY <1>5, Numbers DEF WriteInduction, Newest, Open
<1>7. ASSUME ~layered'
      PROVE  /\ Len(stack') <= 1
             /\ \A q \in Sessions : Touched(q)' => OnStack(q)'
  <2>1. ~layered /\ stack = <<>>
    BY <1>1, <1>7 DEF Open, TypeOK
  <2>2. ASSUME NEW q \in Sessions, Touched(q)' PROVE FALSE
    <3>1. Touched(q)
      BY <2>2, <1>5 DEF Touched
    <3> QED
      BY <2>1, <3>1 DEF WriteInduction, Alone, OnStack
  <2> QED
    BY <1>2, <2>1, <2>2
<1>8. Alone'
  BY <1>7 DEF Alone
<1> QED
  BY <1>4, <1>6, <1>8, <1>9 DEF WriteInduction

\* What a session holds after a commit, a clear or a collection of garbage.
LEMMA ClearedKeeps ==
    ASSUME WriteInduction, NEW s \in Sessions, temp' = Cleared(s),
           layered' = layered,
           tables' = tables \/ (~layered => s = Own /\ stack # <<>>)
    PROVE  Newest'
<1>1. TypeOK
  BY DEF WriteInduction
<1> SUFFICES ASSUME ~layered, NEW q \in Sessions, NEW r \in Rows,
                    temp'[q][r] \in Writes
             PROVE  temp'[q][r] >= tables'[r]
  BY DEF Newest
<1>2. q # s /\ temp'[q] = temp[q]
  BY <1>1, ClearedTyped, Numbers
<1>3. CASE tables' = tables
  BY <1>2, <1>3 DEF WriteInduction, Newest
<1>4. CASE s = Own /\ stack # <<>>
  <2>1. Touched(q)
    BY <1>2, Numbers DEF Touched
  <2>2. PICK i \in 1 .. Len(stack) : stack[i] = q
    BY <2>1 DEF WriteInduction, Alone, OnStack
  <2>3. Len(stack) = 1
    BY <1>1, <1>4, OwnIsSession DEF WriteInduction, Alone
  <2> QED
    BY <1>2, <1>4, <2>2, <2>3 DEF Own
<1> QED
  BY <1>3, <1>4

\* Taking the innermost session off the stack.
LEMMA PopKeeps ==
    ASSUME WriteInduction, stack # <<>>,
           stack' = SubSeq(stack, 1, Len(stack) - 1),
           layered => layered',
           ~layered' => \A q \in Sessions : Touched(q)' => Touched(q) /\ q # Own
    PROVE  Alone'
<1> SUFFICES ASSUME ~layered'
             PROVE  /\ Len(stack') <= 1
                    /\ \A q \in Sessions : ~Touched(q)'
  BY DEF Alone
<1>1. Len(stack) = 1
  BY OwnIsSession DEF WriteInduction, Alone
<1>2. Len(stack') <= 1
  BY <1>1, OwnIsSession DEF WriteInduction
<1>3. ASSUME NEW q \in Sessions, Touched(q)' PROVE FALSE
  <2>1. PICK i \in 1 .. Len(stack) : stack[i] = q
    BY <1>3 DEF WriteInduction, Alone, OnStack
  <2> QED
    BY <1>1, <1>3, <2>1 DEF Own
<1> QED
  BY <1>2, <1>3

\* What a commit of the innermost session does.
LEMMA CommitKeeps ==
    ASSUME WriteInduction, stack # <<>>,
           NEW held \in [Ids -> Writes \cup {None, Deleted}],
           CommitOwn(held), writes' >= writes, writes' \in 0 .. MaxWrites,
           layered' = layered,
           \A id \in Ids : held[id] \in Writes => held[id] <= writes'
    PROVE  /\ tables' \in [Rows -> Writes \cup {None}]
           /\ temp' \in [Sessions -> [Ids -> Writes \cup {None, Deleted}]]
           /\ Recent' /\ Newest'
           /\ \A q \in Sessions : Touched(q)' => Touched(q) /\ q # Own
<1>1. TypeOK /\ Recent
  BY DEF WriteInduction
<1>2. Own \in Sessions /\ temp' = Cleared(Own)
  BY <1>1, OwnIsSession DEF CommitOwn
<1>3. tables' \in [Rows -> Writes \cup {None}] /\ Commits(held, tables')
  BY DEF CommitOwn
<1>4. \A r \in Rows : tables'[r] <= writes'
  <2> SUFFICES ASSUME NEW r \in Rows PROVE tables'[r] <= writes'
    OBVIOUS
  <2>1. tables[r] <= writes /\ writes \in Nat /\ writes' \in Nat
    BY <1>1, Numbers DEF Recent, TypeOK
  <2>2. tables[r] \in Nat /\ tables'[r] \in Nat
    BY <1>1, <1>3, Numbers DEF TypeOK
  <2> QED
    BY <1>1, <1>3, <2>1, <2>2, CommitNewer, Numbers
<1>5. Newest'
  BY <1>2, ClearedKeeps
<1>6. \A q \in Sessions : Touched(q)' => Touched(q) /\ q # Own
  BY <1>1, <1>2, ClearedTyped DEF Touched
<1>7. ASSUME NEW q \in Sessions, NEW id \in Ids PROVE temp'[q][id] <= writes'
  <2>1. temp'[q][id] = None \/ temp'[q][id] = temp[q][id]
    BY <1>1, <1>2, ClearedTyped
  <2>2. temp[q][id] \in Int /\ temp[q][id] <= writes /\ writes \in Nat
    BY <1>1, Numbers DEF TypeOK, Recent
  <2> QED
    BY <2>1, <2>2, Numbers
<1> QED
  BY <1>1, <1>2, <1>3, <1>4, <1>5, <1>6, <1>7, ClearedTyped DEF Recent

LEMMA CloseCommitKeeps ==
    ASSUME WriteInduction, CloseCommit PROVE WriteInduction'
<1>1. TypeOK /\ stack # <<>> /\ CommitOwn(temp[Own])
  BY DEF WriteInduction, CloseCommit
<1>2. temp[Own] \in [Ids -> Writes \cup {None, Deleted}]
  BY <1>1, OwnIsSession DEF TypeOK
<1>3. writes' = writes /\ layered' = layered /\ writes \in 0 .. MaxWrites
  BY <1>1 DEF CloseCommit, TypeOK
<1>4. \A id \in Ids : temp[Own][id] \in Writes => temp[Own][id] <= writes'
  BY <1>1, <1>3, OwnIsSession DEF WriteInduction, Recent
<1>5. /\ tables' \in [Rows -> Writes \cup {None}]
      /\ temp' \in [Sessions -> [Ids -> Writes \cup {None, Deleted}]]
      /\ Recent' /\ Newest'
      /\ \A q \in Sessions : Touched(q)' => Touched(q) /\ q # Own
  BY <1>1, <1>2, <1>3, <1>4, CommitKeeps
<1>6. TypeOK'
  BY <1>1, <1>3, <1>5, OwnIsSession DEF CloseCommit, TypeOK
<1>7. Alone'
  BY <1>1, <1>3, <1>5, PopKeeps DEF CloseCommit
<1> QED
  BY <1>5, <1>6, <1>7 DEF WriteInduction

LEMMA CloseClearKeeps ==
    ASSUME WriteInduction, CloseClear PROVE WriteInduction'
<1>1. TypeOK /\ stack # <<>> /\ temp' = Cleared(Own) /\ Own \in Sessions
  BY OwnIsSession DEF WriteInduction, CloseClear
<1>2. TypeOK'
  BY <1>1, OwnIsSession, ClearedTyped DEF CloseClear, TypeOK
<1>3. Recent'
  BY <1>1, ClearedTyped, EmptiedRecent DEF CloseClear, WriteInduction
<1>4. Newest'
  BY <1>1, ClearedKeeps DEF CloseClear
<1>5. \A q \in Sessions : Touched(q)' => Touched(q) /\ q # Own
  BY <1>1, ClearedTyped DEF Touched
<1>6. Alone'
  BY <1>1, <1>5, PopKeeps DEF CloseClear
<1> QED
  BY <1>2, <1>3, <1>4, <1>6 DEF WriteInduction

LEMMA CloseKeepKeeps ==
    ASSUME WriteInduction, CloseKeep PROVE WriteInduction'
<1>1. TypeOK /\ stack # <<>> /\ UNCHANGED <<tables, temp, writes>>
  BY DEF WriteInduction, CloseKeep
<1>2. layered' \in BOOLEAN /\ (layered => layered')
  BY <1>1 DEF CloseKeep, TypeOK
<1>3. TypeOK'
  BY <1>1, <1>2, OwnIsSession DEF CloseKeep, TypeOK
<1>4. Recent' /\ Newest'
  BY <1>1, <1>2 DEF WriteInduction, Recent, Newest
<1>5. ~layered' => \A q \in Sessions : Touched(q)' => Touched(q) /\ q # Own
  BY <1>1 DEF CloseKeep, Touched
<1>6. Alone'
  BY <1>1, <1>2, <1>5, PopKeeps DEF CloseKeep
<1> QED
  BY <1>3, <1>4, <1>6 DEF WriteInduction

LEMMA UpdateSessionKeeps ==
    ASSUME WriteInduction, NEW id \in Ids, NEW delete \in BOOLEAN,
           NEW commit \in BOOLEAN, UpdateSession(id, delete, commit)
    PROVE  WriteInduction'
<1> DEFINE held == [temp[Own] EXCEPT ![id] = IF delete THEN Deleted ELSE writes + 1]
<1>1. /\ TypeOK /\ Recent /\ stack # <<>> /\ Own \in Sessions
      /\ writes' = writes + 1 /\ writes < MaxWrites /\ UNCHANGED <<stack, layered>>
      /\ writes \in Nat /\ MaxWrites \in Nat
  BY OwnIsSession, Numbers DEF WriteInduction, UpdateSession, TypeOK
<1>2. writes + 1 \in Writes /\ writes' \in 0 .. MaxWrites
  BY <1>1 DEF Writes
<1>3. held \in [Ids -> Writes \cup {None, Deleted}]
  BY <1>1, <1>2 DEF TypeOK
<1>4. \A i \in Ids : held[i] <= writes'
  <2> TAKE i \in Ids
  <2>1. temp[Own][i] \in Int /\ temp[Own][i] <= writes
    BY <1>1, Numbers DEF TypeOK, Recent
  <2>2. held[i] = temp[Own][i] \/ held[i] = Deleted \/ held[i] = writes + 1
    BY <1>1 DEF TypeOK
  <2> QED
    BY <1>1, <2>1, <2>2, Numbers
<1> HIDE DEF held
<1>5. CASE commit
  <2>1. CommitOwn(held)
    BY <1>5 DEF UpdateSession, held
  <2>2. /\ tables' \in [Rows -> Writes \cup {None}]
        /\ temp' \in [Sessions -> [Ids -> Writes \cup {None, Deleted}]]
        /\ Recent' /\ Newest'
        /\ \A q \in Sessions : Touched(q)' => Touched(q) /\ q # Own
    BY <1>1, <1>2, <1>3, <1>4, <2>1, CommitKeeps
  <2>3. TypeOK'
    BY <1>1, <1>2, <2>2 DEF TypeOK
  <2>4. Alone'
    BY <1>1, <2>2 DEF WriteInduction, Alone, OnStack
  <2> QED
    BY <2>2, <2>3, <2>4 DEF WriteInduction
<1>6. CASE ~commit
  <2>1. temp' = [temp EXCEPT ![Own] = held] /\ tables' = tables
    BY <1>6 DEF UpdateSession, held
  <2>2. TypeOK'
    BY <1>1, <1>2, <1>3, <2>1 DEF TypeOK
  <2>3. \A q \in Sessions : temp'[q] = temp[q] \/ (q = Own /\ temp'[q] = held)
    BY <1>1, <2>1 DEF TypeOK
  <2>4. Recent'
    <3>1. ASSUME NEW r \in Rows PROVE tables'[r] <= writes'
      BY <1>1, <2>1, Numbers DEF TypeOK, Recent
    <3>2. ASSUME NEW q \in Sessions, NEW i \in Ids PROVE temp'[q][i] <= writes'
      <4>1. temp[q][i] \in Int /\ temp[q][i] <= writes
        BY <1>1, Numbers DEF TypeOK, Recent
      <4> QED
        BY <1>1, <1>4, <2>3, <4>1
    <3> QED
      BY <3>1, <3>2 DEF Recent
  <2>5. Newest'
    <3> SUFFICES ASSUME ~layered, NEW q \in Sessions, NEW r \in Rows,
                        temp'[q][r] \in Writes
                 PROVE  temp'[q][r] >= tables[r]
      BY <1>1, <2>1 DEF Newest
    <3>1. r \in Ids /\ tables[r] \in Nat /\ tables[r] <= writes
      BY <1>1, Numbers DEF TypeOK, Recent
    <3>2. CASE temp'[q][r] = temp[q][r]
      BY <3>2 DEF WriteInduction, Newest
    <3>3. CASE temp'[q][r] = writes + 1
      BY <1>1, <3>1, <3>3
    <3>4. temp'[q][r] \in {temp[q][r], Deleted, writes + 1}
      BY <1>1, <2>3, <3>1 DEF held, TypeOK
    <3> QED
      BY <3>2, <3>3, <3>4, Numbers
  <2>6. \A q \in Sessions : Touched(q)' => Touched(q) \/ q = Own
    BY <2>3 DEF Touched
  <2>7. OnStack(Own)
    BY <1>1, OwnIsSession DEF OnStack, Own
  <2>8. Alone'
    BY <1>1, <2>6, <2>7 DEF WriteInduction, Alone, OnStack
  <2> QED
    BY <2>2, <2>4, <2>5, <2>8 DEF WriteInduction
<1> QED
  BY <1>5, <1>6

LEMMA UpdateDirectKeeps ==
    ASSUME WriteInduction, NEW r \in Rows, NEW delete \in BOOLEAN,
           UpdateDirect(r, delete)
    PROVE  WriteInduction'
<1>1. /\ TypeOK /\ Recent
      /\ writes' = writes + 1 /\ writes < MaxWrites /\ UNCHANGED <<temp, stack>>
      /\ writes \in Nat /\ MaxWrites \in Nat
      /\ tables' = [tables EXCEPT ![r] = IF delete THEN None ELSE writes + 1]
      /\ layered' = (layered \/ stack # <<>>)
  BY Numbers DEF WriteInduction, UpdateDirect, TypeOK
<1>2. writes + 1 \in Writes /\ writes' \in 0 .. MaxWrites
  BY <1>1 DEF Writes
<1>3. TypeOK'
  BY <1>1, <1>2 DEF TypeOK
<1>4. Recent'
  <2>1. ASSUME NEW q \in Rows PROVE tables'[q] <= writes'
    <3>1. tables[q] \in Nat /\ tables[q] <= writes
      BY <1>1, Numbers DEF TypeOK, Recent
    <3>2. tables'[q] \in {tables[q], None, writes + 1}
      BY <1>1 DEF TypeOK
    <3> QED
      BY <1>1, <3>1, <3>2, Numbers
  <2>2. ASSUME NEW q \in Sessions, NEW i \in Ids PROVE temp'[q][i] <= writes'
    <3>1. temp[q][i] \in Int /\ temp[q][i] <= writes
      BY <1>1, Numbers DEF TypeOK, Recent
    <3> QED
      BY <1>1, <3>1
  <2> QED
    BY <2>1, <2>2 DEF Recent
<1>5. ASSUME ~layered'
      PROVE  /\ stack' = <<>> /\ ~layered
             /\ \A q \in Sessions : \A i \in Ids : temp'[q][i] = None
  <2>1. ~layered /\ stack = <<>>
    BY <1>1, <1>5 DEF TypeOK
  <2>2. \A q \in Sessions : ~Touched(q)
    BY <2>1 DEF WriteInduction, Alone, OnStack
  <2> QED
    BY <1>1, <2>1, <2>2 DEF Touched
<1>6. Newest'
  BY <1>5, Numbers DEF Newest
<1>7. Alone'
  BY <1>5 DEF Alone, Touched
<1> QED
  BY <1>3, <1>4, <1>6, <1>7 DEF WriteInduction

LEMMA SessionGcKeeps ==
    ASSUME WriteInduction, NEW s \in Sessions, SessionGc(s) PROVE WriteInduction'
<1>1. TypeOK /\ temp' = Cleared(s) /\ UNCHANGED <<tables, stack, writes, layered>>
  BY DEF WriteInduction, SessionGc
<1>2. TypeOK'
  BY <1>1, ClearedTyped DEF TypeOK
<1>3. Recent'
  BY <1>1, ClearedTyped, EmptiedRecent DEF WriteInduction
<1>4. Newest'
  BY <1>1, ClearedKeeps
<1>5. \A q \in Sessions : Touched(q)' => Touched(q)
  BY <1>1, ClearedTyped DEF Touched
<1>6. Alone'
  BY <1>1, <1>5 DEF WriteInduction, Alone, OnStack
<1> QED
  BY <1>2, <1>3, <1>4, <1>6 DEF WriteInduction

-----------------------------------------------------------------------------

LEMMA WriteInit == Init => WriteInduction
<1> SUFFICES ASSUME Init PROVE WriteInduction
  OBVIOUS
<1>1. 0 \in 0 .. MaxWrites /\ <<>> \in Seq(Sessions) /\ Len(<<>>) = 0
  BY Numbers, EmptySeq
<1>2. TypeOK
  BY <1>1 DEF Init, TypeOK, None
<1>3. Recent /\ Newest
  BY Numbers DEF Init, Recent, Newest
<1>4. Alone
  BY <1>1 DEF Init, Alone, Touched
<1> QED
  BY <1>2, <1>3, <1>4 DEF WriteInduction

LEMMA WriteNext == WriteInduction /\ [Next]_vars => WriteInduction'
<1> SUFFICES ASSUME WriteInduction, [Next]_vars PROVE WriteInduction'
  OBVIOUS
<1>1. CASE UNCHANGED vars
  BY <1>1 DEF vars, WriteInduction, TypeOK, Recent, Alone, Newest, Touched, OnStack
<1> QED
  BY <1>1, OpenKeeps, CloseCommitKeeps, CloseClearKeeps, CloseKeepKeeps,
     UpdateSessionKeeps, UpdateDirectKeeps, SessionGcKeeps DEF Next

THEOREM WriteInvariant == Spec => []WriteInduction
  BY WriteInit, WriteNext, PTL DEF Spec

\* The state keeps its type.
THEOREM SessionViewTyped == Spec => []TypeOK
<1>1. WriteInduction => TypeOK
  BY DEF WriteInduction
<1> QED
  BY <1>1, WriteInvariant, PTL

\* However sessions are nested, the innermost one reads its own writes.
THEOREM ReadsOwnWrites == Spec => []OwnWritesRead
<1>1. ASSUME TypeOK PROVE OwnWritesRead
  <2> SUFFICES ASSUME stack # <<>>, NEW id \in Ids, temp[Own][id] # None
               PROVE  Record(id) = temp[Own][id]
    BY DEF OwnWritesRead
  <2>1. Len(stack) \in Nat \ {0}
    BY <1>1, OwnIsSession
  <2>2. Len(stack) \in TouchedAt /\ TouchedAt \subseteq 1 .. Len(stack)
    BY <2>1 DEF TouchedAt, Touched, Own
  <2>3. \A i \in TouchedAt : (\A j \in TouchedAt : i >= j) <=> i = Len(stack)
    BY <2>1, <2>2
  <2>4. (CHOOSE i \in TouchedAt : \A j \in TouchedAt : i >= j) = Len(stack)
    BY <2>2, <2>3
  <2> QED
    BY <2>2, <2>4 DEF Record, Innermost, Own
<1> QED
  BY <1>1, SessionViewTyped, PTL

\* A step that commits rows newer than those of the tables leaves none older.
LEMMA CommitStays ==
    ASSUME WriteInduction, ~layered, stack # <<>>,
           NEW held \in [Ids -> Writes \cup {None, Deleted}],
           \A r \in Rows : held[r] \in Writes => held[r] >= tables[r],
           CommitOwn(held)
    PROVE  \A r \in Rows : tables'[r] = None \/ tables'[r] >= tables[r]
<1>1. TypeOK /\ Recent
  BY DEF WriteInduction
<1>2. tables' \in [Rows -> Writes \cup {None}] /\ Commits(held, tables')
  BY DEF CommitOwn
<1>3. \A r \in Rows : tables[r] \in Nat /\ tables'[r] \in Nat
  BY <1>1, <1>2, Numbers DEF TypeOK
<1> QED
  BY <1>1, <1>2, <1>3, CommitNewer, Numbers

\* As long as sessions are neither nested nor bypassed nor left pending, no row
\* of the tables goes back to an older write.
THEOREM NoOlderWrite == Spec => NewerStays
<1>1. ASSUME WriteInduction, [Next]_vars
      PROVE  [~layered' => \A r \in Rows :
                 tables'[r] = None \/ tables'[r] >= tables[r]]_vars
  <2> SUFFICES ASSUME Next, ~layered', NEW r \in Rows
               PROVE  tables'[r] = None \/ tables'[r] >= tables[r]
    BY <1>1
  <2>1. TypeOK /\ tables[r] \in Nat /\ r \in Ids
    BY <1>1, Numbers DEF WriteInduction, TypeOK
  <2>2. CASE UNCHANGED tables
    BY <2>1, <2>2
  <2>3. CASE CloseCommit
    <3>1. ~layered /\ stack # <<>> /\ CommitOwn(temp[Own])
      BY <2>3 DEF CloseCommit
    <3>2. temp[Own] \in [Ids -> Writes \cup {None, Deleted}] /\ Own \in Sessions
      BY <2>1, <3>1, OwnIsSession DEF TypeOK
    <3>3. \A q \in Rows : temp[Own][q] \in Writes => temp[Own][q] >= tables[q]
      BY <1>1, <3>1, <3>2 DEF WriteInduction, Newest
    <3> QED
      BY <1>1, <3>1, <3>2, <3>3, CommitStays
  <2>4. ASSUME NEW id \in Ids, NEW delete \in BOOLEAN, NEW commit \in BOOLEAN,
               UpdateSession(id, delete, commit)
        PROVE  tables'[r] = None \/ tables'[r] >= tables[r]
    <3> DEFINE held == [temp[Own] EXCEPT ![id] = IF delete THEN Deleted ELSE writes + 1]
    <3>1. ~layered /\ stack # <<>> /\ Own \in Sessions /\ writes \in Nat
          /\ writes < MaxWrites /\ MaxWrites \in Nat
      BY <2>1, <2>4, OwnIsSession, Numbers DEF UpdateSession, TypeOK
    <3>2. writes + 1 \in Writes
      BY <3>1 DEF Writes
    <3>3. held \in [Ids -> Writes \cup {None, Deleted}]
      BY <2>1, <3>1, <3>2 DEF TypeOK
    <3>4. ASSUME NEW q \in Rows, held[q] \in Writes PROVE held[q] >= tables[q]
      <4>1. q \in Ids /\ tables[q] \in Nat /\ tables[q] <= writes
        BY <1>1, <2>1, Numbers DEF WriteInduction, Recent, TypeOK
      <4>2. held[q] \in {temp[Own][q], Deleted, writes + 1}
        BY <2>1, <3>1, <4>1 DEF TypeOK
      <4>3. temp[Own][q] \in Writes => temp[Own][q] >= tables[q]
        BY <1>1, <3>1 DEF WriteInduction, Newest
      <4> HIDE DEF held
      <4> QED
        BY <3>1, <3>4, <4>1, <4>2, <4>3, Numbers
    <3> HIDE DEF held
    <3>5. CASE commit
      <4>1. CommitOwn(held)
        BY <2>4, <3>5 DEF UpdateSession, held
      <4> QED
        BY <1>1, <3>1, <3>3, <3>4, <4>1, CommitStays
    <3>6. CASE ~commit
      BY <2>2, <2>4, <3>6 DEF UpdateSession
    <3> QED
      BY <3>5, <3>6
  <2>5. ASSUME NEW q \in Rows, NEW delete \in BOOLEAN, UpdateDirect(q, delete)
        PROVE  tables'[r] = None \/ tables'[r] >= tables[r]
    <3>1. /\ tables[r] <= writes /\ writes \in Nat
          /\ tables' = [tables EXCEPT ![q] = IF delete THEN None ELSE writes + 1]
      BY <1>1, <2>1, <2>5, Numbers DEF WriteInduction, Recent, UpdateDirect, TypeOK
    <3>2. tables'[r] \in {tables[r], None, writes + 1}
      BY <2>1, <3>1 DEF TypeOK
    <3> QED
      BY <2>1, <3>1, <3>2
  <2> QED
    BY <2>2, <2>3, <2>4, <2>5 DEF Next, Open, CloseClear, CloseKeep, SessionGc
<1> QED
  BY <1>1, WriteInvariant, PTL DEF Spec, NewerStays

-----------------------------------------------------------------------------
(* What a commit makes of the rows a search has shown *)

\* Without layers a session holds something only of rows that the tables have.
Based ==
    ~layered => \A s \in Sessions : \A r \in Rows :
                   temp[s][r] # None => tables[r] # None

LEMMA BasedNext == ASSUME WriteInduction, Based, [Next]_vars PROVE Based'
<1>1. TypeOK
  BY DEF WriteInduction
<1>2. ASSUME tables' = tables, layered => layered',
             \A s \in Sessions : \A r \in Rows : temp'[s][r] \in {temp[s][r], None}
      PROVE  Based'
  BY <1>2 DEF Based
<1>3. ASSUME ~layered, \A s \in Sessions : Touched(s)' => Touched(s) /\ s # Own, stack # <<>>
      PROVE  Based'
  <2>1. Len(stack) = 1
    BY <1>1, <1>3, OwnIsSession DEF WriteInduction, Alone
  <2>2. ASSUME NEW s \in Sessions PROVE ~Touched(s)'
    BY <1>3, <2>1 DEF WriteInduction, Alone, OnStack, Own
  <2>3. Rows \subseteq Ids
    BY Numbers
  <2> QED
    BY <2>2, <2>3 DEF Based, Touched
<1>4. CASE layered'
  BY <1>4 DEF Based
<1>5. ASSUME NEW s \in Sessions, NEW initialize \in BOOLEAN, Open(s, initialize)
      PROVE  Based'
  <2>1. /\ tables' = tables /\ (layered => layered')
        /\ \A q \in Sessions : \A r \in Rows : temp'[q][r] \in {temp[q][r], None}
    BY <1>1, <1>5, ClearedTyped, Numbers DEF Open
  <2> QED
    BY <1>2, <2>1
<1>6. ASSUME NEW s \in Sessions, SessionGc(s) PROVE Based'
  <2>1. /\ tables' = tables /\ (layered => layered')
        /\ \A q \in Sessions : \A r \in Rows : temp'[q][r] \in {temp[q][r], None}
    BY <1>1, <1>6, ClearedTyped, Numbers DEF SessionGc
  <2> QED
    BY <1>2, <2>1
<1>7. CASE CloseClear \/ CloseKeep
  <2>1. CASE CloseKeep
    <3>1. temp' = temp /\ tables' = tables
      BY <2>1 DEF CloseKeep
    <3>2. layered => layered'
      BY <2>1 DEF CloseKeep
    <3> QED
      BY <1>2, <3>1, <3>2
  <2>2. CASE CloseClear
    <3>1. tables' = tables /\ layered' = layered /\ temp' = Cleared(Own) /\ stack # <<>>
      BY <2>2 DEF CloseClear
    <3>2. Own \in Sessions
      BY <1>1, <3>1, OwnIsSession
    <3>3. Rows \subseteq Ids
      BY Numbers
    <3>4. \A q \in Sessions : \A r \in Rows : temp'[q][r] \in {temp[q][r], None}
      BY <1>1, <3>1, <3>2, <3>3, ClearedTyped
    <3> QED
      BY <1>2, <3>1, <3>4
  <2> QED
    BY <1>7, <2>1, <2>2
<1>8. ASSUME stack # <<>>, layered' = layered,
             NEW held, CommitOwn(held)
      PROVE  Based'
  <2>1. \A s \in Sessions : Touched(s)' => Touched(s) /\ s # Own
    BY <1>1, <1>8, OwnIsSession, ClearedTyped DEF CommitOwn, Touched
  <2> QED
    BY <1>3, <1>4, <1>8, <2>1
<1>9. CASE CloseCommit
  BY <1>8, <1>9 DEF CloseCommit
<1>10. ASSUME NEW id \in Ids, NEW delete \in BOOLEAN, NEW commit \in BOOLEAN,
              UpdateSession(id, delete, commit)
       PROVE  Based'
  <2> DEFINE held == [temp[Own] EXCEPT ![id] = IF delete THEN Deleted ELSE writes + 1]
  <2>1. /\ stack # <<>> /\ layered' = layered
        /\ id \in Rows => tables[id] # None
    BY <1>10 DEF UpdateSession
  <2>2. CASE commit
    <3>1. CommitOwn(held)
      BY <1>10, <2>2 DEF UpdateSession
    <3> QED
      BY <1>8, <2>1, <3>1
  <2>3. CASE ~commit
    <3>1. temp' = [temp EXCEPT ![Own] = held] /\ tables' = tables
      BY <1>10, <2>3 DEF UpdateSession
    <3>2. \A s \in Sessions : \A r \in Rows : temp'[s][r] = temp[s][r] \/ r = id
      BY <1>1, <2>1, <3>1, OwnIsSession, Numbers DEF TypeOK
    <3> QED
      BY <2>1, <3>1, <3>2 DEF Based
  <2> QED
    BY <2>2, <2>3
<1>11. ASSUME NEW r \in Rows, NEW delete \in BOOLEAN, UpdateDirect(r, delete)
       PROVE  Based'
  <2>1. CASE layered \/ stack # <<>>
    BY <1>4, <1>11, <2>1 DEF UpdateDirect
  <2>2. CASE ~layered /\ stack = <<>>
    <3>1. \A s \in Sessions : ~Touched(s)
      BY <2>2 DEF WriteInduction, Alone, OnStack
    <3> QED
      BY <1>11, <3>1, Numbers DEF UpdateDirect, Based, Touched
  <2> QED
    BY <1>1, <2>1, <2>2 DEF TypeOK
<1>12. CASE UNCHANGED vars
  BY <1>12 DEF vars, Based
<1> QED
  BY <1>5, <1>6, <1>7, <1>9, <1>10, <1>11, <1>12 DEF Next

Kept == WriteInduction /\ Based

LEMMA KeptInvariant == Spec => []Kept
<1>1. Init => Kept
  <2> SUFFICES ASSUME Init PROVE Kept
    OBVIOUS
  <2>1. Rows \subseteq Ids
    BY Numbers
  <2>2. \A q \in Sessions : \A r \in Rows : temp[q][r] = None
    BY <2>1 DEF Init
  <2>3. Based
    BY <2>2 DEF Based
  <2> QED
    BY <2>3, WriteInit DEF Kept
<1>2. Kept /\ [Next]_vars => Kept'
  BY WriteNext, BasedNext DEF Kept
<1> QED
  BY <1>1, <1>2, PTL DEF Spec

\* Without layers a search shows what the one open session makes of the tables.
LEMMA FoundInOwn ==
    ASSUME WriteInduction, ~layered, stack # <<>>
    PROVE  Found = ResultWith(Own)
<1>1. Len(stack) = 1 /\ stack[1] = Own
  BY OwnIsSession DEF WriteInduction, Alone, Own
<1>2. CASE Touched(Own)
  <2>1. TouchedAt = {1}
    BY <1>1, <1>2 DEF TouchedAt
  <2>2. (CHOOSE i \in TouchedAt : \A j \in TouchedAt : i <= j) = 1
    BY <2>1
  <2> QED
    BY <1>1, <2>1, <2>2 DEF Found, Outermost
<1>3. CASE ~Touched(Own)
  <2>1. TouchedAt = {}
    BY <1>1, <1>3 DEF TouchedAt
  <2>2. \A id \in Ids : temp[Own][id] = None
    BY <1>3 DEF Touched
  <2> QED
    BY <2>1, <2>2, Numbers DEF Found, ResultWith
<1> QED
  BY <1>2, <1>3

LEMMA IdsFinite == IsFiniteSet(Ids)
<1>1. MaxRow \in Int /\ -MaxNew \in Int /\ 1 \in Int /\ -1 \in Int
  BY SessionViewBounds
<1>2. IsFiniteSet(Rows) /\ IsFiniteSet(NewRows)
  BY <1>1, FS_Interval DEF Rows, NewRows
<1> QED
  BY <1>2, FS_Union DEF Ids

\* A commit gives each row that a search shows a row of the tables of its own,
\* and there are no others.
LEMMA CommitOfFound ==
    ASSUME WriteInduction, Based, ~layered, CloseCommit
    PROVE  /\ Found \cap Rows \subseteq Live(tables')
           /\ Cardinality(Found) = Cardinality(Live(tables'))
<1> DEFINE held == temp[Own]
           new == {id \in NewRows : held[id] \in Writes}
           free == {r \in Rows : tables[r] = None /\ held[r] = None}
           found == ResultWith(Own)
<1>1. /\ TypeOK /\ stack # <<>> /\ Own \in Sessions /\ Commits(held, tables')
      /\ tables' \in [Rows -> Writes \cup {None}]
  BY OwnIsSession DEF WriteInduction, CloseCommit, CommitOwn
<1>2. PICK place \in [new -> free] :
         /\ \A i, j \in new : i # j => place[i] # place[j]
         /\ \A r \in Rows :
               \/ \E i \in new : place[i] = r /\ tables'[r] = held[i]
               \/ /\ \A i \in new : place[i] # r
                  /\ \/ tables'[r] = Committed(tables[r], held[r])
                     \/ tables[r] = None /\ tables'[r] = None
  <2>1. PICK p \in [new -> free] :
           /\ \A i, j \in DOMAIN p : i # j => p[i] # p[j]
           /\ \A r \in Rows :
                 \/ \E i \in DOMAIN p : p[i] = r /\ tables'[r] = held[i]
                 \/ /\ \A i \in DOMAIN p : p[i] # r
                    /\ \/ tables'[r] = Committed(tables[r], held[r])
                       \/ tables[r] = None /\ tables'[r] = None
    BY <1>1, Zenon DEF Commits
  <2>2. DOMAIN p = new
    OBVIOUS
  <2>3. \A i, j \in new : i # j => p[i] # p[j]
    BY <2>1, <2>2
  <2>4. ASSUME NEW r \in Rows
        PROVE  \/ \E i \in new : p[i] = r /\ tables'[r] = held[i]
               \/ /\ \A i \in new : p[i] # r
                  /\ \/ tables'[r] = Committed(tables[r], held[r])
                     \/ tables[r] = None /\ tables'[r] = None
    <3> HIDE DEF held, new
    <3> QED
      BY <2>1, <2>2, Zenon
  <2> WITNESS p \in [new -> free]
  <2> HIDE DEF held, new, free
  <2> QED
    BY <2>3, <2>4, Zenon
<1>3. \A id \in Ids : held[id] \in Writes \cup {None, Deleted}
  BY <1>1 DEF TypeOK
<1>4. \A r \in Rows : held[r] # None => tables[r] # None
  BY <1>1 DEF Based
<1>5. Rows \cap NewRows = {} /\ Ids = NewRows \cup Rows
  BY SessionViewBounds DEF Rows, NewRows, Ids
<1>6. found = {r \in Rows : held[r] \in Writes \/ (held[r] = None /\ tables[r] # None)}
                 \cup new
  BY <1>5 DEF ResultWith
<1> HIDE DEF held, found
<1>7. \A r \in Rows : (\A i \in new : place[i] # r) =>
         (tables'[r] # None <=> r \in found)
  <2> TAKE r \in Rows
  <2> HAVE \A i \in new : place[i] # r
  <2>1. tables'[r] = Committed(tables[r], held[r])
    BY <1>2, <1>4 DEF Committed
  <2>2. r \in found <=> held[r] \in Writes \/ (held[r] = None /\ tables[r] # None)
    BY <1>5, <1>6
  <2>3. held[r] \in Writes \cup {None, Deleted}
    BY <1>3, <1>5
  <2> QED
    BY <2>1, <2>2, <2>3, Numbers DEF Committed
<1>8. \A i \in new : /\ place[i] \in Rows /\ place[i] \notin found
                     /\ tables'[place[i]] # None /\ i \notin Rows
  <2> TAKE i \in new
  <2>1. place[i] \in free /\ i \in NewRows /\ held[i] \in Writes
    BY <1>2
  <2>2. tables'[place[i]] = held[i]
    BY <1>2, <2>1
  <2> QED
    BY <1>5, <1>6, <2>1, <2>2, Numbers
<1>9. Found = found
  BY <1>1, FoundInOwn DEF found
<1>10. \A r \in found \cap Rows : \A i \in new : place[i] # r
  BY <1>8
<1>11. found \cap Rows \subseteq Live(tables')
  BY <1>7, <1>10 DEF Live
<1> DEFINE f == [id \in found |-> IF id \in Rows THEN id ELSE place[id]]
<1>12. ASSUME NEW id \in found PROVE id \in Rows \/ id \in new
  BY <1>6
<1>13. f \in [found -> Live(tables')]
  <2> SUFFICES ASSUME NEW id \in found
               PROVE  (IF id \in Rows THEN id ELSE place[id]) \in Live(tables')
    OBVIOUS
  <2>1. CASE id \in Rows
    BY <1>11, <2>1
  <2>2. CASE id \notin Rows
    BY <1>8, <1>12, <2>2 DEF Live
  <2> QED
    BY <2>1, <2>2
<1>14. ASSUME NEW a \in found, NEW b \in found, f[a] = f[b] PROVE a = b
  <2>1. CASE a \in Rows /\ b \in Rows
    BY <1>14, <2>1
  <2>2. CASE a \in Rows /\ b \notin Rows
    BY <1>10, <1>12, <1>14, <2>2
  <2>3. CASE a \notin Rows /\ b \in Rows
    BY <1>10, <1>12, <1>14, <2>3
  <2>4. CASE a \notin Rows /\ b \notin Rows
    BY <1>2, <1>12, <1>14, <2>4
  <2> QED
    BY <2>1, <2>2, <2>3, <2>4
<1>15. ASSUME NEW r \in Live(tables') PROVE \E id \in found : f[id] = r
  <2>1. r \in Rows /\ tables'[r] # None
    BY DEF Live
  <2>2. CASE \E i \in new : place[i] = r
    <3>1. PICK i \in new : place[i] = r
      BY <2>2
    <3>2. i \in found /\ i \notin Rows
      BY <1>6, <1>8
    <3> QED
      BY <3>1, <3>2
  <2>3. CASE \A i \in new : place[i] # r
    <3>1. r \in found
      BY <1>7, <2>1, <2>3
    <3> QED
      BY <2>1, <3>1
  <2> QED
    BY <2>2, <2>3
<1>16. ExistsBijection(found, Live(tables'))
  <2>1. f \in Injection(found, Live(tables'))
    BY <1>13, <1>14 DEF Injection, IsInjective
  <2>2. f \in Surjection(found, Live(tables'))
    BY <1>13, <1>15 DEF Surjection
  <2> HIDE DEF f
  <2> QED
    BY <2>1, <2>2 DEF Bijection, ExistsBijection
<1>17. IsFiniteSet(found)
  <2>1. found \in SUBSET Ids
    BY <1>5, <1>6
  <2> QED
    BY <2>1, IdsFinite, FS_Subset
<1> QED
  BY <1>9, <1>11, <1>16, <1>17, FS_Bijection

\* What a search shows before a session closes is what its commit leaves in the
\* tables, as long as sessions are neither nested nor bypassed nor left pending.
THEOREM CommitsTheShown == Spec => ShownIsCommitted
<1>1. ASSUME Kept, [Next]_vars
      PROVE  [CloseCommit /\ ~layered =>
                /\ Found \cap Rows \subseteq Live(tables')
                /\ Cardinality(Found) = Cardinality(Live(tables'))]_vars
  BY <1>1, CommitOfFound DEF Kept
<1> QED
  BY <1>1, KeptInvariant, PTL DEF Spec, ShownIsCommitted

-----------------------------------------------------------------------------
(* A session as a transaction *)

\* A session that holds nothing, or none, shows the tables.
NothingHeld == stack = <<>> \/ \A id \in Ids : temp[Own][id] = None

LEMMA NothingShown ==
    /\ NothingHeld => View = Transaction!Base(tables)
    /\ NothingHeld' => View' = Transaction!Base(tables)'
<1>1. Ids = Rows \cup NewRows
  BY DEF Ids
<1>2. ASSUME NothingHeld PROVE View = Transaction!Base(tables)
  BY <1>1, <1>2, Numbers DEF View, ViewOf, Nothing, Transaction!Base, NothingHeld
<1>3. ASSUME NothingHeld' PROVE View' = Transaction!Base(tables)'
  BY <1>1, <1>3, Numbers DEF View, ViewOf, Nothing, Transaction!Base, NothingHeld
<1> QED
  BY <1>2, <1>3

\* What a commit may leave in the tables is what the abstract one may.
LEMMA CommitPublishes ==
    ASSUME TypeOK, NEW held \in [Ids -> Writes \cup {None, Deleted}],
           \A r \in Rows : held[r] # None => tables[r] # None,
           NEW t, Commits(held, t)
    PROVE  Transaction!Published(ViewOf(held), t)
<1> DEFINE new == {id \in NewRows : held[id] \in Writes}
           free == {r \in Rows : tables[r] = None /\ held[r] = None}
           v == ViewOf(held)
<1>1. Rows \subseteq Ids /\ NewRows \subseteq Ids /\ Rows \cap NewRows = {}
  BY SessionViewBounds, Numbers DEF Rows, NewRows
<1>2. new = {id \in NewRows : v[id] # None}
  <2>1. \A id \in NewRows : held[id] \in Writes <=> v[id] # None
    BY <1>1, Numbers DEF ViewOf
  <2> QED
    BY <2>1
<1>3. free = {r \in Rows : tables[r] = None}
  OBVIOUS
<1>4. \A id \in new : v[id] = held[id]
  BY <1>1, Numbers DEF ViewOf
<1>5. \A r \in Rows : v[r] = Committed(tables[r], held[r])
  BY <1>1, Numbers DEF ViewOf, Committed
<1>6. \A r \in Rows : tables[r] = None => v[r] = None
  BY <1>1, Numbers DEF ViewOf
<1> HIDE DEF v
<1>7. PICK p \in [new -> free] :
         /\ \A i, j \in DOMAIN p : i # j => p[i] # p[j]
         /\ \A r \in Rows :
               \/ \E i \in DOMAIN p : p[i] = r /\ t[r] = held[i]
               \/ /\ \A i \in DOMAIN p : p[i] # r
                  /\ \/ t[r] = Committed(tables[r], held[r])
                     \/ tables[r] = None /\ t[r] = None
  BY Zenon DEF Commits
<1>8. DOMAIN p = new
  OBVIOUS
<1>9. p \in [{id \in NewRows : v[id] # None} -> {r \in Rows : tables[r] = None}]
  BY <1>2, <1>3
<1>10. \A r \in Rows :
          \/ \E i \in DOMAIN p : p[i] = r /\ t[r] = v[i]
          \/ t[r] = v[r] /\ \A i \in DOMAIN p : p[i] # r
  <2> TAKE r \in Rows
  <2>1. CASE \E i \in DOMAIN p : p[i] = r /\ t[r] = held[i]
    <3>1. PICK i \in DOMAIN p : p[i] = r /\ t[r] = held[i]
      BY <2>1
    <3>2. v[i] = held[i]
      BY <1>4, <1>8
    <3> QED
      BY <3>1, <3>2
  <2>2. CASE /\ \A i \in DOMAIN p : p[i] # r
             /\ \/ t[r] = Committed(tables[r], held[r])
                \/ tables[r] = None /\ t[r] = None
    BY <1>5, <1>6, <2>2
  <2> QED
    BY <1>7, <2>1, <2>2
<1>11. Transaction!Published(v, t)
  <2> HIDE DEF new, free
  <2> QED
    BY <1>7, <1>9, <1>10, Zenon DEF Transaction!Published
<1> QED
  BY <1>11 DEF v

\* A commit publishes what the session holds.
LEMMA CommitIsPublish ==
    ASSUME TypeOK, stack # <<>>, stack' = <<>> \/ stack' = stack,
           NEW held \in [Ids -> Writes \cup {None, Deleted}],
           \A r \in Rows : held[r] # None => tables[r] # None,
           CommitOwn(held)
    PROVE  Transaction!Publish(ViewOf(held))
<1>1. PICK t \in [Rows -> Writes \cup {None}] : Commits(held, t) /\ tables' = t
  BY DEF CommitOwn
<1>2. Transaction!Published(ViewOf(held), t)
  BY <1>1, CommitPublishes
<1>3. temp' = Cleared(Own) /\ Own \in Sessions
  BY OwnIsSession DEF CommitOwn
<1>4. \A id \in Ids : temp'[Own][id] = None
  BY <1>3, ClearedTyped
<1>5. NothingHeld'
  BY <1>4 DEF NothingHeld, Own
<1>6. View' = Transaction!Base(tables)'
  BY <1>5, NothingShown
<1>7. Transaction!Base(tables)' = Transaction!Base(t)
  BY <1>1 DEF Transaction!Base
<1> QED
  BY <1>1, <1>2, <1>6, <1>7 DEF Transaction!Publish

LEMMA OpenIsBegin ==
    ASSUME Kept, NEW s \in Sessions, NEW initialize \in BOOLEAN,
           Open(s, initialize), ~layered'
    PROVE  Transaction!Begin
<1>1. TypeOK /\ ~layered /\ stack = <<>> /\ stack' = Append(stack, s) /\ tables' = tables
  BY DEF Kept, WriteInduction, TypeOK, Open
<1>2. stack' # <<>> /\ Own' = s
  BY <1>1, AppendProperties DEF TypeOK, Own
<1>3. ~Touched(s)
  BY <1>1 DEF Kept, WriteInduction, Alone, OnStack
<1>4. \A id \in Ids : temp'[s][id] = None
  BY <1>1, <1>3, ClearedTyped DEF Open, Touched
<1>5. NothingHeld /\ NothingHeld'
  BY <1>1, <1>2, <1>4 DEF NothingHeld
<1>6. View' = View
  BY <1>1, <1>5, NothingShown DEF Transaction!Base
<1> QED
  BY <1>1, <1>2, <1>6 DEF Transaction!Begin

LEMMA CloseIsTransaction ==
    ASSUME Kept, CloseCommit \/ CloseClear \/ CloseKeep, ~layered'
    PROVE  Transaction!Commit \/ Transaction!Rollback
<1>1. TypeOK /\ ~layered /\ stack # <<>>
  BY DEF Kept, WriteInduction, TypeOK, CloseCommit, CloseClear, CloseKeep
<1>2. Len(stack) = 1 /\ Own \in Sessions
  BY <1>1, OwnIsSession DEF Kept, WriteInduction, Alone
<1>3. stack' = <<>>
  <2>1. stack' \in Seq(Sessions) /\ Len(stack') = 0
    BY <1>1, <1>2, OwnIsSession DEF CloseCommit, CloseClear, CloseKeep
  <2> QED
    BY <2>1, EmptySeq
<1>4. CASE CloseCommit
  <2>1. temp[Own] \in [Ids -> Writes \cup {None, Deleted}]
    BY <1>1, <1>2 DEF TypeOK
  <2>2. \A r \in Rows : temp[Own][r] # None => tables[r] # None
    BY <1>1, <1>2 DEF Kept, Based
  <2>3. Transaction!Publish(ViewOf(temp[Own]))
    BY <1>1, <1>3, <1>4, <2>1, <2>2, CommitIsPublish DEF CloseCommit
  <2>4. View = ViewOf(temp[Own])
    BY <1>1 DEF View
  <2> QED
    BY <1>1, <1>3, <2>3, <2>4 DEF Transaction!Commit
<1>5. CASE CloseClear \/ CloseKeep
  <2>1. NothingHeld' /\ tables' = tables
    BY <1>3, <1>5 DEF NothingHeld, CloseClear, CloseKeep
  <2>2. View' = Transaction!Base(tables)'
    BY <2>1, NothingShown
  <2>3. Transaction!Base(tables)' = Transaction!Base(tables)
    BY <2>1 DEF Transaction!Base
  <2> QED
    BY <1>1, <1>3, <2>1, <2>2, <2>3 DEF Transaction!Rollback
<1> QED
  BY <1>4, <1>5

LEMMA UpdateIsUpdate ==
    ASSUME Kept, NEW id \in Ids, NEW delete \in BOOLEAN, NEW commit \in BOOLEAN,
           UpdateSession(id, delete, commit), ~layered'
    PROVE  \E value \in Writes \cup {None}, i \in Rows \cup NewRows, c \in {TRUE, FALSE} :
              Transaction!Update(i, value, c)
<1> DEFINE held == [temp[Own] EXCEPT ![id] = IF delete THEN Deleted ELSE writes + 1]
           value == IF delete THEN None ELSE writes + 1
<1>1. /\ TypeOK /\ ~layered /\ stack # <<>> /\ stack' = stack
      /\ id \in Rows => tables[id] # None
  BY DEF Kept, WriteInduction, UpdateSession
<1>2. writes + 1 \in Writes /\ Own \in Sessions
  BY <1>1, OwnIsSession, Numbers DEF UpdateSession, TypeOK, Writes
<1>3. held \in [Ids -> Writes \cup {None, Deleted}] /\ value \in Writes \cup {None}
  BY <1>1, <1>2 DEF TypeOK
<1>4. \A r \in Rows : held[r] # None => tables[r] # None
  <2> TAKE r \in Rows
  <2>1. r \in Ids /\ (temp[Own][r] # None => tables[r] # None)
    BY <1>1, <1>2, Numbers DEF Kept, Based
  <2>2. r # id => held[r] = temp[Own][r]
    BY <1>1, <1>2, <2>1 DEF TypeOK
  <2> QED
    BY <1>1, <2>1, <2>2
<1>5. ViewOf(held) = [View EXCEPT ![id] = value]
  <2>1. View = ViewOf(temp[Own])
    BY <1>1 DEF View
  <2>2. temp[Own] \in [Ids -> Writes \cup {None, Deleted}]
    BY <1>1, <1>2 DEF TypeOK
  <2>3. \A i \in Ids : i # id => held[i] = temp[Own][i]
    BY <2>2
  <2>4. held[id] = IF delete THEN Deleted ELSE writes + 1
    BY <2>2
  <2> HIDE DEF held
  <2>5. \A i \in Ids : ViewOf(held)[i] = [View EXCEPT ![id] = value][i]
    BY <1>2, <2>1, <2>3, <2>4, Numbers DEF ViewOf
  <2> QED
    BY <2>1, <2>5 DEF ViewOf
<1>6. \A c \in {TRUE, FALSE} : c = commit => Transaction!Update(id, value, c)
  <2>1. CASE commit
    <3>1. CommitOwn(held)
      BY <2>1 DEF UpdateSession
    <3> HIDE DEF held
    <3>2. Transaction!Publish(ViewOf(held))
      BY <1>1, <1>3, <1>4, <3>1, CommitIsPublish
    <3> QED
      BY <1>1, <1>5, <2>1, <3>2 DEF Transaction!Update
  <2>2. CASE ~commit
    <3>1. temp' = [temp EXCEPT ![Own] = held] /\ tables' = tables
      BY <2>2 DEF UpdateSession
    <3>2. stack' # <<>> /\ temp'[Own'] = held
      BY <1>1, <1>2, <3>1 DEF TypeOK, Own
    <3> HIDE DEF held
    <3>3. View' = ViewOf(held)
      BY <3>1, <3>2 DEF View, ViewOf
    <3> QED
      BY <1>1, <1>5, <2>2, <3>1, <3>3 DEF Transaction!Update
  <2> QED
    BY <2>1, <2>2
<1>7. id \in Rows \cup NewRows
  BY DEF Ids
<1> HIDE DEF value
<1> QED
  BY <1>3, <1>6, <1>7

LEMMA DirectIsWrite ==
    ASSUME Kept, NEW r \in Rows, NEW delete \in BOOLEAN, UpdateDirect(r, delete), ~layered'
    PROVE  \E value \in Writes \cup {None} : Transaction!Write(r, value)
<1> DEFINE value == IF delete THEN None ELSE writes + 1
<1>1. /\ stack = <<>> /\ stack' = stack /\ tables' = [tables EXCEPT ![r] = value]
      /\ TypeOK /\ writes < MaxWrites
  BY DEF Kept, WriteInduction, TypeOK, UpdateDirect
<1>2. value \in Writes \cup {None}
  BY <1>1, Numbers DEF Writes, TypeOK
<1>3. NothingHeld'
  BY <1>1 DEF NothingHeld
<1>4. View' = Transaction!Base(tables)'
  BY <1>3, NothingShown
<1>5. Transaction!Write(r, value)
  BY <1>1, <1>4 DEF Transaction!Write, Transaction!Base
<1> QED
  BY <1>2, <1>5

LEMMA GcIsNothing ==
    ASSUME Kept, NEW s \in Sessions, SessionGc(s), ~layered'
    PROVE  UNCHANGED Transaction!vars
<1>1. TypeOK /\ UNCHANGED <<tables, stack>> /\ ~OnStack(s) /\ temp' = Cleared(s)
  BY DEF Kept, WriteInduction, SessionGc
<1>2. stack # <<>> => temp'[Own'] = temp[Own]
  <2> SUFFICES ASSUME stack # <<>> PROVE temp'[Own'] = temp[Own]
    OBVIOUS
  <2>1. Own \in Sessions /\ OnStack(Own)
    BY <1>1, OwnIsSession DEF OnStack, Own
  <2> QED
    BY <1>1, <2>1, ClearedTyped DEF Own
<1>3. View' = View
  BY <1>1, <1>2 DEF View, ViewOf, Nothing
<1> QED
  BY <1>1, <1>3 DEF Transaction!vars

\* As long as sessions are neither nested nor bypassed nor left pending, each one
\* is a transaction on the view of the collection that the document has.
THEOREM SessionsAreTransactions == Spec => Transactional
<1>1. Init => Transaction!Init
  <2> SUFFICES ASSUME Init PROVE Transaction!Init
    OBVIOUS
  <2>1. NothingHeld
    BY DEF Init, NothingHeld
  <2> QED
    BY <2>1, NothingShown DEF Init, Transaction!Init
<1>2. ASSUME Kept, [Next]_vars
      PROVE  [~layered' => [Transaction!Next]_(Transaction!vars)]_vars
  <2> SUFFICES ASSUME Next, ~layered' PROVE [Transaction!Next]_(Transaction!vars)
    BY <1>2
  <2>1. CASE \E s \in Sessions, initialize \in BOOLEAN : Open(s, initialize)
    BY <1>2, <2>1, OpenIsBegin DEF Transaction!Next
  <2>2. CASE CloseCommit \/ CloseClear \/ CloseKeep
    BY <1>2, <2>2, CloseIsTransaction DEF Transaction!Next
  <2>3. CASE \E delete \in BOOLEAN, id \in Ids, commit \in BOOLEAN :
                UpdateSession(id, delete, commit)
    BY <1>2, <2>3, UpdateIsUpdate DEF Transaction!Next
  <2>4. CASE \E delete \in BOOLEAN, r \in Rows : UpdateDirect(r, delete)
    BY <1>2, <2>4, DirectIsWrite DEF Transaction!Next
  <2>5. CASE \E s \in Sessions : SessionGc(s)
    BY <1>2, <2>5, GcIsNothing
  <2> QED
    BY <2>1, <2>2, <2>3, <2>4, <2>5 DEF Next
<1> QED
  BY <1>1, <1>2, KeptInvariant, PTL DEF Spec, Transactional

\* A search shows the rows of that view.
THEOREM SearchesShowView == Spec => []SearchShowsView
<1>1. ASSUME Kept PROVE SearchShowsView
  <2> SUFFICES ASSUME ~layered PROVE Found = {id \in Ids : View[id] # None}
    BY DEF SearchShowsView
  <2>1. /\ WriteInduction /\ Based /\ TypeOK
        /\ \A s \in Sessions : Touched(s) => OnStack(s)
    BY <1>1 DEF Kept, WriteInduction, Alone
  <2>2. Rows \subseteq Ids /\ Rows \cap NewRows = {} /\ Ids = Rows \cup NewRows
    BY SessionViewBounds DEF Rows, NewRows, Ids
  <2>3. CASE stack = <<>>
    <3>1. Found = {r \in Rows : tables[r] # None}
      BY <2>3 DEF TouchedAt, Found
    <3> QED
      BY <2>2, <2>3, <3>1 DEF View, ViewOf, Nothing
  <2>4. CASE stack # <<>>
    <3>1. Own \in Sessions /\ Found = ResultWith(Own)
      BY <2>1, <2>4, OwnIsSession, FoundInOwn
    <3>2. View = ViewOf(temp[Own])
      BY <2>4 DEF View
    <3>3. \A id \in Ids : temp[Own][id] \in Writes \cup {None, Deleted}
      BY <2>1, <3>1 DEF TypeOK
    <3>4. \A id \in Ids : id \in ResultWith(Own) <=> ViewOf(temp[Own])[id] # None
      BY <2>2, <3>3, Numbers DEF ResultWith, ViewOf
    <3> QED
      BY <3>1, <3>2, <3>4 DEF ResultWith
  <2> QED
    BY <2>3, <2>4
<1> QED
  BY <1>1, KeptInvariant, PTL

=============================================================================
