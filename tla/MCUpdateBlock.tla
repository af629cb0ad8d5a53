---------------------------- MODULE MCUpdateBlock ----------------------------
(***************************************************************************)
(* A small instance of UpdateBlock.                                        *)
(***************************************************************************)
EXTENDS UpdateBlock

\* Two rows that depend on each other, and a relation left for a third one.
MCOldRows == {1, 2}
MCOldRelation == {<<1, 2>>, <<2, 1>>, <<3, 2>>}

\* A row of a session, a new row, an old one, one that is not there, and a number
\* too wide for a row.
MCNamed == {-1, 0, 2, 3, 8}
\* The first row.
MCDependable == {1}
=============================================================================
