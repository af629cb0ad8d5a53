------------------------------ MODULE MCServer ------------------------------
(***************************************************************************)
(* Small instances of Server.                                              *)
(***************************************************************************)
EXTENDS Server, TLC
CONSTANTS c1, c2, d1, d2

\* Both clients use one database.
OneDb == [c \in {c1, c2} |-> d1]
\* Each has its own.
OwnDb == (c1 :> d1) @@ (c2 :> d2)
=============================================================================
