---------------------------- MODULE MCSessionView ----------------------------
(***************************************************************************)
(* A small instance of SessionView.                                        *)
(***************************************************************************)
EXTENDS SessionView
CONSTANTS s1, s2
=============================================================================
