----------------------------- MODULE SerialRuns -----------------------------
(***************************************************************************)
(* What wild-doc-server promises the programs that use it: a database      *)
(* interprets one document at a time, and the requests of a connection are *)
(* interpreted and answered one after the other, each at most once.  A     *)
(* document that panics breaks its database: nothing is interpreted on it  *)
(* any more.                                                               *)
(***************************************************************************)
EXTENDS Naturals

CONSTANTS
    Clients, Dbs,
    None,           \* no client
    MaxRequests     \* bound: requests on one connection

VARIABLES
    runner,     \* the client whose document a database is interpreting
    broken,     \* databases that interpret nothing any more
    sent,       \* requests a client has made,
    ran,        \* of them those that were interpreted,
    answered    \* and those whose answer it has

vars == <<runner, broken, sent, ran, answered>>

Init ==
    /\ runner = [d \in Dbs |-> None]
    /\ broken = {}
    /\ sent = [c \in Clients |-> 0]
    /\ ran = [c \in Clients |-> 0]
    /\ answered = [c \in Clients |-> 0]

Send(c) ==
    /\ answered[c] = sent[c]
    /\ sent[c] < MaxRequests
    /\ sent' = [sent EXCEPT ![c] = @ + 1]
    /\ UNCHANGED <<runner, broken, ran, answered>>

Begin(c, d) ==
    /\ ran[c] < sent[c]
    /\ runner[d] = None /\ d \notin broken
    /\ \A other \in Dbs : runner[other] # c
    /\ runner' = [runner EXCEPT ![d] = c]
    /\ UNCHANGED <<broken, sent, ran, answered>>

Finish(c, d) ==
    /\ runner[d] = c
    /\ runner' = [runner EXCEPT ![d] = None]
    /\ ran' = [ran EXCEPT ![c] = @ + 1]
    /\ UNCHANGED <<broken, sent, answered>>

Break(c, d) ==
    /\ runner[d] = c
    /\ runner' = [runner EXCEPT ![d] = None]
    /\ broken' = broken \cup {d}
    /\ UNCHANGED <<sent, ran, answered>>

Answer(c) ==
    /\ answered[c] < ran[c]
    /\ answered' = [answered EXCEPT ![c] = @ + 1]
    /\ UNCHANGED <<runner, broken, sent, ran>>

\* The process ends and takes every document being interpreted with it.
Exit ==
    /\ runner' = [d \in Dbs |-> None]
    /\ UNCHANGED <<broken, sent, ran, answered>>

Next ==
    \/ \E c \in Clients :
          \/ Send(c) \/ Answer(c)
          \/ \E d \in Dbs : Begin(c, d) \/ Finish(c, d) \/ Break(c, d)
    \/ Exit

Spec == Init /\ [][Next]_vars

\* A request is interpreted at most once and answered after that, a connection has
\* one request at a time, and a document is interpreted for a request that was
\* made, on one database, which is not broken.
Accounted ==
    \A c \in Clients :
       /\ answered[c] <= ran[c] /\ ran[c] <= sent[c] /\ sent[c] <= answered[c] + 1
       /\ \A d \in Dbs : runner[d] = c =>
             /\ ran[c] < sent[c] /\ d \notin broken
             /\ \A other \in Dbs : runner[other] = c => other = d
=============================================================================
