------------------------------ MODULE MCParser ------------------------------
(***************************************************************************)
(* The documents TLC explores Parser with: each run takes a part of the    *)
(* vocabulary, so that its documents can nest deeper.                      *)
(***************************************************************************)
EXTENDS Parser

\* Sessions, updates and scopes of search(), with the errors an update swallows.
SessionDocuments == {"session", "update", "search", "narrow", "error"}
\* Elements scanned by search() and case(), with stray start tags, and elements
\* that loop, are parsed a second time, push scopes of variables or are skipped.
ScannedDocuments ==
    {"html", "session", "search", "narrow", "join", "case", "value", "unhandled",
     "element", "scope", "sort", "re", "for", "while", "include", "skipped"}
\* A session with elements that count in it, as in the repository's example.
ExampleDocuments == {"session", "update"}
=============================================================================
