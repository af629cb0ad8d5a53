----------------------------- MODULE MCWebServer -----------------------------
(***************************************************************************)
(* A small instance of WebServer: two requests for one host, the visitor   *)
(* of one of them slow, and one for a static file of another host, or if   *)
(* that file is removed for a document that may be interpreted forever.    *)
(* The request.xml of the first host includes itself.                      *)
(***************************************************************************)
EXTENDS WebServer, TLC

CONSTANTS plain, slow, other, site, endless, style, home, pages

HostsNamed == plain :> site @@ slow :> site @@ other :> endless
PathsNamed == plain :> None @@ slow :> None @@ other :> style
RequestFiles == site :> home @@ endless :> pages
IncludedFiles == site :> {home} @@ endless :> {}
=============================================================================
