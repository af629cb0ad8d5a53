----------------------------- MODULE ModuleCache -----------------------------
(***************************************************************************)
(* The cache of JavaScript modules that documents import over HTTP         *)
(* (wild-doc-script-deno/src/module_loader.rs).  One file of the cache is  *)
(* modelled, with the loads that use it: specifiers that differ in their   *)
(* fragment share the file.  The loads of a run are futures of one thread: *)
(* they interleave where they await the host, and runs of one database     *)
(* follow one another.  The process can die at any step; the file stays.   *)
(*                                                                         *)
(* A body is the number of the version of the module that the host sent,   *)
(* an error page being a version like any other: the status of a response  *)
(* is looked at for redirects only.                                        *)
(***************************************************************************)
EXTENDS Integers

CONSTANTS
    Loads,          \* the loads of a run
    MaxHops,        \* the redirects that are followed
    MaxVersions     \* bound: versions of the module on its host

ASSUME ModuleCacheBounds == MaxHops \in Nat /\ MaxVersions \in Nat \ {0}

VARIABLES
    file,           \* the file of the cache
    load,           \* what each load of the run is doing
    hops,           \* redirects it has followed
    body,           \* what it was sent, or its result
    host,           \* the version on the host
    interrupted     \* history: a write to the file was not finished

vars == <<file, load, hops, body, host, interrupted>>

NoFile == 0
\* A part of a body, or nothing of it.
Cut == -1
Versions == 1 .. MaxVersions
States == {"idle", "asking", "receiving", "writing", "loaded", "failed"}

TypeOK ==
    /\ file \in Versions \cup {NoFile, Cut}
    /\ load \in [Loads -> States]
    /\ hops \in [Loads -> 0 .. MaxHops]
    /\ body \in [Loads -> Versions \cup {NoFile, Cut}]
    /\ host \in Versions
    /\ interrupted \in BOOLEAN

Init ==
    /\ file = NoFile
    /\ load = [l \in Loads |-> "idle"]
    /\ hops = [l \in Loads |-> 0]
    /\ body = [l \in Loads |-> NoFile]
    /\ host = 1
    /\ interrupted = FALSE

\* The thread is in the middle of a write: no other future runs.
Writing == \E l \in Loads : load[l] = "writing"
To(l, state) == load' = [load EXCEPT ![l] = state]

\* load(): a file that exists is the module, whatever it holds, and errors of
\* reading it are ignored.
\* Mutant: the file is a copy to fall back on.
Cached_Never == FALSE
Cached == file # NoFile
ReadFile(l) ==
    /\ load[l] = "idle" /\ ~Writing /\ Cached
    /\ To(l, "loaded")
    /\ \E b \in {file, Cut} : body' = [body EXCEPT ![l] = b]
    /\ UNCHANGED <<file, hops, host, interrupted>>
Ask(l) ==
    /\ load[l] = "idle" /\ ~Writing /\ ~Cached
    /\ To(l, "asking")
    /\ UNCHANGED <<file, hops, body, host, interrupted>>

\* get_redirected_response(): another request, to the next location.
\* Mutant: the count of redirects starts again.
Counted_Again(n) == (n + 1) % MaxHops
Counted(n) == n + 1
Redirect(l) ==
    /\ load[l] = "asking" /\ ~Writing /\ hops[l] < MaxHops
    /\ hops' = [hops EXCEPT ![l] = Counted(@)]
    /\ UNCHANGED <<file, load, body, host, interrupted>>

\* One redirect too many, or without a location, and requests that fail.
Fails(l) ==
    /\ load[l] = "asking" /\ ~Writing
    /\ To(l, "failed")
    /\ UNCHANGED <<file, hops, body, host, interrupted>>

Respond(l) ==
    /\ load[l] = "asking" /\ ~Writing
    /\ To(l, "receiving")
    /\ body' = [body EXCEPT ![l] = host]
    /\ UNCHANGED <<file, hops, host, interrupted>>

\* The body was received and the file opened, which empties it.
Receive(l) ==
    /\ load[l] = "receiving" /\ ~Writing
    /\ To(l, "writing")
    /\ file' = Cut
    /\ UNCHANGED <<hops, body, host, interrupted>>

\* The file or its directory cannot be made, or the body is empty: nothing is kept.
ReceiveOnly(l) ==
    /\ load[l] = "receiving" /\ ~Writing
    /\ To(l, "loaded")
    /\ UNCHANGED <<file, hops, body, host, interrupted>>

\* The body breaks off: the module is empty, and the load succeeds.
\* Mutant: what was received is kept.
AfterBreak_Kept == Cut
AfterBreak == file
BreaksOff(l) ==
    /\ load[l] = "receiving" /\ ~Writing
    /\ To(l, "loaded")
    /\ body' = [body EXCEPT ![l] = Cut]
    /\ file' = AfterBreak
    /\ UNCHANGED <<hops, host, interrupted>>

Write(l) ==
    /\ load[l] = "writing"
    /\ To(l, "loaded")
    /\ file' = body[l]
    /\ UNCHANGED <<hops, body, host, interrupted>>

\* An error of write_all() is ignored.
WriteFails(l) ==
    /\ load[l] = "writing"
    /\ To(l, "loaded")
    /\ interrupted' = TRUE
    /\ UNCHANGED <<file, hops, body, host>>

Quiet == \A l \in Loads : load[l] \in {"idle", "loaded", "failed"}
NewLoads ==
    /\ load' = [l \in Loads |-> "idle"]
    /\ hops' = [l \in Loads |-> 0]
    /\ body' = [l \in Loads |-> NoFile]

\* The next run of a document, once the loads of this one have ended.
NextRun ==
    /\ Quiet
    /\ NewLoads
    /\ UNCHANGED <<file, host, interrupted>>

\* A redirect to a location that is no URL or not text: the thread of the run
\* panics, and its loads are gone with it.  The next one is made by a later run.
Panics ==
    /\ \E l \in Loads : load[l] = "asking"
    /\ ~Writing
    /\ NewLoads
    /\ UNCHANGED <<file, host, interrupted>>

\* The process dies, and is started again.
Crash ==
    /\ NewLoads
    /\ interrupted' = (interrupted \/ Writing)
    /\ UNCHANGED <<file, host>>

HostChanges ==
    /\ host < MaxVersions
    /\ host' = host + 1
    /\ UNCHANGED <<file, load, hops, body, interrupted>>

\* A host that answers, with a redirect or otherwise, or whose connection fails.
Answer(l) == Redirect(l) \/ Fails(l) \/ Respond(l)
Received(l) == Receive(l) \/ ReceiveOnly(l) \/ BreaksOff(l)
Finish(l) == Write(l) \/ WriteFails(l)

Next ==
    \/ \E l \in Loads : ReadFile(l) \/ Ask(l) \/ Answer(l) \/ Received(l) \/ Finish(l)
    \/ NextRun \/ Panics \/ Crash \/ HostChanges

Spec == Init /\ [][Next]_vars

\* Hosts answer and connections end.
FairSpec ==
    /\ Spec
    /\ \A l \in Loads : WF_vars(Answer(l)) /\ WF_vars(Received(l)) /\ WF_vars(Finish(l))
-----------------------------------------------------------------------------
(* Properties *)

\* Unless a write was cut short, the file is a whole body when no load is
\* writing it: a body that breaks off is not kept (module_loader.rs:80-102).
KeptWhole == ~interrupted /\ ~Writing => file # Cut

\* Once the loads that found no file have ended, the file stays what it is, in
\* every later run and whatever the host sends then (module_loader.rs:67-72).
Settled ==
    \A f \in Versions \cup {Cut} :
       [](file = f /\ Quiet => [](file = f))

\* A load ends, in a cycle of redirects too, or with its process
\* (module_loader.rs:186-209).
LoadsEnd ==
    \A l \in Loads :
       load[l] = "asking" ~> load[l] \in {"idle", "loaded", "failed"}
=============================================================================
