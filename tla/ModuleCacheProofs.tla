------------------------- MODULE ModuleCacheProofs -------------------------
(***************************************************************************)
(* Proofs about ModuleCache: what the file holds between the loads, and    *)
(* that it is settled by the first ones, for any loads, redirects and      *)
(* versions.                                                               *)
(***************************************************************************)
EXTENDS ModuleCache, TLAPS

\* A load that was answered has what the host sent.
Fetched == \A l \in Loads : load[l] \in {"receiving", "writing"} => body[l] \in Versions

\* A thread writes for one load at a time.
OneWriter == \A l, m \in Loads : load[l] = "writing" /\ load[m] = "writing" => l = m

CacheInduction == TypeOK /\ Fetched /\ OneWriter /\ KeptWhole

LEMMA Kinds == NoFile \notin Versions /\ Cut \notin Versions /\ NoFile # Cut
               /\ 1 \in Versions
  BY ModuleCacheBounds DEF NoFile, Cut, Versions

LEMMA CacheStarts == Init => CacheInduction
<1> SUFFICES ASSUME Init PROVE CacheInduction
  OBVIOUS
<1>1. TypeOK
  <2>1. 0 \in 0 .. MaxHops
    BY ModuleCacheBounds
  <2> QED
    BY <2>1, Kinds DEF Init, TypeOK, States
<1> QED
  BY <1>1, Kinds DEF Init, CacheInduction, Fetched, OneWriter, KeptWhole

LEMMA CacheKept == CacheInduction /\ [Next]_vars => CacheInduction'
<1> SUFFICES ASSUME CacheInduction, [Next]_vars PROVE CacheInduction'
  OBVIOUS
<1>1. TypeOK /\ Fetched /\ OneWriter /\ KeptWhole
  BY DEF CacheInduction
<1> USE DEF To
<1>2. TypeOK'
  <2>1. ASSUME NEW l \in Loads, ReadFile(l) \/ Ask(l) PROVE TypeOK'
    BY <1>1, <2>1 DEF ReadFile, Ask, TypeOK, States
  <2>2. ASSUME NEW l \in Loads, Fails(l) \/ Respond(l) PROVE TypeOK'
    BY <1>1, <2>2 DEF Fails, Respond, TypeOK, States
  <2>3. ASSUME NEW l \in Loads, Redirect(l) PROVE TypeOK'
    <3>1. hops[l] \in 0 .. MaxHops /\ hops[l] < MaxHops
      BY <1>1, <2>3 DEF Redirect, TypeOK
    <3>2. hops[l] + 1 \in 0 .. MaxHops
      BY <3>1, ModuleCacheBounds
    <3> QED
      BY <1>1, <2>3, <3>2 DEF Redirect, Counted, TypeOK
  <2>4. ASSUME NEW l \in Loads, Received(l) PROVE TypeOK'
    BY <1>1, <2>4 DEF Received, Receive, ReceiveOnly, BreaksOff, AfterBreak, TypeOK, States
  <2>5. ASSUME NEW l \in Loads, Finish(l) PROVE TypeOK'
    BY <1>1, <2>5 DEF Finish, Write, WriteFails, TypeOK, States
  <2>6. CASE NextRun \/ Panics \/ Crash
    <3>1. interrupted' \in BOOLEAN
      BY <1>1, <2>6 DEF NextRun, Panics, Crash, TypeOK, Writing
    <3>2. 0 \in 0 .. MaxHops
      BY ModuleCacheBounds
    <3> QED
      BY <1>1, <2>6, <3>1, <3>2 DEF NextRun, Panics, Crash, NewLoads, TypeOK, States
  <2>7. CASE HostChanges
    BY <1>1, <2>7, ModuleCacheBounds DEF HostChanges, TypeOK, Versions
  <2>8. CASE UNCHANGED vars
    BY <1>1, <2>8 DEF vars, TypeOK
  <2> QED
    BY <2>1, <2>2, <2>3, <2>4, <2>5, <2>6, <2>7, <2>8 DEF Next, Answer
<1>3. Fetched'
  <2>1. ASSUME NEW l \in Loads,
               ReadFile(l) \/ Ask(l) \/ Answer(l) \/ Received(l) \/ Finish(l)
        PROVE  Fetched'
    <3>1. \A m \in Loads \ {l} : load'[m] = load[m] /\ body'[m] = body[m]
      BY <1>1, <2>1 DEF ReadFile, Ask, Answer, Redirect, Fails, Respond, Received,
         Receive, ReceiveOnly, BreaksOff, Finish, Write, WriteFails, TypeOK
    <3>2. load'[l] \in {"receiving", "writing"} => body'[l] \in Versions
      BY <1>1, <2>1 DEF ReadFile, Ask, Answer, Redirect, Fails, Respond, Received,
         Receive, ReceiveOnly, BreaksOff, Finish, Write, WriteFails, TypeOK, Fetched
    <3> QED
      BY <1>1, <3>1, <3>2 DEF Fetched
  <2>2. CASE NextRun \/ Panics \/ Crash
    BY <2>2 DEF NextRun, Panics, Crash, NewLoads, Fetched
  <2>3. CASE HostChanges \/ UNCHANGED vars
    BY <1>1, <2>3 DEF HostChanges, vars, Fetched
  <2> QED
    BY <2>1, <2>2, <2>3 DEF Next
<1>4. OneWriter'
  <2>1. ASSUME NEW l \in Loads,
               ReadFile(l) \/ Ask(l) \/ Answer(l) \/ Received(l)
        PROVE  OneWriter'
    BY <1>1, <2>1 DEF ReadFile, Ask, Answer, Redirect, Fails, Respond, Received,
       Receive, ReceiveOnly, BreaksOff, Writing, TypeOK, OneWriter
  <2>2. ASSUME NEW l \in Loads, Finish(l) PROVE OneWriter'
    BY <1>1, <2>2 DEF Finish, Write, WriteFails, TypeOK, OneWriter
  <2>3. CASE NextRun \/ Panics \/ Crash
    BY <2>3 DEF NextRun, Panics, Crash, NewLoads, OneWriter
  <2>4. CASE HostChanges \/ UNCHANGED vars
    BY <1>1, <2>4 DEF HostChanges, vars, OneWriter
  <2> QED
    BY <2>1, <2>2, <2>3, <2>4 DEF Next
<1>5. KeptWhole'
  <2>1. ASSUME NEW l \in Loads, ReadFile(l) \/ Ask(l) \/ Answer(l) \/ ReceiveOnly(l)
        PROVE  KeptWhole'
    <3>1. UNCHANGED <<file, interrupted>> /\ ~Writing
      BY <2>1 DEF ReadFile, Ask, Answer, Redirect, Fails, Respond, ReceiveOnly
    <3> QED
      BY <1>1, <3>1 DEF KeptWhole
  <2>2. ASSUME NEW l \in Loads, BreaksOff(l) PROVE KeptWhole'
    BY <1>1, <2>2 DEF BreaksOff, AfterBreak, KeptWhole
  <2>3. ASSUME NEW l \in Loads, Receive(l) PROVE KeptWhole'
    BY <1>1, <2>3 DEF Receive, Writing, TypeOK, KeptWhole
  <2>4. ASSUME NEW l \in Loads, Write(l) PROVE KeptWhole'
    BY <1>1, <2>4, Kinds DEF Write, Fetched, KeptWhole
  <2>5. ASSUME NEW l \in Loads, WriteFails(l) PROVE KeptWhole'
    BY <2>5 DEF WriteFails, KeptWhole
  <2>6. CASE NextRun
    <3>1. ~Writing
      BY <2>6 DEF NextRun, Quiet, Writing
    <3> QED
      BY <1>1, <2>6, <3>1 DEF NextRun, KeptWhole
  <2>7. CASE Panics
    BY <1>1, <2>7 DEF Panics, KeptWhole
  <2>8. CASE Crash
    BY <1>1, <2>8 DEF Crash, KeptWhole
  <2>9. CASE HostChanges \/ UNCHANGED vars
    BY <1>1, <2>9 DEF HostChanges, vars, KeptWhole, Writing
  <2> QED
    BY <2>1, <2>2, <2>3, <2>4, <2>5, <2>6, <2>7, <2>8, <2>9 DEF Next, Received, Finish
<1> QED
  BY <1>2, <1>3, <1>4, <1>5 DEF CacheInduction

THEOREM CacheInvariant == Spec => []CacheInduction
  BY CacheStarts, CacheKept, PTL DEF Spec

\* The state of the cache keeps its type.
THEOREM CacheTyped == Spec => []TypeOK
<1>1. CacheInduction => TypeOK
  BY DEF CacheInduction
<1> QED
  BY <1>1, CacheInvariant, PTL

\* Between writes the file is a whole body, unless one of them was cut short.
THEOREM FileWhole == Spec => []KeptWhole
<1>1. CacheInduction => KeptWhole
  BY DEF CacheInduction
<1> QED
  BY <1>1, CacheInvariant, PTL

-----------------------------------------------------------------------------
(* The file is settled by the loads that found none *)

\* A load that begins where there is a file only reads it.
LEMMA SettledKept ==
    ASSUME NEW f \in Versions \cup {Cut}, TypeOK, file = f /\ Quiet, [Next]_vars
    PROVE  (file = f /\ Quiet)'
<1>1. f # NoFile
  BY Kinds
<1>2. ASSUME NEW l \in Loads, ReadFile(l) PROVE (file = f /\ Quiet)'
  BY <1>2 DEF ReadFile, To, Quiet, TypeOK
<1>3. ASSUME NEW l \in Loads, Ask(l) \/ Answer(l) \/ Received(l) \/ Finish(l) PROVE FALSE
  BY <1>1, <1>3 DEF Ask, Cached, Answer, Redirect, Fails, Respond, Received, Receive,
     ReceiveOnly, BreaksOff, Finish, Write, WriteFails, Quiet
<1>4. CASE NextRun \/ Panics \/ Crash
  BY <1>4 DEF NextRun, Panics, Crash, NewLoads, Quiet
<1>5. CASE HostChanges \/ UNCHANGED vars
  BY <1>5 DEF HostChanges, vars, Quiet
<1> QED
  BY <1>2, <1>3, <1>4, <1>5 DEF Next

\* Whatever the first loads left, every later run is given.
THEOREM SettledByFirstLoads == Spec => Settled
<1>1. ASSUME NEW f \in Versions \cup {Cut}
      PROVE  Spec => [](file = f /\ Quiet => [](file = f))
  <2>1. TypeOK /\ (file = f /\ Quiet) /\ [Next]_vars => (file = f /\ Quiet)'
    BY SettledKept
  <2> QED
    BY <2>1, CacheTyped, PTL DEF Spec
<1> QED
  BY <1>1 DEF Settled
=============================================================================
