--------------------------- MODULE WebServerProofs ---------------------------
(***************************************************************************)
(* Proofs about WebServer, for any requests, hosts, files and bounds: what *)
(* goes into an answer is one version of each file and none older than the *)
(* request, what is shown agrees with the run of the request, and no       *)
(* worker waits for something that will not come.                          *)
(***************************************************************************)
EXTENDS WebServer, FiniteSetTheorems, TLAPS

\* A request counts in the database from the moment it is sent, on its host only.
Counted(r) ==
    /\ stage[r] \in (Waiting \cup Blocking \cup {"file", "empty"}) \ {"executing"} =>
          sent[r] = 0
    /\ stage[r] = "executing" => sent[r] = 1 /\ answered[r] = 0
    /\ answered[r] <= ran[r] /\ ran[r] <= sent[r]
    /\ Running(r) => ran[r] < sent[r]
    /\ \A h \in Hosts : runner[h] = r => h = HostOf[r]
    /\ stage[r] \in {"page", "redirect"} => ran[r] = 1 /\ r \notin failed
    /\ stage[r] = "error" /\ up =>
          \/ r \in failed
          \/ ran[r] = 0 /\ HostOf[r] \in broken /\ ~Running(r)

\* The caches belong to exec(), and the server's holds each document that was given.
Remembered(r) ==
    /\ stage[r] = "opening" => Static[r] # None
    /\ stage[r] # "executing" => cache[r] = Empty /\ include_cache[r] = Empty
    /\ stage[r] \notin {"executing", "file"} => opened[r] = {}
    /\ stage[r] # "executing" => given[r] = {}
    /\ \A c \in given[r] : c[1] \in Documents /\ cache[r][c[1]] = c[2]

\* What a request may still read, or has read, is a version seen since it arrived.
Witnessed(r) ==
    /\ Arrived(r) => \A f \in Files : file[f] \in seen[r][f]
    /\ \A c \in opened[r] \cup given[r] : c[2] \in seen[r][c[1]]
    /\ \A d \in Documents : /\ cache[r][d] \in seen[r][d] \cup {Unread}
                            /\ include_cache[r][d] \in seen[r][d] \cup {Unread}

WebInduction ==
    TypeOK /\ \A r \in Requests : Counted(r) /\ Remembered(r) /\ Witnessed(r)

\* The files of the bounds, and the numbers that stand for their contents.
LEMMA FilesAre ==
    /\ Documents \subseteq Files
    /\ \A r \in Requests : /\ HostOf[r] \in Hosts
                           /\ RequestXml[HostOf[r]] \in Files
                           /\ Static[r] # None => Static[r] \in Files
                           /\ Included[HostOf[r]] \subseteq Documents
    /\ None \notin Requests
    /\ {1, Missing} \subseteq Versions /\ Unread \notin Versions
<1>1. Documents \subseteq Files
  BY DEF Files
<1>2. ASSUME NEW r \in Requests
      PROVE  /\ HostOf[r] \in Hosts
             /\ RequestXml[HostOf[r]] \in Files
             /\ Static[r] # None => Static[r] \in Files
             /\ Included[HostOf[r]] \subseteq Documents
  <2>1. HostOf[r] \in Hosts
    BY WebServerBounds DEF WebServerBounds
  <2>2. RequestXml[HostOf[r]] \in Files
    BY <2>1, WebServerBounds DEF WebServerBounds, Files
  <2>3. Static[r] # None => Static[r] \in Files
    BY WebServerBounds DEF WebServerBounds, Files, StaticFiles
  <2>4. Included[HostOf[r]] \subseteq Documents
    BY <2>1 DEF Documents
  <2> QED
    BY <2>1, <2>2, <2>3, <2>4
<1>3. {1, Missing} \subseteq Versions /\ Unread \notin Versions
  BY WebServerBounds DEF WebServerBounds, Versions, Missing, Unread
<1> QED
  BY <1>1, <1>2, <1>3, WebServerBounds DEF WebServerBounds

\* A step that only moves a request on, before it is sent or without an answer.
Early == {"new", "knocking", "arriving"}
Moves(r, next) ==
    /\ stage[r] \in (Waiting \cup Blocking) \ {"executing"}
    /\ next \in (Waiting \cup Blocking \cup {"empty", "dropped"}) \ {"executing"}
    /\ next = "opening" => Static[r] # None
    /\ stage[r] \in Early => next \in Early \cup {"dropped"}
    /\ To(r, next)
    /\ UNCHANGED <<fileVars, cacheVars, opened, given, databaseVars>>

\* The steps of a request that are more than that.
Arrives(r) ==
    /\ stage[r] = "arriving"
    /\ stage' = [stage EXCEPT ![r] = "queued"]
    /\ seen' = [seen EXCEPT ![r] = [f \in Files |-> {file[f]}]]
    /\ UNCHANGED <<fileVars, cacheVars, opened, given, databaseVars>>
Opens(r) ==
    /\ stage[r] = "opening" /\ file[Static[r]] # Missing
    /\ To(r, "file")
    /\ opened' = [opened EXCEPT ![r] = {<<Static[r], file[Static[r]]>>}]
    /\ UNCHANGED <<fileVars, cacheVars, given, databaseVars>>
Sends(r) ==
    LET xml == RequestXml[HostOf[r]] IN
    /\ stage[r] = "asking" /\ file[xml] # Missing
    /\ To(r, "executing")
    /\ opened' = [opened EXCEPT ![r] = {<<xml, file[xml]>>}]
    /\ Database!Send(r)
    /\ UNCHANGED <<fileVars, cacheVars, given, up, silenced, failed>>

LEMMA RequestSteps ==
    ASSUME NEW r \in Requests,
           Connect(r) \/ Accept(r) \/ Visitor(r) \/ Task(r)
    PROVE  \/ \E next \in Waiting \cup Blocking \cup Ended : Moves(r, next)
           \/ Arrives(r) \/ Opens(r) \/ Sends(r) \/ Return(r) \/ ReturnError(r)
<1> USE DEF Moves, Waiting, Blocking, Ended, Early
<1>1. CASE Connect(r) \/ Accept(r)
  BY <1>1 DEF Connect, Accept
<1>2. CASE Arrive(r)
  BY <1>2 DEF Arrive, Arrives
<1>3. CASE Body(r) \/ Resume(r)
  BY <1>3 DEF Body, Resume
<1>4. CASE Start(r)
  BY <1>4 DEF Start, Exists
<1>5. CASE Connects(r) \/ Acknowledged(r)
  BY <1>5 DEF Connects, Acknowledged
<1>6. CASE ReadStatic(r)
  BY <1>6 DEF ReadStatic, Opens
<1>7. CASE Ask(r)
  BY <1>7 DEF Ask, Sends, databaseVars
<1> QED
  BY <1>1, <1>2, <1>3, <1>4, <1>5, <1>6, <1>7 DEF Visitor, Task

-----------------------------------------------------------------------------
(* The type *)

LEMMA TypeKept ==
    ASSUME WebInduction, [Next]_vars
    PROVE  TypeOK'
<1>1. TypeOK
  BY DEF WebInduction
<1>2. Empty \in [Documents -> Versions \cup {Unread}] /\ NothingSeen \in [Files -> SUBSET Versions]
  BY DEF Empty, NothingSeen
<1>3. ASSUME NEW r \in Requests, NEW next \in Waiting \cup Blocking \cup Ended, To(r, next)
      PROVE  /\ stage' \in [Requests -> Waiting \cup Blocking \cup Ended]
             /\ seen' \in [Requests -> [Files -> SUBSET Versions]]
  BY <1>1, <1>2, <1>3 DEF To, TypeOK
<1>4. ASSUME NEW r \in Requests, NEW next \in Waiting \cup Blocking \cup Ended, Moves(r, next)
      PROVE  TypeOK'
  BY <1>1, <1>3, <1>4 DEF Moves, TypeOK, fileVars, cacheVars, databaseVars
<1>5. ASSUME NEW r \in Requests, Arrives(r)
      PROVE  TypeOK'
  BY <1>1, <1>5 DEF Arrives, TypeOK, fileVars, cacheVars, databaseVars, Waiting
<1>6. ASSUME NEW r \in Requests, Opens(r)
      PROVE  TypeOK'
  <2>1. Static[r] \in Files
    BY <1>6, FilesAre DEF Opens, WebInduction, Remembered
  <2>2. file[Static[r]] \in Versions
    BY <1>1, <2>1 DEF TypeOK
  <2>3. opened' \in [Requests -> SUBSET (Files \X Versions)]
    BY <1>1, <1>6, <2>1, <2>2 DEF Opens, TypeOK
  <2> QED
    BY <1>1, <1>3, <1>6, <2>3 DEF Opens, TypeOK, fileVars, cacheVars, databaseVars, Ended
<1>7. ASSUME NEW r \in Requests, Sends(r)
      PROVE  TypeOK'
  <2> DEFINE xml == RequestXml[HostOf[r]]
  <2>1. sent' \in [Requests -> 0 .. 1] /\ UNCHANGED <<runner, broken, ran, answered>>
    <3>1. sent[r] \in 0 .. 1 /\ sent[r] < 1
      BY <1>1, <1>7 DEF Sends, Database!Send, TypeOK
    <3>2. sent[r] + 1 \in 0 .. 1
      BY <3>1
    <3> QED
      BY <1>1, <1>7, <3>2 DEF Sends, Database!Send, TypeOK
  <2>2. xml \in Files /\ file[xml] \in Versions
    BY <1>1, FilesAre DEF TypeOK
  <2>3. opened' \in [Requests -> SUBSET (Files \X Versions)]
    BY <1>1, <1>7, <2>2 DEF Sends, TypeOK
  <2> QED
    BY <1>1, <1>3, <1>7, <2>1, <2>3 DEF Sends, TypeOK, fileVars, cacheVars, Blocking
<1>18. ASSUME NEW r \in Requests, Forget(r)
       PROVE  /\ include_cache' \in [Requests -> [Documents -> Versions \cup {Unread}]]
              /\ cache' \in [Requests -> [Documents -> Versions \cup {Unread}]]
              /\ {opened', given'} \subseteq [Requests -> SUBSET (Files \X Versions)]
  <2>1. {opened, given} \subseteq [Requests -> SUBSET (Files \X Versions)]
    BY <1>1 DEF TypeOK
  <2>2. /\ opened' \in [Requests -> SUBSET (Files \X Versions)]
        /\ given' \in [Requests -> SUBSET (Files \X Versions)]
    BY <1>18, <2>1 DEF Forget
  <2> QED
    BY <1>1, <1>2, <1>18, <2>2 DEF Forget, TypeOK
<1>8. ASSUME NEW r \in Requests, Return(r)
      PROVE  TypeOK'
  <2>1. answered' \in [Requests -> 0 .. 1] /\ UNCHANGED <<runner, broken, sent, ran>>
    <3>1. answered[r] \in 0 .. 1 /\ ran[r] \in 0 .. 1 /\ answered[r] < ran[r]
      BY <1>1, <1>8 DEF Return, Database!Answer, TypeOK
    <3>2. answered[r] + 1 \in 0 .. 1
      BY <3>1
    <3> QED
      BY <1>1, <1>8, <3>2 DEF Return, Database!Answer, TypeOK
  <2>2. stage' \in [Requests -> Waiting \cup Blocking \cup Ended]
        /\ seen' \in [Requests -> [Files -> SUBSET Versions]]
    BY <1>3, <1>8 DEF Return, Shown, Ended
  <2>3. Forget(r) /\ UNCHANGED <<file, edits, up, silenced, failed>>
    BY <1>8 DEF Return, fileVars
  <2> QED
    BY <1>1, <1>18, <2>1, <2>2, <2>3 DEF TypeOK
<1>9. ASSUME NEW r \in Requests, ReturnError(r)
      PROVE  TypeOK'
  <2>1. stage' \in [Requests -> Waiting \cup Blocking \cup Ended]
        /\ seen' \in [Requests -> [Files -> SUBSET Versions]]
    BY <1>3, <1>9 DEF ReturnError, Ended, AtEnd
  <2>2. Forget(r) /\ UNCHANGED <<file, edits, databaseVars>>
    BY <1>9 DEF ReturnError, fileVars
  <2> QED
    BY <1>1, <1>18, <2>1, <2>2 DEF TypeOK, databaseVars
<1>10. ASSUME NEW r \in Requests, Begin(r)
       PROVE  TypeOK'
  BY <1>1, <1>10 DEF Begin, Database!Begin, TypeOK, fileVars, cacheVars, historyVars
<1>11. ASSUME NEW r \in Requests, Finish(r)
       PROVE  TypeOK'
  <2>1. /\ runner' = [runner EXCEPT ![HostOf[r]] = None]
        /\ failed' \in {failed, failed \cup {r}}
        /\ UNCHANGED <<stage, fileVars, cacheVars, historyVars, up, silenced, sent, answered>>
    BY <1>11 DEF Finish, Database!Finish, Database!Break
  <2>2. CASE Database!Finish(r, HostOf[r])
    <3>1. ran[r] \in 0 .. 1 /\ sent[r] \in 0 .. 1 /\ ran[r] < sent[r]
      BY <1>1, <2>2 DEF Database!Finish, TypeOK, WebInduction, Counted, Running
    <3>2. ran[r] + 1 \in 0 .. 1
      BY <3>1
    <3>3. ran' \in [Requests -> 0 .. 1] /\ UNCHANGED broken
      BY <1>1, <2>2, <3>2 DEF Database!Finish, TypeOK
    <3> QED
      BY <1>1, <2>1, <3>3 DEF TypeOK, fileVars, cacheVars, historyVars
  <2>3. CASE Database!Break(r, HostOf[r])
    BY <1>1, <2>1, <2>3, FilesAre DEF Database!Break, TypeOK, fileVars, cacheVars, historyVars
  <2> QED
    BY <1>11, <2>2, <2>3 DEF Finish
<1>12. ASSUME NEW r \in Requests, NEW d \in Included[HostOf[r]], Include(r, d)
       PROVE  TypeOK'
  <2> DEFINE content == IF Holds(cache[r], d) THEN cache[r][d] ELSE Reads(r, d)
  <2>1. d \in Documents /\ d \in Files
    BY FilesAre
  <2>2. content \in Versions
    BY <1>1, <2>1 DEF TypeOK, Holds, Reads
  <2>3. /\ include_cache' \in [Requests -> [Documents -> Versions \cup {Unread}]]
        /\ cache' \in [Requests -> [Documents -> Versions \cup {Unread}]]
    <3> HIDE DEF content
    <3> QED
      BY <1>1, <1>12, <2>1, <2>2 DEF Include, TypeOK, content
  <2>4. given' \in [Requests -> SUBSET (Files \X Versions)]
    <3> HIDE DEF content
    <3>1. given' = [given EXCEPT ![r] = @ \cup {<<d, content>>}]
      BY <1>12 DEF Include, content
    <3> QED
      BY <1>1, <2>1, <2>2, <3>1 DEF TypeOK
  <2> QED
    BY <1>1, <1>12, <2>3, <2>4 DEF Include, TypeOK, fileVars, databaseVars
<1>13. ASSUME AcceptFails
       PROVE  TypeOK'
  BY <1>1, <1>2, <1>13 DEF AcceptFails, TypeOK, fileVars, databaseVars, Ended
<1>14. ASSUME ServerExits
       PROVE  TypeOK'
  BY <1>1, <1>14 DEF ServerExits, Database!Exit, TypeOK, fileVars, cacheVars, historyVars
<1>17. ASSUME FallsSilent \/ Speaks
       PROVE  TypeOK'
  BY <1>1, <1>17 DEF FallsSilent, Speaks, TypeOK, fileVars, cacheVars, historyVars
<1>15. ASSUME NEW f \in Files, Edit(f)
       PROVE  TypeOK'
  <2>1. MaxEdits \in Nat /\ edits \in 0 .. MaxEdits /\ edits < MaxEdits
    BY <1>1, <1>15, WebServerBounds DEF WebServerBounds, Edit, TypeOK
  <2>2. edits' \in 0 .. MaxEdits /\ {Missing, edits + 2} \subseteq Versions
    BY <1>15, <2>1 DEF Edit, Versions, Missing
  <2>3. file' \in [Files -> Versions] /\ seen' \in [Requests -> [Files -> SUBSET Versions]]
    BY <1>1, <1>15, <2>2 DEF Edit, TypeOK
  <2> QED
    BY <1>1, <1>15, <2>2, <2>3 DEF Edit, TypeOK, cacheVars, databaseVars
<1>16. CASE UNCHANGED vars
  BY <1>1, <1>16 DEF TypeOK, vars, fileVars, cacheVars, historyVars, databaseVars
<1> QED
  BY <1>4, <1>5, <1>6, <1>7, <1>8, <1>9, <1>10, <1>11, <1>12, <1>13, <1>14, <1>15,
     <1>16, <1>17, RequestSteps DEF Next

-----------------------------------------------------------------------------
(* Requests and their runs *)

LEMMA CountedKept ==
    ASSUME WebInduction, [Next]_vars, NEW q \in Requests
    PROVE  Counted(q)'
<1>1. TypeOK /\ Counted(q)
  BY DEF WebInduction
<1>2. /\ HostOf[q] \in Hosts /\ None # q
      /\ stage \in [Requests -> Waiting \cup Blocking \cup Ended]
      /\ runner \in [Hosts -> Requests \cup {None}]
      /\ sent[q] \in 0 .. 1 /\ ran[q] \in 0 .. 1 /\ answered[q] \in 0 .. 1
      /\ {sent, ran, answered} \subseteq [Requests -> 0 .. 1]
  BY <1>1, FilesAre DEF TypeOK
<1> USE DEF Waiting, Blocking, Ended
<1>3. ASSUME NEW r \in Requests, NEW next, Moves(r, next)
      PROVE  Counted(q)'
  BY <1>1, <1>2, <1>3 DEF Moves, To, Counted, Running, databaseVars
<1>4. ASSUME NEW r \in Requests, Arrives(r) \/ Opens(r)
      PROVE  Counted(q)'
  BY <1>1, <1>2, <1>4 DEF Arrives, Opens, To, Counted, Running, databaseVars
<1>5. ASSUME NEW r \in Requests, Sends(r)
      PROVE  Counted(q)'
  BY <1>1, <1>2, <1>5 DEF Sends, Database!Send, To, Counted, Running
<1>6. ASSUME NEW r \in Requests, Return(r)
      PROVE  Counted(q)'
  BY <1>1, <1>2, <1>6 DEF Return, Shown, Database!Answer, To, Counted, Running
<1>7. ASSUME NEW r \in Requests, ReturnError(r)
      PROVE  Counted(q)'
  BY <1>1, <1>2, <1>7 DEF ReturnError, AtEnd, To, Counted, Running, databaseVars
<1>8. ASSUME NEW r \in Requests, Begin(r)
      PROVE  Counted(q)'
  <2>1. HostOf[r] \in Hosts
    BY FilesAre
  <2> QED
    BY <1>1, <1>2, <1>8, <2>1 DEF Begin, Database!Begin, Counted, Running
<1>9. ASSUME NEW r \in Requests, Finish(r)
      PROVE  Counted(q)'
  <2>1. HostOf[r] \in Hosts /\ None \notin Requests
    BY FilesAre
  <2>2. CASE Database!Finish(r, HostOf[r])
    BY <1>1, <1>2, <1>9, <2>1, <2>2 DEF Finish, Database!Finish, Counted, Running
  <2>3. CASE Database!Break(r, HostOf[r])
    BY <1>1, <1>2, <1>9, <2>1, <2>3 DEF Finish, Database!Break, Counted, Running
  <2> QED
    BY <1>9, <2>2, <2>3 DEF Finish
<1>10. ASSUME NEW r \in Requests, NEW d, Include(r, d)
       PROVE  Counted(q)'
  BY <1>1, <1>10 DEF Include, Counted, Running, databaseVars
<1>11. ASSUME AcceptFails
       PROVE  Counted(q)'
  BY <1>1, <1>2, <1>11 DEF AcceptFails, Counted, Running, databaseVars
<1>12. ASSUME ServerExits
       PROVE  Counted(q)'
  BY <1>1, <1>2, <1>12 DEF ServerExits, Database!Exit, Counted, Running
<1>15. ASSUME FallsSilent \/ Speaks
       PROVE  Counted(q)'
  BY <1>1, <1>15 DEF FallsSilent, Speaks, Counted, Running
<1>13. ASSUME NEW f \in Files, Edit(f)
       PROVE  Counted(q)'
  BY <1>1, <1>13 DEF Edit, Counted, Running, databaseVars
<1>18. CASE UNCHANGED vars
  BY <1>1, <1>18 DEF Counted, Running, vars, databaseVars
<1> QED
  BY <1>3, <1>4, <1>5, <1>6, <1>7, <1>8, <1>9, <1>10, <1>11, <1>12, <1>13, <1>18, <1>15,
     RequestSteps DEF Next

-----------------------------------------------------------------------------
(* What went into an answer *)

LEMMA RememberedKept ==
    ASSUME WebInduction, [Next]_vars, NEW q \in Requests
    PROVE  Remembered(q)'
<1>1. TypeOK /\ Remembered(q)
  BY DEF WebInduction
<1>2. /\ stage \in [Requests -> Waiting \cup Blocking \cup Ended]
      /\ cache \in [Requests -> [Documents -> Versions \cup {Unread}]]
      /\ include_cache \in [Requests -> [Documents -> Versions \cup {Unread}]]
      /\ {opened, given} \subseteq [Requests -> SUBSET (Files \X Versions)]
  BY <1>1 DEF TypeOK
<1> USE DEF Waiting, Blocking, Ended
<1>3. ASSUME NEW r \in Requests, NEW next, Moves(r, next)
      PROVE  Remembered(q)'
  BY <1>1, <1>2, <1>3 DEF Moves, To, Remembered, cacheVars
<1>4. ASSUME NEW r \in Requests, Arrives(r)
      PROVE  Remembered(q)'
  BY <1>1, <1>2, <1>4 DEF Arrives, Remembered, cacheVars
<1>5. ASSUME NEW r \in Requests, Opens(r)
      PROVE  Remembered(q)'
  BY <1>1, <1>2, <1>5 DEF Opens, To, Remembered, cacheVars
<1>6. ASSUME NEW r \in Requests, Sends(r)
      PROVE  Remembered(q)'
  BY <1>1, <1>2, <1>6 DEF Sends, To, Remembered, cacheVars
<1>7. ASSUME NEW r \in Requests, Return(r) \/ ReturnError(r)
      PROVE  Remembered(q)'
  <2>1. stage[r] = "executing" /\ Forget(r)
    BY <1>7 DEF Return, ReturnError
  <2>2. PICK next \in Ended \ {"file"} : stage' = [stage EXCEPT ![r] = next]
    BY <1>7 DEF Return, Shown, ReturnError, AtEnd, To
  <2>3. CASE q = r
    <3>1. stage'[q] = next
      BY <1>2, <2>2, <2>3
    <3>2. /\ cache'[q] = Empty /\ include_cache'[q] = Empty
          /\ opened'[q] = {} /\ given'[q] = {}
      BY <1>2, <2>1, <2>3 DEF Forget
    <3> QED
      BY <3>1, <3>2 DEF Remembered
  <2>4. CASE q # r
    <3>1. /\ stage'[q] = stage[q] /\ cache'[q] = cache[q]
          /\ include_cache'[q] = include_cache[q]
          /\ opened'[q] = opened[q] /\ given'[q] = given[q]
      BY <1>2, <2>1, <2>2, <2>4 DEF Forget
    <3> QED
      BY <1>1, <3>1 DEF Remembered
  <2> QED
    BY <2>3, <2>4
<1>8. ASSUME NEW r \in Requests, Begin(r) \/ Finish(r)
      PROVE  Remembered(q)'
  BY <1>1, <1>8 DEF Begin, Finish, Remembered, cacheVars, historyVars
<1>9. ASSUME NEW r \in Requests, NEW d \in Included[HostOf[r]], Include(r, d)
      PROVE  Remembered(q)'
  <2> DEFINE content == IF Holds(cache[r], d) THEN cache[r][d] ELSE Reads(r, d)
  <2>1. d \in Documents
    BY FilesAre
  <2>2. /\ stage[r] = "executing" /\ UNCHANGED stage
        /\ cache' = [cache EXCEPT ![r][d] = content]
        /\ given' = [given EXCEPT ![r] = @ \cup {<<d, content>>}]
        /\ r # q => include_cache'[q] = include_cache[q]
        /\ UNCHANGED opened
    BY <1>2, <1>9 DEF Include
  <2>3. \A c \in given[r] : c[1] = d /\ r = q => c[2] = content
    <3>1. ASSUME NEW c \in given[r], c[1] = d, r = q
          PROVE  c[2] = content
      <4>1. c[2] \in Versions /\ cache[r][d] = c[2]
        BY <1>1, <1>2, <2>1, <3>1 DEF Remembered
      <4> QED
        BY <4>1, FilesAre DEF Holds
    <3> QED
      BY <3>1
  <2> HIDE DEF content
  <2>4. CASE r # q
    BY <1>1, <1>2, <2>2, <2>4 DEF Remembered
  <2>5. CASE r = q
    <3>1. ASSUME NEW c \in given'[q]
          PROVE  c[1] \in Documents /\ cache'[q][c[1]] = c[2]
      <4>1. given'[q] = given[q] \cup {<<d, content>>}
        BY <1>2, <2>2, <2>5
      <4>2. c[1] \in Documents
        BY <1>1, <2>1, <3>1, <4>1 DEF Remembered
      <4>3. cache'[q][c[1]] = IF c[1] = d THEN content ELSE cache[q][c[1]]
        BY <1>2, <2>2, <2>5, <4>2
      <4> QED
        BY <1>1, <2>3, <2>5, <3>1, <4>1, <4>2, <4>3 DEF Remembered
    <3> QED
      BY <1>1, <2>2, <2>5, <3>1 DEF Remembered
  <2> QED
    BY <2>4, <2>5
<1>10. ASSUME AcceptFails
       PROVE  Remembered(q)'
  BY <1>1, <1>2, <1>10 DEF AcceptFails, Remembered
<1>11. ASSUME ServerExits
       PROVE  Remembered(q)'
  BY <1>1, <1>11 DEF ServerExits, Remembered, cacheVars, historyVars
<1>18. ASSUME FallsSilent \/ Speaks
       PROVE  Remembered(q)'
  BY <1>1, <1>18 DEF FallsSilent, Speaks, Remembered, cacheVars, historyVars
<1>12. ASSUME NEW f \in Files, Edit(f)
       PROVE  Remembered(q)'
  BY <1>1, <1>12 DEF Edit, Remembered, cacheVars
<1>13. CASE UNCHANGED vars
  BY <1>1, <1>13 DEF Remembered, vars, cacheVars, historyVars
<1> QED
  BY <1>3, <1>4, <1>5, <1>6, <1>7, <1>8, <1>9, <1>10, <1>11, <1>12, <1>13, <1>18,
     RequestSteps DEF Next

LEMMA WitnessedKept ==
    ASSUME WebInduction, [Next]_vars, NEW q \in Requests
    PROVE  Witnessed(q)'
<1>1. TypeOK /\ Remembered(q) /\ Witnessed(q)
  BY DEF WebInduction
<1>2. /\ stage \in [Requests -> Waiting \cup Blocking \cup Ended]
      /\ cache \in [Requests -> [Documents -> Versions \cup {Unread}]]
      /\ include_cache \in [Requests -> [Documents -> Versions \cup {Unread}]]
      /\ {opened, given} \subseteq [Requests -> SUBSET (Files \X Versions)]
      /\ seen \in [Requests -> [Files -> SUBSET Versions]]
      /\ file \in [Files -> Versions]
  BY <1>1 DEF TypeOK
<1>3. Documents \subseteq Files /\ \A d \in Documents : Empty[d] = Unread
  BY FilesAre DEF Empty
<1> USE DEF Waiting, Blocking, Ended
<1>4. ASSUME NEW r \in Requests, NEW next, Moves(r, next)
      PROVE  Witnessed(q)'
  <2>1. UNCHANGED <<file, opened, given, cache, include_cache>>
    BY <1>4 DEF Moves, fileVars, cacheVars
  <2>2. CASE r # q
    <3>1. stage'[q] = stage[q] /\ seen'[q] = seen[q]
      BY <1>2, <1>4, <2>2 DEF Moves, To
    <3> QED
      BY <1>1, <2>1, <3>1 DEF Witnessed, Arrived
  <2>3. CASE r = q
    <3>1. stage'[q] = next
      BY <1>2, <1>4, <2>3 DEF Moves, To
    <3>2. CASE next \in {"empty", "dropped"}
      <4>1. opened[q] = {} /\ given[q] = {} /\ cache[q] = Empty /\ include_cache[q] = Empty
        BY <1>1, <1>4, <2>3 DEF Moves, Remembered
      <4> QED
        BY <1>3, <2>1, <3>1, <3>2, <4>1 DEF Witnessed, Arrived
    <3>3. CASE next \notin {"empty", "dropped"}
      <4>1. seen' = seen /\ (Arrived(q)' => Arrived(q))
        BY <1>4, <2>3, <3>1, <3>3 DEF Moves, To, Arrived, Early
      <4> QED
        BY <1>1, <2>1, <4>1 DEF Witnessed
    <3> QED
      BY <3>2, <3>3
  <2> QED
    BY <2>2, <2>3
<1>5. ASSUME NEW r \in Requests, Arrives(r)
      PROVE  Witnessed(q)'
  <2>1. UNCHANGED <<file, opened, given, cache, include_cache>>
    BY <1>5 DEF Arrives, fileVars, cacheVars
  <2>2. CASE r # q
    BY <1>1, <1>2, <1>5, <2>1, <2>2 DEF Arrives, Witnessed, Arrived
  <2>3. CASE r = q
    <3>1. opened[q] = {} /\ given[q] = {} /\ cache[q] = Empty /\ include_cache[q] = Empty
      BY <1>1, <1>5, <2>3 DEF Arrives, Remembered
    <3>2. \A f \in Files : file'[f] \in seen'[q][f]
      BY <1>2, <1>5, <2>1, <2>3 DEF Arrives
    <3> QED
      BY <1>3, <2>1, <3>1, <3>2 DEF Witnessed
  <2> QED
    BY <2>2, <2>3
<1>6. ASSUME NEW r \in Requests, Opens(r) \/ Sends(r)
      PROVE  Witnessed(q)'
  <2>1. UNCHANGED <<file, seen, given, cache, include_cache>>
    BY <1>6 DEF Opens, Sends, To, fileVars, cacheVars
  <2>2. CASE r # q
    BY <1>1, <1>2, <1>6, <2>1, <2>2 DEF Opens, Sends, To, Witnessed, Arrived
  <2>3. CASE r = q
    <3>1. Arrived(q)
      BY <1>6, <2>3 DEF Opens, Sends, Arrived
    <3>2. PICK f \in Files : opened'[q] = {<<f, file[f]>>}
      <4>1. CASE Opens(r)
        BY <1>1, <1>2, <2>3, <4>1, FilesAre DEF Opens, Remembered
      <4>2. CASE Sends(r)
        BY <1>2, <2>3, <4>2, FilesAre DEF Sends
      <4> QED
        BY <1>6, <4>1, <4>2
    <3>3. \A g \in Files : file'[g] \in seen'[q][g]
      BY <1>1, <2>1, <3>1 DEF Witnessed
    <3> QED
      BY <1>1, <2>1, <3>2, <3>3 DEF Witnessed
  <2> QED
    BY <2>2, <2>3
<1>7. ASSUME NEW r \in Requests, Return(r) \/ ReturnError(r)
      PROVE  Witnessed(q)'
  <2>1. UNCHANGED file
    BY <1>7 DEF Return, ReturnError, fileVars
  <2>2. CASE r # q
    BY <1>1, <1>2, <1>7, <2>1, <2>2
       DEF Return, Shown, ReturnError, AtEnd, Forget, To, Witnessed, Arrived
  <2>3. CASE r = q
    <3>1. /\ opened'[q] = {} /\ given'[q] = {} /\ cache'[q] = Empty /\ include_cache'[q] = Empty
          /\ stage'[q] \in Ended
      BY <1>2, <1>7, <2>3 DEF Return, Shown, ReturnError, AtEnd, Forget, To
    <3> QED
      BY <1>3, <3>1 DEF Witnessed, Arrived
  <2> QED
    BY <2>2, <2>3
<1>8. ASSUME NEW r \in Requests, Begin(r) \/ Finish(r)
      PROVE  Witnessed(q)'
  BY <1>1, <1>8 DEF Begin, Finish, Witnessed, Arrived, fileVars, cacheVars, historyVars
<1>9. ASSUME NEW r \in Requests, NEW d \in Included[HostOf[r]], Include(r, d)
      PROVE  Witnessed(q)'
  <2> DEFINE content == IF Holds(cache[r], d) THEN cache[r][d] ELSE Reads(r, d)
  <2>1. d \in Documents /\ d \in Files
    BY FilesAre
  <2>2. CASE r # q
    BY <1>1, <1>2, <1>9, <2>2 DEF Include, Witnessed, Arrived, fileVars
  <2>3. CASE r = q
    <3>1. content \in seen[q][d]
      <4>1. Arrived(q) /\ file[d] \in seen[q][d]
        BY <1>1, <1>9, <2>1, <2>3 DEF Include, Arrived, Witnessed
      <4> QED
        BY <1>1, <2>1, <2>3, <4>1 DEF Witnessed, Holds, Reads
    <3>2. /\ UNCHANGED <<stage, file, opened, seen>>
          /\ cache' = [cache EXCEPT ![r][d] = content]
          /\ \/ include_cache' = include_cache
             \/ include_cache' = [include_cache EXCEPT ![r][d] = content]
          /\ given' = [given EXCEPT ![r] = @ \cup {<<d, content>>}]
      BY <1>9 DEF Include, fileVars
    <3> HIDE DEF content
    <3>3. \A c \in opened'[q] \cup given'[q] : c[2] \in seen'[q][c[1]]
      BY <1>1, <1>2, <2>3, <3>1, <3>2 DEF Witnessed
    <3>4. \A e \in Documents : cache'[q][e] \in seen'[q][e] \cup {Unread}
      BY <1>1, <1>2, <2>1, <2>3, <3>1, <3>2 DEF Witnessed
    <3>5. \A e \in Documents : include_cache'[q][e] \in seen'[q][e] \cup {Unread}
      BY <1>1, <1>2, <2>1, <2>3, <3>1, <3>2 DEF Witnessed
    <3> QED
      BY <1>1, <3>2, <3>3, <3>4, <3>5 DEF Witnessed, Arrived
  <2> QED
    BY <2>2, <2>3
<1>10. ASSUME AcceptFails
       PROVE  Witnessed(q)'
  <2>1. /\ opened'[q] = {} /\ given'[q] = {} /\ cache'[q] = Empty /\ include_cache'[q] = Empty
        /\ stage'[q] \in Ended
    BY <1>2, <1>10 DEF AcceptFails
  <2> QED
    BY <1>3, <2>1 DEF Witnessed, Arrived
<1>11. ASSUME ServerExits
       PROVE  Witnessed(q)'
  BY <1>1, <1>11 DEF ServerExits, Witnessed, Arrived, fileVars, cacheVars, historyVars
<1>18. ASSUME FallsSilent \/ Speaks
       PROVE  Witnessed(q)'
  BY <1>1, <1>18 DEF FallsSilent, Speaks, Witnessed, Arrived, fileVars, cacheVars, historyVars
<1>12. ASSUME NEW f \in Files, Edit(f)
       PROVE  Witnessed(q)'
  <2>1. UNCHANGED <<stage, opened, given, cache, include_cache>>
    BY <1>12 DEF Edit, cacheVars
  <2>2. PICK version : /\ file' = [file EXCEPT ![f] = version]
                       /\ Arrived(q) =>
                            seen'[q] = [seen[q] EXCEPT ![f] = @ \cup {version}]
                       /\ ~Arrived(q) => seen'[q] = seen[q]
    BY <1>12 DEF Edit
  <2>3. \A g \in Files : seen[q][g] \subseteq seen'[q][g]
    BY <1>2, <2>2
  <2>4. Arrived(q) => \A g \in Files : file'[g] \in seen'[q][g]
    BY <1>1, <1>2, <2>2 DEF Witnessed
  <2>5. \A c \in opened[q] \cup given[q] : c[1] \in Files
    BY <1>2
  <2> QED
    BY <1>1, <1>3, <2>1, <2>3, <2>4, <2>5 DEF Witnessed, Arrived
<1>13. CASE UNCHANGED vars
  BY <1>1, <1>13 DEF Witnessed, Arrived, vars, fileVars, cacheVars, historyVars
<1> QED
  BY <1>4, <1>5, <1>6, <1>7, <1>8, <1>9, <1>10, <1>11, <1>12, <1>13, <1>18,
     RequestSteps DEF Next

-----------------------------------------------------------------------------
(* The theorems *)

LEMMA WebInit == Init => WebInduction
<1> SUFFICES ASSUME Init PROVE WebInduction
  OBVIOUS
<1>1. MaxEdits \in Nat /\ 0 \in 0 .. MaxEdits /\ 0 \in 0 .. 1
  BY WebServerBounds DEF WebServerBounds
<1>2. TypeOK
  BY <1>1, FilesAre DEF Init, Database!Init, TypeOK, Waiting, Empty, NothingSeen
<1>3. ASSUME NEW r \in Requests
      PROVE  Counted(r) /\ Remembered(r) /\ Witnessed(r)
  BY FilesAre DEF Init, Database!Init, Counted, Remembered, Witnessed, Running, Arrived,
     Empty, Ended
<1> QED
  BY <1>2, <1>3 DEF WebInduction

\* The induction behind the properties of an answer holds in every reachable state.
THEOREM WebInvariant == Spec => []WebInduction
<1>1. WebInduction /\ [Next]_vars => WebInduction'
  BY TypeKept, CountedKept, RememberedKept, WitnessedKept DEF WebInduction
<1> QED
  BY WebInit, <1>1, PTL DEF Spec

\* The state of the web server keeps its type.
THEOREM WebTyped == Spec => []TypeOK
<1>1. WebInduction => TypeOK
  BY DEF WebInduction
<1> QED
  BY WebInvariant, <1>1, PTL

\* A run is given one version of each document, whatever happens to the file, the
\* request.xml it interprets included where the run includes that.
THEOREM AnswersFromOneVersion == Spec => []OneVersion
<1>1. ASSUME WebInduction
      PROVE  OneVersion
  <2>1. ASSUME NEW r \in Requests, NEW one \in given[r], NEW two \in given[r],
               one[1] = two[1]
        PROVE  one = two
    <3>1. one \in Files \X Versions /\ two \in Files \X Versions
      BY <1>1, <2>1 DEF WebInduction, TypeOK
    <3>2. one[2] = two[2]
      BY <1>1, <2>1 DEF WebInduction, Remembered
    <3> QED
      BY <2>1, <3>1, <3>2
  <2> QED
    BY <2>1 DEF OneVersion
<1> QED
  BY WebInvariant, <1>1, PTL

\* Nothing that goes into an answer is older than the request.
THEOREM AnswersFresh == Spec => []Fresh
<1>1. WebInduction => Fresh
  BY DEF WebInduction, Witnessed, Fresh
<1> QED
  BY WebInvariant, <1>1, PTL

\* What the visitor is shown agrees with the run of the request on the database.
THEOREM ShownAgrees == Spec => []ShownAsRun
<1>1. WebInduction => ShownAsRun
  BY DEF WebInduction, Counted, ShownAsRun, Waiting, Blocking
<1> QED
  BY WebInvariant, <1>1, PTL

-----------------------------------------------------------------------------
(* The workers *)

\* A call of a host whose runs end has its answer or the end of its connection, or
\* waits for a run that is going on or can begin.
LEMMA CallGoesOn ==
    ASSUME WebInduction, NEW r \in Requests, stage[r] = "executing", HostOf[r] \notin Endless
    PROVE  GoesOn(r)
<1>1. /\ HostOf[r] \in Hosts
      /\ runner[HostOf[r]] \in Requests \cup {None}
      /\ ran[r] \in 0 .. 1 /\ sent[r] = 1 /\ answered[r] = 0
      /\ \A h \in Hosts : runner[h] = r => h = HostOf[r]
      /\ r # None
  BY FilesAre DEF WebInduction, TypeOK, Counted
<1>2. CASE ran[r] = 1
  BY <1>1, <1>2 DEF GoesOn
<1>3. CASE runner[HostOf[r]] \in Requests
  BY <1>3 DEF GoesOn
<1>4. CASE ran[r] = 0 /\ runner[HostOf[r]] = None
  <2>1. ran[r] < sent[r] /\ ~Running(r) /\ \A other \in Hosts : runner[other] # r
    BY <1>1, <1>4 DEF Running
  <2> QED
    BY <1>4, <2>1 DEF GoesOn
<1> QED
  BY <1>1, <1>2, <1>3, <1>4

\* With fewer requests of endless hosts than workers, another one is busy when
\* no worker is free.
LEMMA OneIsNotHeld ==
    ASSUME WebInduction, Cardinality(Held) < Workers, ~WorkerFree
    PROVE  Busy \ Held # {}
<1>1. IsFiniteSet(Held) /\ IsFiniteSet(Busy)
  BY WebServerBounds, FS_Subset DEF WebServerBounds, Held, Busy
<1>2. Cardinality(Held) \in Nat /\ Cardinality(Busy) \in Nat /\ Workers \in Nat
  BY <1>1, WebServerBounds, FS_CardinalityType DEF WebServerBounds
<1>3. Cardinality(Held) < Cardinality(Busy)
  BY <1>2 DEF WorkerFree
<1>4. ~(Busy \subseteq Held)
  <2>1. Busy \subseteq Held => Cardinality(Busy) <= Cardinality(Held)
    BY <1>1, FS_Subset
  <2> QED
    BY <1>2, <1>3, <2>1
<1> QED
  BY <1>4

\* No worker waits for a visitor or for what will not come, unless a silent connection
\* keeps it out of the database server, and a host with endless documents cannot take
\* more workers than it has requests.
THEOREM WorkersAreNotLost == Spec => []WorkersGoOn
<1>1. ASSUME WebInduction
      PROVE  WorkersGoOn
  <2>1. ASSUME NEW r \in Busy \ Held
        PROVE  GoesOn(r) \/ KeptOut(r)
    <3>1. r \in Requests /\ stage[r] \in Blocking /\ HostOf[r] \notin Endless
      BY <2>1 DEF Busy, Held
    <3>2. CASE stage[r] = "executing"
      BY <1>1, <3>1, <3>2, CallGoesOn
    <3> QED
      BY <3>1, <3>2 DEF Blocking, GoesOn, KeptOut
  <2> QED
    BY <1>1, <2>1, OneIsNotHeld DEF WorkersGoOn
<1> QED
  BY WebInvariant, <1>1, PTL
=============================================================================
