-------------------------- MODULE ParserScopeProofs --------------------------
(***************************************************************************)
(* Proofs about Parser: in a document whose elements are each consumed     *)
(* once and have at most one counted child, and until an error is          *)
(* swallowed, the counter of parse() is right about every end tag, and the *)
(* sessions in scope are those of the enclosing elements.                  *)
(***************************************************************************)
EXTENDS ParserProofs

Going == mode \in {"reading", "returning"}
Regular == consumed /\ single /\ swallowed = 0

\* Sessions are on the stack in the order they were opened in.
Ordered ==
    \A i \in 1 .. Len(sessions) :
       /\ sessions[i] <= opened
       /\ \A j \in 1 .. i - 1 : sessions[j] < sessions[i]

\* Each of them was pushed by a call that is still active.
Covered ==
    swallowed = 0 /\ Going =>
       \A p \in 1 .. Len(sessions) : \E i \in 1 .. Len(frames) :
          frames[i].kind = "session" /\ frames[i].given["sessions"] = p

\* The element or the buffer that the i-th call reads is the i-th that is open.
Matches(e, kind, sid) ==
    /\ e.tag = "document" <=> kind \in DocKinds
    /\ e.tag = "case" <=> kind = "case"
    /\ e.tag = "session" <=> kind = "session"
    /\ kind = "session" => e.sid = sid

AlignedAt(i) ==
    /\ frames[i].mark = i
    /\ frames[i].kind \notin DocKinds => frames[i].deps <= 1
    /\ i <= Len(open) => Matches(open[i], frames[i].kind, frames[i].sid)

\* A call that has read its own end tag is about to return.
StillOpen ==
    IF mode = "returning" /\ Top.kind \notin DocKinds
      THEN Len(frames) - 1 ELSE Len(frames)

Aligned ==
    Regular /\ Going =>
       Len(open) = StillOpen /\ \A i \in 1 .. Len(frames) : AlignedAt(i)

ScopeInduction == StackInduction /\ Ordered /\ Covered /\ Aligned

-----------------------------------------------------------------------------
(* The order of the sessions *)

\* Steps that leave the stack of sessions as it is.
LEMMA OrderStays ==
    ASSUME Ordered, UNCHANGED <<sessions, opened>>
    PROVE  Ordered'
  BY DEF Ordered

LEMMA OrderedKeeps ==
    ASSUME StackInduction, Ordered, [Next]_vars
    PROVE  Ordered'
<1>1. /\ sessions \in Seq(1 .. MaxSessions) /\ Len(sessions) \in Nat
      /\ opened \in 0 .. MaxSessions /\ MaxSessions \in Nat
  BY LenProperties, ParserBounds DEF StackInduction, TypeOK
<1>2. CASE SessionStart
  <2>1. /\ opened' = opened + 1 /\ opened + 1 \in 1 .. MaxSessions
        /\ sessions' = Append(sessions, opened + 1)
    BY <1>1, <1>2 DEF SessionStart, Enter
  <2>2. /\ Len(sessions') = Len(sessions) + 1
        /\ \A j \in 1 .. Len(sessions) : sessions'[j] = sessions[j]
        /\ sessions'[Len(sessions) + 1] = opened + 1
    BY <1>1, <2>1, PushProperties
  <2>3. \A j \in 1 .. Len(sessions) : sessions[j] \in Nat /\ sessions[j] <= opened
    <3>1. \A j \in 1 .. Len(sessions) : sessions[j] \in 1 .. MaxSessions
      BY <1>1, ElementOfSeq
    <3> QED
      BY <3>1 DEF Ordered
  <2> SUFFICES ASSUME NEW i \in 1 .. Len(sessions) + 1
               PROVE  /\ sessions'[i] <= opened + 1
                      /\ \A j \in 1 .. i - 1 : sessions'[j] < sessions'[i]
    BY <2>1, <2>2 DEF Ordered
  <2>4. CASE i \in 1 .. Len(sessions)
    <3>1. \A j \in 1 .. i - 1 : j \in 1 .. Len(sessions)
      BY <1>1, <2>4
    <3>2. sessions[i] <= opened /\ \A j \in 1 .. i - 1 : sessions[j] < sessions[i]
      BY <2>4 DEF Ordered
    <3>3. sessions[i] <= opened + 1
      BY <1>1, <2>3, <2>4
    <3> QED
      BY <2>2, <2>4, <3>1, <3>2, <3>3
  <2>5. CASE i = Len(sessions) + 1
    <3>1. \A j \in 1 .. i - 1 : j \in 1 .. Len(sessions)
      BY <1>1, <2>5
    <3>2. \A j \in 1 .. Len(sessions) : sessions[j] < opened + 1
      BY <1>1, <2>3
    <3> QED
      BY <1>1, <2>2, <2>5, <3>1, <3>2
  <2> QED
    BY <1>1, <2>4, <2>5
<1>3. CASE ReturnSession
  <2>1. CASE sessions = <<>>
    BY <1>3, <2>1, OrderStays DEF ReturnSession
  <2>2. CASE sessions # <<>>
    <3>1. /\ sessions' = AllButLast(sessions) /\ UNCHANGED opened
      BY <1>3, <2>2 DEF ReturnSession, SessionsPopped
    <3>2. /\ Len(sessions') = Len(sessions) - 1
          /\ \A j \in 1 .. Len(sessions) - 1 : sessions'[j] = sessions[j]
      BY <1>1, <2>2, <3>1, FrontProperties
    <3>3. \A i \in 1 .. Len(sessions) - 1 :
             /\ i \in 1 .. Len(sessions)
             /\ \A j \in 1 .. i - 1 : j \in 1 .. Len(sessions) - 1
      BY <1>1
    <3> QED
      BY <3>1, <3>2, <3>3 DEF Ordered
  <2> QED
    BY <2>1, <2>2
<1>4. CASE Token /\ ~ SessionStart
  BY <1>4, OrderStays DEF Token, HtmlStart, ValueStart, UnhandledStart, SkippedStart,
     Include, CountedStart, LoopStart, ScriptError, EndTag, EndOfBuffer, Enter,
     KeepSessions
<1>5. CASE ScanToken
  BY <1>5, OrderStays DEF ScanToken, ResultStart, StrayInSearch, ConditionStart,
     BranchTaken, CaseEndTag, BranchEntered, Enter, KeepSessions
<1>6. CASE Return /\ ~ ReturnSession
  BY <1>6, OrderStays DEF Return, ReturnPlain, LoopEnds, LoopAgain, ReturnRe,
     ReturnNarrow, ReturnSearch, ReturnUpdate, UpdateRejected, Enter, KeepSessions
<1>7. CASE Unwind \/ Ended \/ UNCHANGED vars
  BY <1>7, OrderStays DEF Unwind, Ended, vars
<1> QED
  BY <1>2, <1>3, <1>4, <1>5, <1>6, <1>7 DEF Next

-----------------------------------------------------------------------------
(* Entering a call *)

\* fs are the calls below the new one; their counters have just been counted.
\* elements are those that are open for it.
LEMMA EnterScopes ==
    ASSUME ScopeInduction, Going,
           NEW fs, SameCalls(fs), Len(fs) > 0,
           \A i \in 1 .. Len(frames) : frames[i].kind = "session" => i <= Len(fs),
           NEW kind \in Kinds, NEW elements, NEW ss, NEW sc, NEW inc, NEW sid,
           Enter(fs, kind, elements, ss, sc, inc, sid),
           SessionPushed(kind, ss, sid), UNCHANGED swallowed,
           Regular' =>
              /\ Regular
              /\ elements \in Seq(Element) /\ Len(elements) = Len(fs) + 1
              /\ \A i \in 1 .. Len(fs) : elements[i] = open[i] /\ i <= Len(open)
              /\ Matches(elements[Len(fs) + 1], kind, sid)
              /\ \A i \in 1 .. Len(fs) : fs[i].kind \notin DocKinds => fs[i].deps <= 1
    PROVE  Covered' /\ Aligned'
<1> DEFINE n == Len(fs)
           e == NewFrame(kind, elements, ss, sc, inc, sid)
<1>1. /\ n \in Nat \ {0} /\ fs \in Seq(Frame) /\ Len(frames) \in Nat
      /\ \A i \in 1 .. n : i \in 1 .. Len(frames)
      /\ frames' = Append(fs, e) /\ mode' = "reading" /\ open' = elements
      /\ sessions' = ss
  BY LenProperties DEF SameCalls, Enter, ScopeInduction, StackInduction, TypeOK
<1>2. /\ Len(frames') = n + 1
      /\ \A i \in 1 .. n : frames'[i] = fs[i]
      /\ frames'[n + 1] = e
  BY <1>1, AppendProperties
<1>3. /\ e.kind = kind /\ e.mark = Len(elements) /\ e.sid = sid /\ e.deps = 0
      /\ e.given["sessions"] = Len(ss)
  BY DEF NewFrame, Heights, Stacks
<1> HIDE DEF e
<1>4. /\ sessions \in Seq(1 .. MaxSessions) /\ Len(sessions) \in Nat
  BY LenProperties DEF ScopeInduction, StackInduction, TypeOK
<1>5. Covered'
  <2> SUFFICES ASSUME swallowed = 0, NEW p \in 1 .. Len(ss)
               PROVE  \E i \in 1 .. n + 1 : /\ frames'[i].kind = "session"
                                            /\ frames'[i].given["sessions"] = p
    BY <1>1, <1>2 DEF Covered
  <2>1. CASE p \in 1 .. Len(sessions)
    <3>1. PICK i \in 1 .. Len(frames) :
             frames[i].kind = "session" /\ frames[i].given["sessions"] = p
      BY <2>1 DEF ScopeInduction, Covered
    <3>2. i \in 1 .. n /\ i \in 1 .. n + 1
      BY <1>1, <3>1
    <3>3. fs[i].kind = "session" /\ fs[i].given["sessions"] = p
      BY <3>1, <3>2 DEF SameCalls
    <3> QED
      BY <1>2, <3>2, <3>3
  <2>2. CASE p \notin 1 .. Len(sessions)
    <3>1. kind = "session" /\ ss = Append(sessions, sid) /\ sid \in 1 .. MaxSessions
      BY <2>2 DEF SessionPushed
    <3>2. Len(ss) = Len(sessions) + 1
      BY <1>4, <3>1, PushProperties
    <3>3. \A q \in 1 .. Len(sessions) + 1 :
             q \notin 1 .. Len(sessions) => q = Len(sessions) + 1
      BY <1>4
    <3>4. p = Len(ss)
      BY <2>2, <3>2, <3>3
    <3>5. n + 1 \in 1 .. n + 1
      BY <1>1
    <3> QED
      BY <1>2, <1>3, <3>1, <3>4, <3>5
  <2> QED
    BY <2>1, <2>2
<1>6. Aligned'
  <2> SUFFICES ASSUME Regular'
               PROVE  Len(open') = StillOpen' /\ \A i \in 1 .. n + 1 : AlignedAt(i)'
    BY <1>2 DEF Aligned
  <2>1. /\ Len(elements) = n + 1
        /\ \A i \in 1 .. n : elements[i] = open[i] /\ i <= Len(open)
        /\ Matches(elements[n + 1], kind, sid)
        /\ \A i \in 1 .. n : fs[i].kind \notin DocKinds => fs[i].deps <= 1
    OBVIOUS
  <2>2. Len(open') = StillOpen'
    BY <1>1, <1>2, <2>1 DEF StillOpen
  <2>3. ASSUME NEW i \in 1 .. n PROVE AlignedAt(i)'
    <3>1. AlignedAt(i) /\ i \in 1 .. Len(frames)
      BY <1>1 DEF ScopeInduction, Aligned
    <3>2. /\ frames'[i] = fs[i] /\ fs[i].kind = frames[i].kind
          /\ fs[i].mark = frames[i].mark /\ fs[i].sid = frames[i].sid
      BY <1>2 DEF SameCalls
    <3> QED
      BY <1>1, <2>1, <3>1, <3>2 DEF AlignedAt
  <2>4. AlignedAt(n + 1)'
    BY <1>1, <1>2, <1>3, <2>1 DEF AlignedAt
  <2> QED
    BY <1>1, <2>2, <2>3, <2>4
<1> QED
  BY <1>5, <1>6

\* What is open above the calls when one more element or buffer is.
LEMMA OpenAbove ==
    ASSUME ScopeInduction, mode = "reading", Regular, NEW e \in Element
    PROVE  /\ Append(open, e) \in Seq(Element)
           /\ Len(Append(open, e)) = Len(frames) + 1
           /\ \A i \in 1 .. Len(frames) : Append(open, e)[i] = open[i] /\ i <= Len(open)
           /\ Append(open, e)[Len(frames) + 1] = e
<1>1. open \in Seq(Element) /\ Len(open) = Len(frames) /\ Len(frames) \in Nat
  BY LenProperties
     DEF ScopeInduction, Aligned, Going, StillOpen, StackInduction, TypeOK
<1> QED
  BY <1>1, PushProperties

\* What is open when the top call is gone.
LEMMA OpenUnder ==
    ASSUME ScopeInduction, mode = "returning", Regular
    PROVE  /\ OpenBelow \in Seq(Element)
           /\ Len(OpenBelow) = Len(frames) - 1
           /\ \A i \in 1 .. Len(frames) - 1 : OpenBelow[i] = open[i] /\ i <= Len(open)
<1>1. /\ Len(frames) \in 1 .. Len(frames) /\ Top = frames[Len(frames)]
      /\ Len(frames) \in Nat \ {0}
  BY Running DEF ScopeInduction
<1>2. /\ open \in Seq(Element) /\ Len(open) = StillOpen
      /\ Top.mark = Len(frames)
  BY <1>1 DEF ScopeInduction, Aligned, AlignedAt, Going, StackInduction, TypeOK
<1>3. CASE Top.kind \in DocKinds
  <2>1. Len(open) = Len(frames) /\ Len(frames) - 1 \in 0 .. Len(open)
    BY <1>1, <1>2, <1>3 DEF StillOpen
  <2>2. OpenBelow = SubSeq(open, 1, Len(frames) - 1)
    BY <1>2, <1>3 DEF OpenBelow
  <2> QED
    BY <1>1, <1>2, <2>1, <2>2, PrefixProperties
<1>4. CASE Top.kind \notin DocKinds
  BY <1>1, <1>2, <1>4 DEF StillOpen, OpenBelow
<1> QED
  BY <1>3, <1>4

LEMMA AboveScopes ==
    ASSUME ScopeInduction, mode = "reading",
           NEW fs, SameCalls(fs), Len(fs) = Len(frames),
           NEW kind \in Kinds, NEW e \in Element, NEW ss, NEW sc, NEW inc, NEW sid,
           Enter(fs, kind, Append(open, e), ss, sc, inc, sid),
           SessionPushed(kind, ss, sid), Matches(e, kind, sid), UNCHANGED swallowed,
           Regular' =>
              /\ Regular
              /\ \A i \in 1 .. Len(fs) : fs[i].kind \notin DocKinds => fs[i].deps <= 1
    PROVE  Covered' /\ Aligned'
<1>1. /\ Len(frames) > 0 /\ \A i \in 1 .. Len(frames) : i <= Len(frames)
  BY Running DEF ScopeInduction
<1>2. Regular' =>
         /\ Regular
         /\ Append(open, e) \in Seq(Element) /\ Len(Append(open, e)) = Len(fs) + 1
         /\ \A i \in 1 .. Len(fs) : Append(open, e)[i] = open[i] /\ i <= Len(open)
         /\ Append(open, e)[Len(fs) + 1] = e
  BY OpenAbove
<1> QED
  BY <1>1, <1>2, EnterScopes DEF Going

LEMMA InsteadScopes ==
    ASSUME ScopeInduction, mode = "returning", Top.kind \notin {"top", "session"},
           NEW kind \in DocKinds, NEW sc, NEW inc,
           Enter(AllButLast(frames), kind, Append(OpenBelow, Buffer), sessions, sc, inc, 0),
           UNCHANGED <<consumed, single, swallowed>>
    PROVE  Covered' /\ Aligned'
<1> DEFINE fs == AllButLast(frames)
<1>1. /\ frames # <<>> /\ frames \in Seq(Frame) /\ Len(frames) \in Nat \ {0}
      /\ Len(frames) \in 1 .. Len(frames) /\ Top = frames[Len(frames)]
  BY Running DEF ScopeInduction
<1>2. Len(frames) # 1
  BY <1>1 DEF ScopeInduction, StackInduction, OneTop
<1>3. /\ fs \in Seq(Frame) /\ Len(fs) = Len(frames) - 1
      /\ \A i \in 1 .. Len(frames) - 1 : fs[i] = frames[i]
  BY <1>1, FrontProperties
<1>4. SameCalls(fs) /\ Len(fs) > 0
  BY <1>1, <1>2, <1>3 DEF SameCalls
<1>5. \A i \in 1 .. Len(frames) : frames[i].kind = "session" => i <= Len(fs)
  <2> SUFFICES ASSUME NEW i \in 1 .. Len(frames), frames[i].kind = "session"
               PROVE  i <= Len(frames) - 1
    BY <1>3
  <2>1. i # Len(frames)
    BY <1>1
  <2> QED
    BY <1>1, <2>1
<1>6. kind # "session" /\ kind # "case" /\ kind \in Kinds
  BY DEF DocKinds, Kinds
<1>7. SessionPushed(kind, sessions, 0)
  BY <1>6 DEF SessionPushed
<1>8. Regular' => Regular
  BY DEF Regular
<1>9. Buffer \in Element /\ Matches(Buffer, kind, 0)
  BY <1>6, BufferTyped DEF Matches
<1>10. ASSUME Regular
       PROVE  /\ Append(OpenBelow, Buffer) \in Seq(Element)
              /\ Len(Append(OpenBelow, Buffer)) = Len(fs) + 1
              /\ \A i \in 1 .. Len(fs) :
                    Append(OpenBelow, Buffer)[i] = open[i] /\ i <= Len(open)
              /\ Append(OpenBelow, Buffer)[Len(fs) + 1] = Buffer
  <2>1. /\ OpenBelow \in Seq(Element) /\ Len(OpenBelow) = Len(fs)
        /\ \A i \in 1 .. Len(fs) : OpenBelow[i] = open[i] /\ i <= Len(open)
    BY <1>3, <1>10, OpenUnder
  <2> QED
    BY <1>9, <2>1, PushProperties
<1>11. ASSUME Regular
       PROVE  \A i \in 1 .. Len(fs) : fs[i].kind \notin DocKinds => fs[i].deps <= 1
  <2>1. \A i \in 1 .. Len(fs) : i \in 1 .. Len(frames) /\ fs[i] = frames[i]
    BY <1>1, <1>3
  <2> QED
    BY <1>11, <2>1 DEF ScopeInduction, Aligned, AlignedAt, Going
<1> HIDE DEF fs
<1>12. Enter(fs, kind, Append(OpenBelow, Buffer), sessions, sc, inc, 0)
  BY DEF fs
<1> QED
  BY <1>4, <1>5, <1>6, <1>7, <1>8, <1>9, <1>10, <1>11, <1>12, EnterScopes DEF Going

-----------------------------------------------------------------------------
(* Steps within a call, and leaving one *)

LEMMA CoverStays ==
    ASSUME ScopeInduction, Going, SameCalls(frames'), Len(frames') = Len(frames),
           UNCHANGED <<sessions, swallowed>>
    PROVE  Covered'
  BY DEF ScopeInduction, Covered, SameCalls

\* A start tag that is counted, in a document that stays regular.
LEMMA CountedScopes ==
    ASSUME ScopeInduction, mode = "reading", NEW consumes \in BOOLEAN,
           Shape(TRUE, consumes), UNCHANGED swallowed, Regular'
    PROVE  /\ Regular
           /\ Len(Counted) = Len(frames)
           /\ \A i \in 1 .. Len(frames) : Counted[i].kind \notin DocKinds => Counted[i].deps <= 1
<1>1. /\ frames \in Seq(Frame) /\ Len(frames) \in 1 .. Len(frames)
      /\ Top = frames[Len(frames)] /\ Top \in Frame
  BY Running DEF ScopeInduction
<1>2. Regular /\ (Top.kind \in DocKinds \/ Top.deps = 0)
  BY DEF Shape, StaysSingle, Regular, ScopeInduction, StackInduction, TypeOK
<1>3. /\ Len(Counted) = Len(frames)
      /\ \A i \in 1 .. Len(frames) : Counted[i] =
            IF i = Len(frames) THEN [frames[i] EXCEPT !.deps = @ + 1] ELSE frames[i]
  BY <1>1, ExceptSeq DEF Counted, Depth
<1>4. \A i \in 1 .. Len(frames) :
         frames[i] \in Frame /\ (frames[i].kind \notin DocKinds => frames[i].deps <= 1)
  BY <1>1, <1>2, ElementOfSeq DEF ScopeInduction, Aligned, AlignedAt, Going
<1> SUFFICES ASSUME NEW i \in 1 .. Len(frames), Counted[i].kind \notin DocKinds
             PROVE  Counted[i].deps <= 1
  BY <1>2, <1>3
<1>5. CASE i = Len(frames)
  <2>1. Counted[i].kind = Top.kind /\ Counted[i].deps = Top.deps + 1
    BY <1>1, <1>3, <1>5 DEF Frame
  <2> QED
    BY <1>2, <2>1
<1>6. CASE i # Len(frames)
  BY <1>3, <1>4, <1>6
<1> QED
  BY <1>5, <1>6

\* A step that is not regular, or after which no call goes on.
LEMMA Irregular ==
    ASSUME ~ Regular' \/ ~ Going'
    PROVE  Aligned'
  BY DEF Aligned

\* An element that is counted and skipped.
LEMMA SkippedScopes ==
    ASSUME ScopeInduction, mode = "reading", Shape(TRUE, TRUE),
           UNCHANGED <<mode, open, sessions, swallowed>>,
           SameCalls(frames'), Len(frames') = Len(frames),
           \A i \in 1 .. Len(frames) : frames'[i].deps = Counted[i].deps
    PROVE  Covered' /\ Aligned'
<1>1. Covered'
  BY CoverStays DEF Going
<1>2. \A i \in 1 .. Len(frames) : /\ frames'[i].kind = frames[i].kind
                                  /\ Counted[i].kind = frames[i].kind
  <2>1. /\ frames \in Seq(Frame) /\ Len(frames) \in 1 .. Len(frames)
    BY Running DEF ScopeInduction
  <2>2. \A i \in 1 .. Len(frames) : /\ frames[i] \in Frame
           /\ Counted[i] = IF i = Len(frames) THEN [frames[i] EXCEPT !.deps = @ + 1]
                           ELSE frames[i]
    BY <2>1, ExceptSeq, ElementOfSeq DEF Counted, Depth
  <2> QED
    BY <2>2 DEF SameCalls, Frame
<1>3. ASSUME Regular' PROVE Len(open') = StillOpen'
  <2>1. Regular
    BY <1>3, CountedScopes
  <2> QED
    BY <2>1 DEF ScopeInduction, Aligned, StillOpen, Going
<1>4. ASSUME Regular', NEW i \in 1 .. Len(frames) PROVE AlignedAt(i)'
  <2>1. AlignedAt(i) /\ (Counted[i].kind \notin DocKinds => Counted[i].deps <= 1)
    BY <1>4, CountedScopes DEF ScopeInduction, Aligned, Going
  <2> QED
    BY <1>2, <2>1 DEF AlignedAt, SameCalls
<1> QED
  BY <1>1, <1>3, <1>4 DEF Aligned

\* In a regular document the innermost element that is open is the top call's.
LEMMA TopElement ==
    ASSUME ScopeInduction, mode = "reading", Regular
    PROVE  /\ Len(open) = Len(frames) /\ Top.mark = Len(open)
           /\ Matches(open[Len(open)], Top.kind, Top.sid)
           /\ Top.kind \notin DocKinds => Top.deps <= 1
<1>1. Len(frames) \in 1 .. Len(frames) /\ Top = frames[Len(frames)]
  BY Running DEF ScopeInduction
<1>2. Len(open) = Len(frames) /\ AlignedAt(Len(frames))
  BY <1>1 DEF ScopeInduction, Aligned, StillOpen, Going
<1>3. Len(frames) <= Len(open)
  BY <1>1, <1>2
<1> QED
  BY <1>1, <1>2, <1>3 DEF AlignedAt

\* A call that is about to return has read its end tag, or the end of its buffer.
LEMMA ReturningScopes ==
    ASSUME ScopeInduction, mode = "reading", mode' = "returning",
           UNCHANGED <<frames, sessions, consumed, single, swallowed>>,
           Regular => \/ Top.kind \in DocKinds /\ open' = open
                      \/ Top.kind \notin DocKinds /\ open' = AllButLast(open)
    PROVE  Covered' /\ Aligned'
<1>1. /\ frames \in Seq(Frame) /\ Len(frames) \in Nat \ {0} /\ SameCalls(frames)
      /\ open # <<>> /\ open \in Seq(Element)
  BY Running, OpenNonempty DEF ScopeInduction
<1>2. Covered'
  BY <1>1, CoverStays DEF Going
<1>3. Regular' => Regular
  BY DEF Regular
<1>4. Top' = Top
  BY DEF Top, Depth
<1>5. ASSUME Regular PROVE Len(open') = StillOpen' /\ \A i \in 1 .. Len(frames) : AlignedAt(i)'
  <2>1. Len(open) = Len(frames)
    BY <1>5, TopElement
  <2>2. \A i \in 1 .. Len(frames) : AlignedAt(i)
    BY <1>5 DEF ScopeInduction, Aligned, Going
  <2>3. /\ Len(AllButLast(open)) = Len(frames) - 1
        /\ \A i \in 1 .. Len(frames) - 1 : AllButLast(open)[i] = open[i]
    BY <1>1, <2>1, FrontProperties
  <2>4. Len(open') = StillOpen'
    BY <1>4, <1>5, <2>1, <2>3 DEF StillOpen
  <2>5. ASSUME NEW i \in 1 .. Len(frames) PROVE AlignedAt(i)'
    <3>1. i <= Len(open') => open'[i] = open[i] /\ i <= Len(open)
      BY <1>1, <1>5, <2>1, <2>3
    <3> QED
      BY <2>2, <3>1 DEF AlignedAt
  <2> QED
    BY <2>4, <2>5
<1> QED
  BY <1>2, <1>3, <1>5 DEF Aligned

LEMMA EndTagScopes == ASSUME ScopeInduction, EndTag PROVE Covered' /\ Aligned'
<1>1. /\ mode = "reading" /\ open[Len(open)].tag # "document" /\ open' = AllButLast(open)
      /\ UNCHANGED <<sessions, consumed, single, swallowed>>
  BY DEF EndTag, KeepSessions
<1>2. CASE Regular
  <2>1. Top.kind \notin DocKinds /\ Top.deps <= 1
    BY <1>1, <1>2, TopElement DEF Matches
  <2>2. Top \in Frame /\ MaxDeps \in Nat
    BY <1>1, Running, ParserBounds DEF ScopeInduction
  <2>3. EndsCall(Top.deps - 1)
    BY <2>1, <2>2 DEF EndsCall, Frame
  <2>4. mode' = "returning" /\ UNCHANGED frames
    BY <2>3 DEF EndTag
  <2> QED
    BY <1>1, <2>1, <2>4, ReturningScopes
<1>3. CASE ~ Regular
  <2>1. SameCalls(frames') /\ Len(frames') = Len(frames)
    <3>1. CASE UNCHANGED frames
      BY <1>1, <3>1, Running DEF ScopeInduction
    <3>2. CASE /\ ~ EndsCall(Top.deps - 1)
               /\ frames' = [frames EXCEPT ![Depth].deps = @ - 1]
      <4> DEFINE f == [Top EXCEPT !.deps = @ - 1]
      <4>1. Top \in Frame /\ Top = frames[Depth] /\ MaxDeps \in Nat
        BY <1>1, Running, ParserBounds DEF ScopeInduction, Depth
      <4>2. Top.deps - 1 \in 0 .. MaxDeps
        BY <3>2, <4>1 DEF EndsCall, Frame
      <4>3. f \in Frame /\ frames' = [frames EXCEPT ![Depth] = f]
        BY <3>2, <4>1, <4>2 DEF Frame
      <4>4. /\ f.kind = Top.kind /\ f.mark = Top.mark /\ f.given = Top.given
            /\ f.sid = Top.sid
        BY <4>1 DEF Frame
      <4> HIDE DEF f
      <4> QED
        BY <1>1, <4>3, <4>4, TopReplaced DEF ScopeInduction
    <3> QED
      BY <3>1, <3>2 DEF EndTag
  <2>2. Covered'
    BY <1>1, <2>1, CoverStays DEF Going
  <2>3. ~ Regular'
    BY <1>1, <1>3 DEF Regular
  <2> QED
    BY <2>2, <2>3, Irregular
<1> QED
  BY <1>2, <1>3

\* A handler that goes on in its caller, with the session of its own element
\* popped if it has one.
LEMMA LeaveScopes ==
    ASSUME ScopeInduction, mode = "returning", Leave,
           UNCHANGED <<consumed, single, swallowed>>,
           \/ Top.kind # "session" /\ sessions' = sessions
           \/ /\ Top.kind = "session"
              /\ sessions' = IF sessions = <<>> THEN sessions ELSE AllButLast(sessions)
    PROVE  Covered' /\ Aligned'
<1> DEFINE n == Len(frames) - 1
<1>1. /\ frames # <<>> /\ frames \in Seq(Frame) /\ Len(frames) \in Nat \ {0}
      /\ Len(frames) \in 1 .. Len(frames) /\ Top = frames[Len(frames)] /\ Top \in Frame
  BY Running DEF ScopeInduction
<1>2. /\ Len(frames') = n /\ \A i \in 1 .. n : frames'[i] = frames[i]
  BY <1>1, FrontProperties DEF Leave
<1>3. \A i \in 1 .. n : i \in 1 .. Len(frames)
  BY <1>1
<1>4. sessions \in Seq(1 .. MaxSessions) /\ Len(sessions) \in Nat
  BY LenProperties DEF ScopeInduction, StackInduction, TypeOK
<1>5. Covered'
  <2> SUFFICES ASSUME swallowed = 0, NEW p \in 1 .. Len(sessions')
               PROVE  \E i \in 1 .. n : /\ frames[i].kind = "session"
                                        /\ frames[i].given["sessions"] = p
    BY <1>2 DEF Covered
  <2>1. p \in 1 .. Len(sessions) /\ (Top.kind = "session" => p # Len(sessions))
    <3>1. CASE Top.kind = "session" /\ sessions # <<>> /\ sessions' = AllButLast(sessions)
      <4>1. Len(sessions') = Len(sessions) - 1
        BY <1>4, <3>1, FrontProperties
      <4> QED
        BY <1>4, <4>1
    <3>2. CASE Top.kind = "session" /\ sessions = <<>> /\ sessions' = sessions
      BY <1>4, <3>2, EmptySeq
    <3>3. CASE Top.kind # "session" /\ sessions' = sessions
      BY <3>3
    <3> QED
      BY <3>1, <3>2, <3>3
  <2>2. PICK i \in 1 .. Len(frames) :
           frames[i].kind = "session" /\ frames[i].given["sessions"] = p
    BY <2>1 DEF ScopeInduction, Covered, Going
  <2>3. i # Len(frames)
    <3>1. "sessions" \in Stacks /\ Heights(sessions, scopes, includes)["sessions"] = Len(sessions)
      BY DEF Heights, Stacks
    <3>2. Top.given["sessions"] = Len(sessions)
      BY <1>1, <3>1 DEF ScopeInduction, StackInduction, Balanced, Clean
    <3> QED
      BY <1>1, <2>1, <2>2, <3>2
  <2>4. i \in 1 .. n
    BY <1>1, <2>2, <2>3
  <2> QED
    BY <2>2, <2>4
<1>6. CASE ~ Regular' \/ mode' = "done"
  BY <1>5, <1>6, Irregular DEF Going
<1>7. CASE Regular' /\ mode' = "reading"
  <2>1. Regular
    BY <1>7 DEF Regular
  <2>2. /\ Len(OpenBelow) = n
        /\ \A i \in 1 .. n : OpenBelow[i] = open[i] /\ i <= Len(open)
    BY <2>1, OpenUnder
  <2>3. Len(open') = StillOpen'
    BY <1>2, <1>7, <2>2 DEF StillOpen, Leave
  <2>4. ASSUME NEW i \in 1 .. n PROVE AlignedAt(i)'
    <3>1. AlignedAt(i)
      BY <1>3, <2>1 DEF ScopeInduction, Aligned, Going
    <3> QED
      BY <1>2, <2>2, <3>1 DEF AlignedAt, Leave
  <2> QED
    BY <1>2, <1>5, <2>3, <2>4 DEF Aligned
<1> QED
  BY <1>6, <1>7 DEF Leave

-----------------------------------------------------------------------------
(* The induction *)

\* What the elements opened for a call stand for.
LEMMA ElementMatches ==
    ASSUME NEW kind \in Kinds, NEW sid \in 0 .. MaxSessions
    PROVE  /\ kind \in InnerKinds \ {"session", "case"} =>
                 Elem("other", 0) \in Element /\ Matches(Elem("other", 0), kind, sid)
           /\ Elem("case", 0) \in Element /\ Matches(Elem("case", 0), "case", sid)
           /\ Elem("session", sid) \in Element /\ Matches(Elem("session", sid), "session", sid)
           /\ kind \in DocKinds => Buffer \in Element /\ Matches(Buffer, kind, sid)
<1>1. 0 \in 0 .. MaxSessions
  BY ParserBounds
<1> QED
  BY <1>1 DEF Matches, Elem, Element, Buffer, Tags, Kinds, DocKinds, InnerKinds

LEMMA TokenScopes == ASSUME ScopeInduction, Token PROVE Covered' /\ Aligned'
<1>1. mode = "reading"
  BY DEF Token, HtmlStart, ValueStart, UnhandledStart, SkippedStart, Include,
     SessionStart, CountedStart, LoopStart, ScriptError, EndTag, EndOfBuffer,
     Parsing
<1>2. /\ SameCalls(frames) /\ Len(frames) \in 1 .. Len(frames)
      /\ Top = frames[Len(frames)]
  BY <1>1, Running DEF ScopeInduction
<1>3. MayCount => SameCalls(Counted) /\ Len(Counted) = Len(frames)
  BY <1>1, CountedSame DEF ScopeInduction
<1>4. ASSUME Regular, Regular' PROVE
        \A i \in 1 .. Len(frames) : frames[i].kind \notin DocKinds => frames[i].deps <= 1
  BY <1>1, <1>4 DEF ScopeInduction, Aligned, AlignedAt, Going
<1>5. 0 \in 0 .. MaxSessions /\ \A kind : kind # "session" => SessionPushed(kind, sessions, 0)
  BY ParserBounds DEF SessionPushed
<1>6. CASE HtmlStart
  <2>1. /\ Enter(frames, "element", Append(open, Elem("other", 0)), sessions, scopes,
                 includes, 0)
        /\ UNCHANGED <<consumed, single, swallowed>>
    BY <1>6 DEF HtmlStart, KeepSessions
  <2>2. "element" \in Kinds /\ "element" \in InnerKinds \ {"session", "case"}
    BY DEF Kinds, InnerKinds
  <2>3. Regular' => Regular
    BY <2>1 DEF Regular
  <2> QED
    BY <1>1, <1>2, <1>4, <1>5, <2>1, <2>2, <2>3, ElementMatches, AboveScopes
<1>7. CASE ValueStart
  <2>1. SameCalls(frames') /\ Len(frames') = Len(frames) /\ UNCHANGED <<sessions, swallowed>>
    BY <1>2, <1>7 DEF ValueStart, KeepSessions, SameCalls
  <2>2. ~ Regular'
    BY <1>7 DEF ValueStart, Shape, Regular
  <2> QED
    BY <1>1, <2>1, <2>2, CoverStays, Irregular DEF Going
<1>8. CASE UnhandledStart
  <2>1. SameCalls(frames') /\ Len(frames') = Len(frames) /\ UNCHANGED <<sessions, swallowed>>
    BY <1>3, <1>8 DEF UnhandledStart, KeepSessions, SameCalls
  <2>2. ~ Regular'
    BY <1>8 DEF UnhandledStart, Shape, Regular
  <2> QED
    BY <1>1, <2>1, <2>2, CoverStays, Irregular DEF Going
<1>9. CASE SkippedStart
  <2>1. /\ SameCalls(frames') /\ Len(frames') = Len(frames) /\ frames' = Counted
        /\ UNCHANGED <<mode, open, sessions, swallowed>> /\ Shape(TRUE, TRUE)
    BY <1>3, <1>9 DEF SkippedStart, KeepSessions, SameCalls
  <2> QED
    BY <1>1, <2>1, SkippedScopes
<1>10. ASSUME NEW asStart \in BOOLEAN, Include(asStart) PROVE Covered' /\ Aligned'
  <2> DEFINE here == IF asStart THEN Append(open, Elem("other", 0)) ELSE open
  <2>1. /\ Enter(frames, "include", Append(here, Buffer), sessions, scopes,
                 includes + 1, 0)
        /\ UNCHANGED swallowed /\ Shape(FALSE, ~ asStart)
    BY <1>10 DEF Include, KeepSessions
  <2>2. /\ "include" \in Kinds /\ "include" \in DocKinds /\ "include" # "session"
        /\ \A i \in 1 .. Len(frames) : frames[i].kind = "session" => i <= Len(frames)
        /\ Len(frames) > 0
    BY <1>2 DEF Kinds, DocKinds
  <2>3. Regular' => ~ asStart /\ Regular
    BY <2>1 DEF Shape, Regular
  <2>4. Buffer \in Element /\ Matches(Buffer, "include", 0)
    BY <1>5, <2>2, ElementMatches
  <2>5. ASSUME Regular'
        PROVE  /\ Append(here, Buffer) \in Seq(Element)
               /\ Len(Append(here, Buffer)) = Len(frames) + 1
               /\ \A i \in 1 .. Len(frames) :
                     Append(here, Buffer)[i] = open[i] /\ i <= Len(open)
               /\ Append(here, Buffer)[Len(frames) + 1] = Buffer
    BY <1>1, <2>3, <2>4, <2>5, OpenAbove
  <2> HIDE DEF here
  <2> QED
    BY <1>1, <1>2, <1>4, <1>5, <2>1, <2>2, <2>3, <2>4, <2>5, EnterScopes DEF Going
<1>11. CASE SessionStart
  <2>1. /\ Enter(Counted, "session", Append(open, Elem("session", opened + 1)),
                 Append(sessions, opened + 1), scopes, includes, opened + 1)
        /\ Shape(TRUE, TRUE) /\ UNCHANGED swallowed /\ MayCount
        /\ opened < MaxSessions
    BY <1>11 DEF SessionStart
  <2>2. opened + 1 \in 1 .. MaxSessions /\ opened + 1 \in 0 .. MaxSessions
    BY <2>1, ParserBounds DEF ScopeInduction, StackInduction, TypeOK
  <2>3. "session" \in Kinds /\ SessionPushed("session", Append(sessions, opened + 1), opened + 1)
    BY <2>2 DEF SessionPushed, Kinds, InnerKinds
  <2>4. /\ Elem("session", opened + 1) \in Element
        /\ Matches(Elem("session", opened + 1), "session", opened + 1)
    BY <2>2, <2>3, ElementMatches
  <2>5. Regular' =>
           /\ Regular
           /\ \A i \in 1 .. Len(Counted) : Counted[i].kind \notin DocKinds => Counted[i].deps <= 1
    BY <1>1, <2>1, CountedScopes
  <2> QED
    BY <1>1, <1>3, <2>1, <2>3, <2>4, <2>5, AboveScopes
<1>12. ASSUME NEW kind \in {"element", "scope", "sort", "re", "update", "search", "case"},
              CountedStart(kind)
       PROVE  Covered' /\ Aligned'
  <2> DEFINE tag == IF kind = "case" THEN "case" ELSE "other"
             sc == IF kind \in ScopeKinds THEN scopes + 1 ELSE scopes
  <2>1. /\ Enter(Counted, kind, Append(open, Elem(tag, 0)), sessions, sc, includes, 0)
        /\ Shape(TRUE, TRUE) /\ UNCHANGED swallowed /\ MayCount
    BY <1>12 DEF CountedStart, KeepSessions
  <2>2. kind \in Kinds /\ kind # "session"
    BY DEF Kinds, InnerKinds
  <2>3. Elem(tag, 0) \in Element /\ Matches(Elem(tag, 0), kind, 0)
    <3>1. kind # "case" => kind \in InnerKinds \ {"session", "case"}
      BY DEF InnerKinds
    <3> QED
      BY <1>5, <2>2, <3>1, ElementMatches
  <2>4. Regular' =>
           /\ Regular
           /\ \A i \in 1 .. Len(Counted) : Counted[i].kind \notin DocKinds => Counted[i].deps <= 1
    BY <1>1, <2>1, CountedScopes
  <2> HIDE DEF tag, sc
  <2> QED
    BY <1>1, <1>3, <1>5, <2>1, <2>2, <2>3, <2>4, AboveScopes
<1>13. ASSUME NEW kind \in {"for", "while"}, LoopStart(kind) PROVE Covered' /\ Aligned'
  <2> DEFINE sc == IF kind = "for" THEN scopes + 1 ELSE scopes
  <2>1. /\ Enter(Counted, kind, Append(open, Buffer), sessions, sc, includes, 0)
        /\ Shape(TRUE, TRUE) /\ UNCHANGED swallowed /\ MayCount
    BY <1>13 DEF LoopStart, KeepSessions
  <2>2. kind \in Kinds /\ kind # "session" /\ kind \in DocKinds
    BY DEF Kinds, DocKinds
  <2>3. Buffer \in Element /\ Matches(Buffer, kind, 0)
    BY <1>5, <2>2, ElementMatches
  <2>4. Regular' =>
           /\ Regular
           /\ \A i \in 1 .. Len(Counted) : Counted[i].kind \notin DocKinds => Counted[i].deps <= 1
    BY <1>1, <2>1, CountedScopes
  <2> HIDE DEF sc
  <2> QED
    BY <1>1, <1>3, <1>5, <2>1, <2>2, <2>3, <2>4, AboveScopes
<1>14. CASE ScriptError
  <2>1. /\ SameCalls(frames') /\ Len(frames') = Len(frames) /\ UNCHANGED <<sessions, swallowed>>
        /\ ~ Going'
    BY <1>2, <1>14 DEF ScriptError, KeepSessions, SameCalls, Going
  <2> QED
    BY <1>1, <2>1, CoverStays, Irregular DEF Going
<1>15. CASE EndTag
  BY <1>15, EndTagScopes
<1>16. CASE EndOfBuffer
  <2>1. /\ mode' = "returning" /\ open[Len(open)].tag = "document" /\ open' = open
        /\ UNCHANGED <<frames, sessions, consumed, single, swallowed>>
    BY <1>16, BufferTyped DEF EndOfBuffer, KeepSessions
  <2>2. Regular => Top.kind \in DocKinds
    BY <1>1, <2>1, TopElement DEF Matches
  <2> QED
    BY <1>1, <2>1, <2>2, ReturningScopes
<1> QED
  BY <1>6, <1>7, <1>8, <1>9, <1>10, <1>11, <1>12, <1>13, <1>14, <1>15, <1>16 DEF Token

LEMMA ScanTokenScopes == ASSUME ScopeInduction, ScanToken PROVE Covered' /\ Aligned'
<1>1. mode = "reading"
  BY DEF ScanToken, ResultStart, StrayInSearch, ConditionStart, BranchTaken,
     CaseEndTag, BranchEntered, InConditions, InCase
<1>2. /\ SameCalls(frames) /\ Len(frames) \in 1 .. Len(frames) /\ frames \in Seq(Frame)
      /\ Top = frames[Len(frames)] /\ Top \in Frame
  BY <1>1, Running DEF ScopeInduction
<1>3. MayCount => SameCalls(Counted) /\ Len(Counted) = Len(frames)
  BY <1>1, CountedSame DEF ScopeInduction
<1>4. 0 \in 0 .. MaxSessions /\ \A kind : kind # "session" => SessionPushed(kind, sessions, 0)
  BY ParserBounds DEF SessionPushed
<1>5. CASE ResultStart
  <2>1. /\ MayCount /\ frames' = [Counted EXCEPT ![Depth].chosen = TRUE]
        /\ Shape(TRUE, TRUE) /\ UNCHANGED <<mode, open, sessions, swallowed>>
    BY <1>5 DEF ResultStart, KeepSessions
  <2>2. /\ SameCalls(Counted) /\ Len(Counted) = Len(frames) /\ Counted \in Seq(Frame)
    BY <1>3, <2>1 DEF SameCalls
  <2> DEFINE f == [Counted[Depth] EXCEPT !.chosen = TRUE]
  <2>3. \A i \in 1 .. Len(frames) : Counted[i] \in Frame
    BY <2>2, ElementOfSeq
  <2>4. /\ f \in Frame /\ f.kind = Counted[Depth].kind /\ f.mark = Counted[Depth].mark
        /\ f.given = Counted[Depth].given /\ f.sid = Counted[Depth].sid
        /\ f.deps = Counted[Depth].deps
    BY <1>2, <2>3 DEF Frame, Depth
  <2>5. frames' = [Counted EXCEPT ![Depth] = f]
    BY <2>1
  <2> HIDE DEF f
  <2>6. /\ frames' \in Seq(Frame) /\ Len(frames') = Len(frames)
        /\ \A i \in 1 .. Len(frames) : frames'[i] = IF i = Len(frames) THEN f ELSE Counted[i]
    BY <1>2, <2>2, <2>4, <2>5, ExceptSeq DEF Depth
  <2>7. SameCalls(frames')
    BY <1>2, <2>2, <2>4, <2>6 DEF SameCalls, Depth
  <2>8. \A i \in 1 .. Len(frames) : frames'[i].deps = Counted[i].deps
    BY <2>4, <2>6 DEF Depth
  <2> QED
    BY <1>1, <2>1, <2>6, <2>7, <2>8, SkippedScopes
<1>6. CASE StrayInSearch
  <2>1. SameCalls(frames') /\ Len(frames') = Len(frames) /\ UNCHANGED <<sessions, swallowed>>
    BY <1>3, <1>6 DEF StrayInSearch, KeepSessions, SameCalls
  <2>2. ~ Regular'
    BY <1>6 DEF StrayInSearch, Shape, Regular
  <2> QED
    BY <1>1, <2>1, <2>2, CoverStays, Irregular DEF Going
<1>7. ASSUME NEW kind \in {"narrow", "join"}, ConditionStart(kind)
      PROVE  Covered' /\ Aligned'
  <2>1. /\ Enter(Counted, kind, Append(open, Elem("other", 0)), sessions, scopes, includes, 0)
        /\ Shape(TRUE, TRUE) /\ UNCHANGED swallowed /\ MayCount
    BY <1>7 DEF ConditionStart, KeepSessions
  <2>2. kind \in Kinds /\ kind # "session" /\ kind \in InnerKinds \ {"session", "case"}
    BY DEF Kinds, InnerKinds
  <2>3. Elem("other", 0) \in Element /\ Matches(Elem("other", 0), kind, 0)
    BY <1>4, <2>2, ElementMatches
  <2>4. Regular' =>
           /\ Regular
           /\ \A i \in 1 .. Len(Counted) : Counted[i].kind \notin DocKinds => Counted[i].deps <= 1
    BY <1>1, <2>1, CountedScopes
  <2> QED
    BY <1>1, <1>3, <1>4, <2>1, <2>2, <2>3, <2>4, AboveScopes
<1>8. CASE BranchTaken
  <2> DEFINE fs == [frames EXCEPT ![Depth].chosen = TRUE]
             f == [Top EXCEPT !.chosen = TRUE]
  <2>1. /\ Enter(fs, "element", Append(open, Elem("other", 0)), sessions, scopes,
                 includes, 0)
        /\ UNCHANGED <<consumed, single, swallowed>>
    BY <1>8 DEF BranchTaken, KeepSessions
  <2>2. f \in Frame /\ fs = [frames EXCEPT ![Depth] = f]
    BY <1>2 DEF Frame, Depth
  <2>3. /\ f.kind = Top.kind /\ f.mark = Top.mark /\ f.given = Top.given
        /\ f.sid = Top.sid /\ f.deps = Top.deps
    BY <1>2 DEF Frame
  <2> HIDE DEF f, fs
  <2>4. SameCalls(fs) /\ Len(fs) = Len(frames)
    BY <1>1, <2>2, <2>3, TopReplaced DEF ScopeInduction
  <2>5. \A i \in 1 .. Len(fs) : fs[i].kind = frames[i].kind /\ fs[i].deps = frames[i].deps
    <3>1. \A i \in 1 .. Len(frames) : fs[i] = IF i = Len(frames) THEN f ELSE frames[i]
      BY <1>2, <2>2, ExceptSeq DEF Depth
    <3> QED
      BY <1>2, <2>3, <2>4, <3>1
  <2>6. "element" \in Kinds /\ "element" \in InnerKinds \ {"session", "case"}
    BY DEF Kinds, InnerKinds
  <2>7. Regular' =>
           /\ Regular
           /\ \A i \in 1 .. Len(fs) : fs[i].kind \notin DocKinds => fs[i].deps <= 1
    BY <1>1, <2>1, <2>4, <2>5 DEF Regular, ScopeInduction, Aligned, AlignedAt, Going
  <2> QED
    BY <1>1, <1>4, <2>1, <2>4, <2>6, <2>7, ElementMatches, AboveScopes
<1>9. CASE CaseEndTag
  <2>1. /\ Top.kind = "case" /\ open[Len(open)].tag # "document" /\ open' = AllButLast(open)
        /\ mode' = IF open[Len(open)].tag = "case" THEN "returning" ELSE mode
        /\ UNCHANGED <<frames, sessions, consumed, single, swallowed>>
    BY <1>9 DEF CaseEndTag, InCase, KeepSessions
  <2>2. Top.kind \notin DocKinds
    BY <2>1 DEF DocKinds
  <2>3. CASE Regular
    <3>1. mode' = "returning"
      BY <1>1, <2>1, <2>3, TopElement DEF Matches
    <3> QED
      BY <1>1, <2>1, <2>2, <3>1, ReturningScopes
  <2>4. CASE ~ Regular
    <3>1. ~ Regular'
      BY <2>1, <2>4 DEF Regular
    <3> QED
      BY <1>1, <1>2, <2>1, <3>1, CoverStays, Irregular DEF Going
  <2> QED
    BY <2>3, <2>4
<1>10. ASSUME NEW tag \in {"other", "case"}, BranchEntered(tag) PROVE Covered' /\ Aligned'
  <2>1. SameCalls(frames') /\ Len(frames') = Len(frames) /\ UNCHANGED <<sessions, swallowed>>
    BY <1>2, <1>10 DEF BranchEntered, KeepSessions, SameCalls
  <2>2. ~ Regular'
    BY <1>10 DEF BranchEntered, Shape, Regular
  <2> QED
    BY <1>1, <2>1, <2>2, CoverStays, Irregular DEF Going
<1> QED
  BY <1>5, <1>6, <1>7, <1>8, <1>9, <1>10 DEF ScanToken

LEMMA ReturnScopes == ASSUME ScopeInduction, Return PROVE Covered' /\ Aligned'
<1>1. mode = "returning"
  BY DEF Return, ReturnPlain, ReturnSession, LoopEnds, LoopAgain, ReturnRe,
     ReturnNarrow, ReturnSearch, ReturnUpdate, UpdateRejected, Returned
<1>2. Top.kind \notin DocKinds => OpenBelow = open
  BY DEF OpenBelow
<1>3. CASE ReturnPlain \/ LoopEnds
  <2>1. /\ Leave /\ UNCHANGED <<sessions, consumed, single, swallowed>>
        /\ Top.kind # "session"
    BY <1>3 DEF ReturnPlain, LoopEnds, Returned, KeepSessions
  <2> QED
    BY <1>1, <2>1, LeaveScopes
<1>4. CASE ReturnSession
  <2>1. /\ Leave /\ UNCHANGED <<consumed, single, swallowed>> /\ Top.kind = "session"
        /\ sessions' = IF sessions = <<>> THEN sessions ELSE AllButLast(sessions)
    BY <1>4 DEF ReturnSession, Returned, SessionsPopped
  <2> QED
    BY <1>1, <2>1, LeaveScopes
<1>5. CASE LoopAgain
  <2>1. /\ Enter(AllButLast(frames), Top.kind, Append(OpenBelow, Buffer), sessions,
                 scopes, includes, 0)
        /\ UNCHANGED <<consumed, single, swallowed>> /\ Top.kind \in {"for", "while"}
    BY <1>5 DEF LoopAgain, Returned, KeepSessions
  <2>2. Top.kind \in DocKinds /\ Top.kind \notin {"top", "session"}
    BY <2>1 DEF DocKinds
  <2> QED
    BY <1>1, <2>1, <2>2, InsteadScopes
<1>6. CASE ReturnRe
  <2>1. /\ Enter(AllButLast(frames), "reout", Append(open, Buffer), sessions,
                 scopes, includes, 0)
        /\ UNCHANGED <<consumed, single, swallowed>> /\ Top.kind = "re"
    BY <1>6 DEF ReturnRe, Returned, KeepSessions
  <2>2. /\ "reout" \in DocKinds /\ Top.kind \notin {"top", "session"}
        /\ OpenBelow = open
    BY <1>2, <2>1 DEF DocKinds
  <2> QED
    BY <1>1, <2>1, <2>2, InsteadScopes
<1>7. CASE ReturnSearch
  <2>1. /\ UNCHANGED <<consumed, single, swallowed>> /\ Top.kind = "search"
        /\ \/ Leave /\ UNCHANGED sessions
           \/ Enter(AllButLast(frames), "result", Append(open, Buffer), sessions,
                    scopes + 1, includes, 0)
    BY <1>7 DEF ReturnSearch, Returned, KeepSessions
  <2>2. /\ "result" \in DocKinds /\ Top.kind \notin {"top", "session"}
        /\ OpenBelow = open
    BY <1>2, <2>1 DEF DocKinds
  <2> QED
    BY <1>1, <2>1, <2>2, InsteadScopes, LeaveScopes
<1>8. CASE ReturnUpdate
  <2>1. /\ UNCHANGED <<consumed, single, swallowed>> /\ Top.kind = "update"
        /\ \/ Leave /\ UNCHANGED sessions
           \/ Enter(AllButLast(frames), "on", Append(open, Buffer), sessions,
                    scopes + 1, includes, 0)
    BY <1>8 DEF ReturnUpdate, Returned
  <2>2. /\ "on" \in DocKinds /\ Top.kind \notin {"top", "session"}
        /\ OpenBelow = open
    BY <1>2, <2>1 DEF DocKinds
  <2> QED
    BY <1>1, <2>1, <2>2, InsteadScopes, LeaveScopes
<1>9. CASE UpdateRejected
  BY <1>9 DEF UpdateRejected, Covered, Aligned, Going
<1>10. CASE ReturnNarrow
  <2>1. /\ Enter(AllButLast(frames), "conditions", Append(open, Buffer), sessions,
                 scopes, includes, 0)
        /\ UNCHANGED <<consumed, single, swallowed>> /\ Top.kind = "narrow"
    BY <1>10 DEF ReturnNarrow, Returned, KeepSessions
  <2>2. /\ "conditions" \in DocKinds /\ Top.kind \notin {"top", "session"}
        /\ OpenBelow = open
    BY <1>2, <2>1 DEF DocKinds
  <2> QED
    BY <1>1, <2>1, <2>2, InsteadScopes
<1> QED
  BY <1>3, <1>4, <1>5, <1>6, <1>7, <1>8, <1>9, <1>10 DEF Return

LEMMA UnwindScopes == ASSUME ScopeInduction, Unwind PROVE Covered' /\ Aligned'
<1>1. swallowed \in Nat
  BY DEF ScopeInduction, StackInduction, TypeOK
<1>2. swallowed' # 0 \/ ~ Going'
  BY <1>1 DEF Unwind, Going
<1> QED
  BY <1>2 DEF Covered, Aligned, Regular

LEMMA InitScopes == Init => ScopeInduction
<1> SUFFICES ASSUME Init PROVE ScopeInduction
  OBVIOUS
<1> DEFINE e == NewFrame("top", <<Buffer>>, <<>>, 1, 0, 0)
<1>1. e.kind = "top" /\ e.mark = 1 /\ e.deps = 0
  BY DEF NewFrame
<1> HIDE DEF e
<1>2. frames = <<e>> /\ Len(frames) = 1 /\ frames[1] = e /\ Top = e
  BY DEF Init, e, Top, Depth
<1>3. open = <<Buffer>> /\ Len(open) = 1 /\ open[1] = Buffer /\ Len(sessions) = 0
  BY EmptySeq DEF Init
<1>4. Matches(Buffer, "top", e.sid)
  BY DEF Matches, Buffer, Elem, DocKinds
<1>5. Ordered /\ Covered
  BY <1>3 DEF Ordered, Covered
<1>6. Aligned
  BY <1>1, <1>2, <1>3, <1>4 DEF Aligned, AlignedAt, StillOpen, DocKinds, Init
<1> QED
  BY <1>5, <1>6, InitInduction DEF ScopeInduction

LEMMA NextScopes == ScopeInduction /\ [Next]_vars => ScopeInduction'
<1> SUFFICES ASSUME ScopeInduction, [Next]_vars PROVE ScopeInduction'
  OBVIOUS
<1>1. StackInduction' /\ Ordered'
  BY NextInduction, OrderedKeeps DEF ScopeInduction
<1>2. CASE UNCHANGED vars
  <2>1. Covered' /\ Aligned'
    BY <1>2 DEF ScopeInduction, Covered, Aligned, AlignedAt, StillOpen, Regular,
       Going, Top, Depth, vars
  <2> QED
    BY <1>1, <2>1 DEF ScopeInduction
<1>3. CASE Next
  <2>1. Covered' /\ Aligned'
    BY <1>2, <1>3, TokenScopes, ScanTokenScopes, ReturnScopes, UnwindScopes
       DEF Next, Ended, ScopeInduction, Covered, Aligned, AlignedAt, StillOpen,
       Regular, Going, Top, Depth, vars
  <2> QED
    BY <1>1, <2>1 DEF ScopeInduction
<1> QED
  BY <1>2, <1>3

\* In a regular document the frames of the calls, the open elements and the
\* sessions are aligned in every reachable state.
THEOREM ScopesInvariant == Spec => []ScopeInduction
  BY InitScopes, NextScopes, PTL DEF Spec

LEMMA ScopesAgree == ScopeInduction => ScopeFollowsDocument
<1> SUFFICES ASSUME ScopeInduction, consumed, single, Clean, mode = "reading"
             PROVE  Top.mark = Len(open) /\ SessionsEnclose
  BY DEF ScopeFollowsDocument
<1>1. Regular /\ Going /\ swallowed = 0
  BY DEF Regular, Going, Clean
<1>2. Top.mark = Len(open) /\ Len(open) = Len(frames) /\ Len(frames) \in Nat
  BY <1>1, TopElement, LenProperties DEF ScopeInduction, StackInduction, TypeOK
<1>3. \A i \in 1 .. Len(frames) : Matches(open[i], frames[i].kind, frames[i].sid)
  BY <1>1, <1>2 DEF ScopeInduction, Aligned, AlignedAt
<1>4. ASSUME NEW p \in 1 .. Len(sessions) PROVE sessions[p] \in Enclosing
  <2>1. PICK i \in 1 .. Len(frames) :
           frames[i].kind = "session" /\ frames[i].given["sessions"] = p
    BY <1>1 DEF ScopeInduction, Covered
  <2>2. sessions[p] = frames[i].sid
    BY <1>1, <2>1 DEF ScopeInduction, StackInduction, Owned
  <2>3. open[i].tag = "session" /\ open[i].sid = frames[i].sid /\ i \in 1 .. Len(open)
    BY <1>2, <1>3, <2>1 DEF Matches
  <2> QED
    BY <2>2, <2>3 DEF Enclosing
<1>5. ASSUME NEW j \in 1 .. Len(open), open[j].tag = "session"
      PROVE  \E p \in 1 .. Len(sessions) : sessions[p] = open[j].sid
  <2>1. j \in 1 .. Len(frames) /\ frames[j].kind = "session" /\ open[j].sid = frames[j].sid
    BY <1>2, <1>3, <1>5 DEF Matches
  <2> QED
    BY <1>1, <2>1 DEF ScopeInduction, StackInduction, Owned
<1>6. {sessions[i] : i \in 1 .. Len(sessions)} = Enclosing
  BY <1>4, <1>5 DEF Enclosing
<1>7. \A i, j \in 1 .. Len(sessions) : i < j => sessions[i] < sessions[j]
  <2> SUFFICES ASSUME NEW i \in 1 .. Len(sessions), NEW j \in 1 .. Len(sessions), i < j
               PROVE  sessions[i] < sessions[j]
    OBVIOUS
  <2>1. i \in 1 .. j - 1
    OBVIOUS
  <2> QED
    BY <2>1 DEF ScopeInduction, Ordered
<1> QED
  BY <1>2, <1>6, <1>7 DEF SessionsEnclose

\* As long as every element is consumed once, has at most one counted child and
\* no error was swallowed, a call reads exactly its own element, and updates and
\* searches see the sessions of the wd:session elements around them.
THEOREM ScopesFollow == Spec => []ScopeFollowsDocument
  BY ScopesInvariant, ScopesAgree, PTL

=============================================================================
