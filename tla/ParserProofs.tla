---------------------------- MODULE ParserProofs ----------------------------
(***************************************************************************)
(* Proofs about Parser: however calls overrun their elements and errors    *)
(* are swallowed, no handler pops what a caller pushed, and without a      *)
(* swallowed error every handler pops exactly what it pushed itself.       *)
(***************************************************************************)
EXTENDS Parser, SequenceTheorems, TLAPS

\* The first k entries of a sequence.
LEMMA PrefixProperties ==
    ASSUME NEW S, NEW s \in Seq(S), NEW k \in 0 .. Len(s)
    PROVE  /\ SubSeq(s, 1, k) \in Seq(S)
           /\ Len(SubSeq(s, 1, k)) = k
           /\ \A i \in 1 .. k : SubSeq(s, 1, k)[i] = s[i]
<1>1. Len(s) \in Nat
  BY LenProperties
<1> QED
  BY <1>1, SMT

\* A sequence without its last entry.
LEMMA FrontProperties ==
    ASSUME NEW S, NEW s \in Seq(S), s # <<>>
    PROVE  /\ AllButLast(s) \in Seq(S)
           /\ Len(s) \in Nat \ {0}
           /\ Len(AllButLast(s)) = Len(s) - 1
           /\ \A i \in 1 .. Len(s) - 1 : AllButLast(s)[i] = s[i]
           /\ s[Len(s)] \in S
<1>1. Len(s) \in Nat \ {0}
  BY LenProperties, EmptySeq
<1>2. Len(s) - 1 \in 0 .. Len(s) /\ Len(s) \in 1 .. Len(s)
  BY <1>1
<1>3. s[Len(s)] \in S
  BY <1>2, ElementOfSeq
<1> QED
  BY <1>1, <1>2, <1>3, PrefixProperties DEF AllButLast

\* A sequence with an entry added.
LEMMA PushProperties ==
    ASSUME NEW S, NEW s \in Seq(S), NEW e \in S
    PROVE  /\ Append(s, e) \in Seq(S)
           /\ Len(Append(s, e)) = Len(s) + 1
           /\ \A i \in 1 .. Len(s) : Append(s, e)[i] = s[i]
           /\ Append(s, e)[Len(s) + 1] = e
  BY AppendProperties

-----------------------------------------------------------------------------
(* Entering a call *)

\* fs holds the active calls, all of them or all but the top one; their
\* counters and choices may have changed.
SameCalls(fs) ==
    /\ fs \in Seq(Frame)
    /\ Len(fs) \in {Len(frames) - 1, Len(frames)}
    /\ \A i \in 1 .. Len(fs) :
          /\ fs[i].kind = frames[i].kind
          /\ fs[i].mark = frames[i].mark
          /\ fs[i].given = frames[i].given
          /\ fs[i].sid = frames[i].sid

\* The stacks given to a call of this kind made above fs are at least as high
\* as what its caller was given and what was pushed for it, and no higher
\* unless an error was swallowed.
Fit(fs, kind, ss, sc, inc) ==
    \A k \in Stacks :
       LET below == fs[Len(fs)].given[k] + Pushed(kind, k)
           now == Heights(ss, sc, inc)[k] IN
       below <= now /\ (swallowed = 0 => below = now)

\* The elements that are open when it is made.
MarksIn(fs, kind, elements) ==
    /\ elements \in Seq(Element) /\ elements # <<>>
    /\ kind \in DocKinds => elements[Len(elements)].tag = "document"
    /\ \A i \in 1 .. Len(fs) : fs[i].kind \in DocKinds =>
          /\ fs[i].mark <= Len(elements)
          /\ elements[fs[i].mark].tag = "document"
          /\ kind \in DocKinds => fs[i].mark < Len(elements)

\* A session is pushed for a wd:session and for nothing else.
SessionPushed(kind, ss, sid) ==
    \/ kind # "session" /\ ss = sessions /\ sid = 0
    \/ kind = "session" /\ sid \in 1 .. MaxSessions /\ ss = Append(sessions, sid)

\* The rest of the type invariant, which a call does not disturb.
OthersTyped ==
    /\ opened \in 0 .. MaxSessions
    /\ session \in [1 .. MaxSessions -> Session]
    /\ consumed \in BOOLEAN
    /\ single \in BOOLEAN
    /\ swallowed \in Nat

\* What lower calls were given is at most what higher ones were given.
LEMMA GivenGrows ==
    ASSUME StackInduction, NEW i \in 1 .. Len(frames), NEW j \in 1 .. Len(frames),
           i <= j, NEW k \in Stacks
    PROVE  /\ frames[i].given[k] \in Nat /\ frames[j].given[k] \in Nat
           /\ frames[i].given[k] <= frames[j].given[k]
           /\ i < j => frames[i].given[k] + Pushed(frames[j].kind, k)
                          <= frames[j].given[k]
<1>1. frames[i] \in Frame /\ frames[j] \in Frame
  BY ElementOfSeq DEF StackInduction, TypeOK
<1>2. frames[i].given[k] \in Nat /\ frames[j].given[k] \in Nat
  BY <1>1 DEF Frame
<1>3. i < j => frames[i].given[k] + Pushed(frames[j].kind, k) <= frames[j].given[k]
  BY DEF StackInduction, Stacked
<1> QED
  BY <1>2, <1>3, LenProperties DEF Pushed

\* A call made with what its caller was given, and what was pushed for it,
\* keeps the induction.
LEMMA EnterKeeps ==
    ASSUME StackInduction, mode \in {"reading", "returning"},
           NEW fs, SameCalls(fs), Len(fs) > 0,
           NEW kind \in Kinds \ {"top"}, NEW elements,
           NEW ss, NEW sc \in Nat, NEW inc \in Nat, NEW sid,
           Enter(fs, kind, elements, ss, sc, inc, sid),
           Fit(fs, kind, ss, sc, inc), MarksIn(fs, kind, elements),
           SessionPushed(kind, ss, sid),
           OthersTyped', UNCHANGED swallowed
    PROVE  StackInduction'
<1> DEFINE n == Len(fs)
           e == NewFrame(kind, elements, ss, sc, inc, sid)
<1>1. n \in Nat \ {0} /\ n < MaxFrames /\ MaxFrames \in Nat
  BY LenProperties, ParserBounds DEF SameCalls, Enter
<1>2. /\ sessions \in Seq(1 .. MaxSessions) /\ Len(sessions) \in Nat
      /\ ss \in Seq(1 .. MaxSessions) /\ Len(ss) \in Nat
  <2>1. sessions \in Seq(1 .. MaxSessions)
    BY DEF StackInduction, TypeOK
  <2>2. CASE kind = "session" /\ sid \in 1 .. MaxSessions /\ ss = Append(sessions, sid)
    <3>1. Append(sessions, sid) \in Seq(1 .. MaxSessions)
      BY <2>1, <2>2, PushProperties
    <3> QED
      BY <2>2, <3>1
  <2>3. ss \in Seq(1 .. MaxSessions)
    BY <2>1, <2>2 DEF SessionPushed
  <2>4. Len(sessions) \in Nat
    BY <2>1, LenProperties
  <2>5. Len(ss) \in Nat
    BY <2>3, LenProperties
  <2> QED
    BY <2>1, <2>3, <2>4, <2>5
<1>3. Len(elements) \in Nat \ {0}
  BY LenProperties, EmptySeq DEF MarksIn
<1>h. /\ Heights(ss, sc, inc) \in [Stacks -> Nat]
      /\ Heights(ss, sc, inc)["sessions"] = Len(ss)
      /\ Heights(ss, sc, inc)["scopes"] = sc
  <2> Len(ss) \in Nat
    BY <1>2
  <2> QED
    BY DEF Heights, Stacks
<1>4. e \in Frame
  <2>1. sid \in 0 .. MaxSessions /\ 0 \in 0 .. MaxDeps
    BY ParserBounds DEF SessionPushed
  <2> QED
    BY <1>3, <1>h, <2>1 DEF NewFrame, Frame
<1>5. /\ frames' \in Seq(Frame)
      /\ Len(frames') = n + 1
      /\ \A i \in 1 .. n : frames'[i] = fs[i]
      /\ frames'[n + 1] = e
  BY <1>4, PushProperties DEF Enter, SameCalls
<1>6. /\ e.kind = kind /\ e.mark = Len(elements) /\ e.sid = sid
      /\ e.given = Heights(ss, sc, inc)
  BY DEF NewFrame
<1>7. /\ Len(frames) \in Nat
      /\ \A i \in 1 .. n : i \in 1 .. Len(frames)
      /\ n \in 1 .. n
  BY <1>1, LenProperties DEF SameCalls, StackInduction, TypeOK
<1>8. \A i \in 1 .. n : /\ frames'[i].kind = frames[i].kind
                         /\ frames'[i].mark = frames[i].mark
                         /\ frames'[i].given = frames[i].given
                         /\ frames'[i].sid = frames[i].sid
  BY <1>5 DEF SameCalls
<1>9. \A k \in Stacks :
         /\ frames[n].given[k] + Pushed(kind, k) <= e.given[k]
         /\ swallowed = 0 => e.given[k] = frames[n].given[k] + Pushed(kind, k)
  BY <1>6, <1>7 DEF Fit, SameCalls
<1>10. \A k \in Stacks : frames[n].given[k] \in Nat /\ e.given[k] \in Nat
  <2> TAKE k \in Stacks
  <2>1. n \in 1 .. Len(frames) /\ n <= n
    BY <1>1, <1>7
  <2>2. frames[n].given[k] \in Nat
    BY <2>1, GivenGrows
  <2> QED
    BY <1>6, <1>h, <2>2
<1> HIDE DEF e
<1>a. TypeOK'
  BY <1>1, <1>2, <1>5 DEF TypeOK, Enter, MarksIn, OthersTyped, Modes
<1>b. RunEnds'
  BY <1>1, <1>5, EmptySeq DEF RunEnds, Enter
<1>c. OneTop'
  <2> SUFFICES ASSUME NEW i \in 1 .. n + 1
               PROVE  /\ frames'[i].kind = "top" <=> i = 1
                      /\ i = 1 => frames'[i].given = Heights(<<>>, 1, 0)
    BY <1>5 DEF OneTop
  <2>1. CASE i \in 1 .. n
    BY <1>7, <1>8, <2>1 DEF OneTop, StackInduction
  <2>2. CASE i = n + 1
    BY <1>1, <1>5, <1>6, <2>2
  <2> QED
    BY <1>1, <2>1, <2>2
<1>d. Marked'
  <2> SUFFICES ASSUME NEW i \in 1 .. n + 1, frames'[i].kind \in DocKinds
               PROVE  /\ frames'[i].mark <= Len(elements)
                      /\ elements[frames'[i].mark].tag = "document"
                      /\ \A j \in 1 .. i - 1 : frames'[j].kind \in DocKinds =>
                            frames'[j].mark < frames'[i].mark
    BY <1>5 DEF Marked, Enter
  <2>1. CASE i \in 1 .. n
    <3>1. \A j \in 1 .. i - 1 : j \in 1 .. n
      BY <1>1, <2>1
    <3>2. fs[i].kind = frames[i].kind /\ fs[i].mark = frames[i].mark
      BY <2>1 DEF SameCalls
    <3>3. /\ frames[i].mark <= Len(elements)
          /\ elements[frames[i].mark].tag = "document"
      BY <1>8, <2>1, <3>2 DEF MarksIn
    <3>4. \A j \in 1 .. i - 1 :
             frames[j].kind \in DocKinds => frames[j].mark < frames[i].mark
      BY <1>7, <1>8, <2>1 DEF Marked, StackInduction
    <3>5. \A j \in 1 .. i - 1 : /\ frames'[j].kind = frames[j].kind
                                /\ frames'[j].mark = frames[j].mark
      BY <1>8, <3>1
    <3> QED
      BY <1>8, <2>1, <3>3, <3>4, <3>5
  <2>2. CASE i = n + 1
    <3>1. frames'[i].kind = kind /\ frames'[i].mark = Len(elements)
      BY <1>5, <1>6, <2>2
    <3>2. \A j \in 1 .. i - 1 : j \in 1 .. n
      BY <1>1, <2>2
    <3> QED
      BY <1>3, <1>5, <3>1, <3>2 DEF MarksIn
  <2> QED
    BY <1>1, <2>1, <2>2
<1>e. Stacked'
  <2> SUFFICES ASSUME NEW i \in 1 .. n + 1, NEW j \in 1 .. n + 1, i < j,
                      NEW k \in Stacks
               PROVE  frames'[i].given[k] + Pushed(frames'[j].kind, k)
                        <= frames'[j].given[k]
    BY <1>5 DEF Stacked
  <2>1. i \in 1 .. n
    BY <1>1
  <2>2. CASE j \in 1 .. n
    <3>1. i \in 1 .. Len(frames) /\ j \in 1 .. Len(frames) /\ i <= j
      BY <1>1, <1>7, <2>1, <2>2
    <3>2. frames[i].given[k] + Pushed(frames[j].kind, k) <= frames[j].given[k]
      BY <3>1, GivenGrows
    <3>3. /\ frames'[i].given = frames[i].given
          /\ frames'[j].given = frames[j].given /\ frames'[j].kind = frames[j].kind
      BY <1>8, <2>1, <2>2
    <3> QED
      BY <3>2, <3>3
  <2>3. CASE j = n + 1
    <3>1. frames[i].given[k] \in Nat /\ frames[i].given[k] <= frames[n].given[k]
      BY <1>7, <2>1, GivenGrows
    <3>2. frames'[j].kind = kind /\ frames'[j].given[k] = e.given[k]
      BY <1>5, <1>6, <2>3
    <3>3. frames'[i].given = frames[i].given
      BY <1>8, <2>1
    <3>4. /\ frames[n].given[k] \in Nat /\ e.given[k] \in Nat
          /\ frames[n].given[k] + Pushed(kind, k) <= e.given[k]
      BY <1>9, <1>10
    <3>5. Pushed(kind, k) \in {0, 1}
      BY DEF Pushed
    <3>6. frames[i].given[k] + Pushed(kind, k) <= e.given[k]
      <4> HIDE DEF e, n
      <4> QED
        BY <3>1, <3>4, <3>5
    <3> QED
      BY <3>2, <3>3, <3>6
  <2> QED
    BY <1>1, <2>2, <2>3
<1>f. Tight'
  <2> SUFFICES ASSUME swallowed = 0, NEW i \in 2 .. n + 1, NEW k \in Stacks
               PROVE  frames'[i].given[k] = frames'[i - 1].given[k]
                                             + Pushed(frames'[i].kind, k)
    BY <1>5 DEF Tight
  <2>1. CASE i \in 1 .. n
    <3>1. i - 1 \in 1 .. n /\ i \in 2 .. Len(frames)
      BY <1>1, <1>7, <2>1
    <3> QED
      BY <1>8, <2>1, <3>1 DEF Tight, StackInduction
  <2>2. CASE i = n + 1
    <3>1. i - 1 = n
      BY <1>1, <2>2
    <3>2. frames'[i].kind = kind /\ frames'[i].given[k] = e.given[k]
      BY <1>5, <1>6, <2>2
    <3> QED
      BY <1>7, <1>8, <1>9, <3>1, <3>2
  <2> QED
    BY <1>1, <2>1, <2>2
<1>g. /\ Len(ss) >= Len(sessions)
      /\ \A i \in 1 .. Len(sessions) : ss[i] = sessions[i]
      /\ kind = "session" => Len(ss) = Len(sessions) + 1 /\ ss[Len(ss)] = sid
  <2>1. CASE ss = sessions /\ kind # "session"
    BY <1>2, <2>1
  <2>2. CASE kind = "session" /\ sid \in 1 .. MaxSessions /\ ss = Append(sessions, sid)
    BY <1>2, <2>2, PushProperties
  <2> QED
    BY <2>1, <2>2 DEF SessionPushed
<1>i. Owned'
  <2> SUFFICES ASSUME swallowed = 0, NEW i \in 1 .. n + 1,
                      frames'[i].kind = "session"
               PROVE  /\ frames'[i].given["sessions"] \in 1 .. Len(ss)
                      /\ ss[frames'[i].given["sessions"]] = frames'[i].sid
    BY <1>5 DEF Owned, Enter
  <2>1. CASE i \in 1 .. n
    <3>1. /\ frames[i].given["sessions"] \in 1 .. Len(sessions)
          /\ sessions[frames[i].given["sessions"]] = frames[i].sid
      BY <1>7, <1>8, <2>1 DEF Owned, StackInduction
    <3> DEFINE g == frames[i].given["sessions"]
    <3>2. ss[g] = sessions[g]
      BY <1>g, <3>1
    <3>3. g \in 1 .. Len(ss)
      BY <1>2, <1>g, <3>1
    <3>4. frames'[i].given["sessions"] = g /\ frames'[i].sid = frames[i].sid
      BY <1>8, <2>1
    <3>5. ss[g] = frames[i].sid
      BY <3>1, <3>2
    <3> HIDE DEF g
    <3> QED
      BY <3>3, <3>4, <3>5
  <2>2. CASE i = n + 1
    BY <1>2, <1>5, <1>6, <1>g, <1>h, <2>2
  <2> QED
    BY <1>1, <2>1, <2>2
<1>j. frames' # <<>> /\ Top' = e
  BY <1>1, <1>5, EmptySeq DEF Top, Depth
<1>k. sc >= 1
  <2>1. 1 \in 1 .. Len(frames) /\ n \in 1 .. Len(frames) /\ 1 <= n /\ "scopes" \in Stacks
    BY <1>1, <1>7 DEF Stacks
  <2>2. frames[1].given["scopes"] = 1
    BY <2>1 DEF OneTop, StackInduction, Heights
  <2>3. frames[n].given["scopes"] \in Nat /\ 1 <= frames[n].given["scopes"]
    BY <2>1, <2>2, GivenGrows
  <2> QED
    BY <1>6, <1>9, <1>h, <2>1, <2>3 DEF Pushed
<1>l. Heights(sessions, scopes, includes)' = e.given
  BY <1>6 DEF Enter, Heights
<1>m. NoUnderflow'
  BY <1>10, <1>j, <1>k, <1>l DEF NoUnderflow, Enter
<1>n. Balanced'
  BY <1>2, <1>6, <1>g, <1>j, <1>l DEF Balanced, Enter, Innermost
<1> QED
  BY <1>a, <1>b, <1>c, <1>d, <1>e, <1>f, <1>i, <1>m, <1>n DEF StackInduction

-----------------------------------------------------------------------------
(* Leaving a call, and steps within one *)

\* The elements that are open still hold the buffers of the n lowest calls.
MarksKept(n, elements) ==
    /\ elements \in Seq(Element)
    /\ \A i \in 1 .. n : frames[i].kind \in DocKinds =>
          /\ frames[i].mark <= Len(elements)
          /\ elements[frames[i].mark].tag = "document"

\* At most the last session was taken off the stack.
SessionPopped ==
    /\ sessions' \in Seq(1 .. MaxSessions)
    /\ Len(sessions') <= Len(sessions)
    /\ \A i \in 1 .. Len(sessions') : sessions'[i] = sessions[i]

\* A call that is left with at most what was pushed for it gone from the stacks,
\* and exactly that unless an error is passing or was swallowed, keeps the
\* induction.
LEMMA PopKeeps ==
    ASSUME StackInduction, frames # <<>>,
           frames' = AllButLast(frames),
           MarksKept(Len(frames) - 1, open'),
           SessionPopped, scopes' \in Nat, includes' \in Nat,
           \A k \in Stacks :
              /\ Top.given[k] <= Heights(sessions, scopes, includes)'[k]
                                   + Pushed(Top.kind, k)
              /\ Clean' /\ mode' # "failed" =>
                    Top.given[k] = Heights(sessions, scopes, includes)'[k]
                                     + Pushed(Top.kind, k),
           mode' \in Modes, mode' \in {"done", "failed"} <=> Len(frames) = 1,
           OthersTyped', swallowed' = 0 => swallowed = 0
    PROVE  StackInduction'
<1> DEFINE n == Len(frames) - 1
           H == Heights(sessions, scopes, includes)'
<1>1. /\ frames \in Seq(Frame) /\ n \in Nat /\ Len(frames) = n + 1
      /\ n + 1 <= MaxFrames /\ MaxFrames \in Nat
  BY FrontProperties, ParserBounds DEF StackInduction, TypeOK
<1>2. /\ frames' \in Seq(Frame) /\ Len(frames') = n
      /\ \A i \in 1 .. n : frames'[i] = frames[i]
  BY <1>1, FrontProperties
<1>3. Top = frames[n + 1]
  BY <1>1 DEF Top, Depth
<1>4. \A i \in 1 .. n : i \in 1 .. Len(frames) /\ i < n + 1
  BY <1>1
<1>5. Len(sessions') \in Nat /\ Len(sessions) \in Nat
  BY LenProperties DEF SessionPopped, StackInduction, TypeOK
<1>6. \A k \in Stacks : H[k] \in Nat
  BY <1>5 DEF Heights, Stacks
<1>7. /\ H["sessions"] = Len(sessions') /\ H["scopes"] = scopes'
      /\ H["includes"] = includes' /\ H = [k \in Stacks |-> H[k]]
  BY DEF Heights, Stacks
<1> HIDE DEF H
<1>8. \A i \in 1 .. n : \A k \in Stacks :
         frames[i].given[k] \in Nat /\ frames[i].given[k] <= H[k]
  <2> TAKE i \in 1 .. n
  <2> TAKE k \in Stacks
  <2>1. n + 1 \in 1 .. Len(frames)
    BY <1>1
  <2>2. /\ frames[i].given[k] \in Nat /\ Top.given[k] \in Nat
        /\ frames[i].given[k] + Pushed(Top.kind, k) <= Top.given[k]
    <3>1. i \in 1 .. Len(frames) /\ i < n + 1 /\ i <= n + 1
      BY <1>1, <1>4
    <3>2. /\ frames[i].given[k] \in Nat /\ frames[n + 1].given[k] \in Nat
          /\ frames[i].given[k] + Pushed(frames[n + 1].kind, k) <= frames[n + 1].given[k]
      BY <2>1, <3>1, GivenGrows
    <3> QED
      BY <1>3, <3>2
  <2>3. Top.given[k] <= H[k] + Pushed(Top.kind, k)
    BY DEF H
  <2> QED
    BY <1>6, <2>2, <2>3 DEF Pushed
<1>9. \A k \in Stacks : swallowed = 0 /\ n > 0 =>
         Top.given[k] = frames[n].given[k] + Pushed(Top.kind, k)
  <2>1. n > 0 => n + 1 \in 2 .. Len(frames) /\ n + 1 - 1 = n
    BY <1>1
  <2> QED
    BY <1>3, <2>1 DEF Tight, StackInduction
<1>a. TypeOK'
  BY <1>1, <1>2 DEF TypeOK, OthersTyped, MarksKept, SessionPopped
<1>b. RunEnds'
  BY <1>1, <1>2, EmptySeq, LenProperties DEF RunEnds
<1>c. OneTop'
  BY <1>2, <1>4 DEF OneTop, StackInduction
<1>d. Marked'
  <2> SUFFICES ASSUME NEW i \in 1 .. n, frames'[i].kind \in DocKinds
               PROVE  /\ frames'[i].mark <= Len(open')
                      /\ open'[frames'[i].mark].tag = "document"
                      /\ \A j \in 1 .. i - 1 : frames'[j].kind \in DocKinds =>
                            frames'[j].mark < frames'[i].mark
    BY <1>2 DEF Marked
  <2>1. \A j \in 1 .. i - 1 : j \in 1 .. n
    BY <1>1
  <2> QED
    BY <1>2, <1>4, <2>1 DEF MarksKept, Marked, StackInduction
<1>e. Stacked'
  <2> SUFFICES ASSUME NEW i \in 1 .. n, NEW j \in 1 .. n, i < j, NEW k \in Stacks
               PROVE  frames'[i].given[k] + Pushed(frames'[j].kind, k)
                        <= frames'[j].given[k]
    BY <1>2 DEF Stacked
  <2> QED
    BY <1>2, <1>4 DEF Stacked, StackInduction
<1>f. Tight'
  <2> SUFFICES ASSUME swallowed = 0, NEW i \in 2 .. n, NEW k \in Stacks
               PROVE  frames'[i].given[k] = frames'[i - 1].given[k]
                                             + Pushed(frames'[i].kind, k)
    BY <1>2 DEF Tight
  <2>1. i \in 1 .. n /\ i - 1 \in 1 .. n /\ i \in 2 .. Len(frames)
    BY <1>1
  <2> QED
    BY <1>2, <2>1 DEF Tight, StackInduction
<1>g. Owned'
  <2> SUFFICES ASSUME swallowed = 0, NEW i \in 1 .. n, frames'[i].kind = "session"
               PROVE  /\ frames'[i].given["sessions"] \in 1 .. Len(sessions')
                      /\ sessions'[frames'[i].given["sessions"]] = frames'[i].sid
    BY <1>2 DEF Owned
  <2>1. /\ frames[i].given["sessions"] \in 1 .. Len(sessions)
        /\ sessions[frames[i].given["sessions"]] = frames[i].sid
    BY <1>2, <1>4 DEF Owned, StackInduction
  <2>2. frames[i].given["sessions"] <= Len(sessions')
    BY <1>7, <1>8 DEF Stacks
  <2>3. frames[i].given["sessions"] \in 1 .. Len(sessions')
    BY <1>5, <2>1, <2>2
  <2>4. sessions'[frames[i].given["sessions"]] = frames[i].sid
    BY <2>1, <2>3 DEF SessionPopped
  <2> QED
    BY <1>2, <2>3, <2>4
<1>10. CASE n = 0
  <2>1. /\ frames' = <<>> /\ Len(frames) = 1 /\ 1 \in 1 .. Len(frames)
    BY <1>1, <1>2, <1>10, EmptySeq
  <2>2. Top.kind = "top" /\ Top.given = Heights(<<>>, 1, 0)
    BY <1>3, <1>10, <2>1 DEF OneTop, StackInduction
  <2>3. \A k \in Stacks : Pushed(Top.kind, k) = 0
    BY <2>2 DEF Pushed, ScopeKinds
  <2>4. Top.given["scopes"] = 1 /\ Top.given["sessions"] = 0 /\ Top.given["includes"] = 0
    BY <2>2, EmptySeq DEF Heights, Stacks
  <2>5. \A k \in Stacks : Top.given[k] <= H[k]
    BY <1>6, <2>3 DEF H
  <2>6. scopes' >= 1
    BY <1>7, <2>4, <2>5 DEF Stacks
  <2>7. ASSUME Clean', mode' # "failed"
        PROVE  Len(sessions') = 0 /\ scopes' = 1 /\ includes' = 0
    <3>1. \A k \in Stacks : Top.given[k] = H[k]
      BY <1>6, <2>3, <2>7 DEF H
    <3> QED
      BY <1>7, <2>4, <3>1 DEF Stacks
  <2>8. NoUnderflow' /\ Balanced'
    BY <2>1, <2>6, <2>7, EmptySeq DEF NoUnderflow, Balanced, SessionPopped
  <2> QED
    BY <1>a, <1>b, <1>c, <1>d, <1>e, <1>f, <1>g, <2>8 DEF StackInduction
<1>11. CASE n > 0
  <2>1. n \in 1 .. n /\ 1 \in 1 .. n /\ n \in 1 .. Len(frames) /\ 1 \in 1 .. Len(frames)
    BY <1>1, <1>11
  <2>2. frames' # <<>> /\ Top' = frames[n]
    BY <1>2, <1>11, <2>1, EmptySeq DEF Top, Depth
  <2>3. frames[1].given["scopes"] = 1
    BY <2>1 DEF OneTop, StackInduction, Heights, Stacks
  <2>4. scopes' >= 1
    BY <1>7, <1>8, <2>1, <2>3 DEF Stacks
  <2>5. NoUnderflow'
    BY <1>6, <1>8, <2>1, <2>2, <2>4 DEF NoUnderflow, H
  <2>6. Balanced'
    <3> SUFFICES ASSUME Clean'
                 PROVE  /\ H = Top'.given
                        /\ Top'.kind = "session" => sessions'[Len(sessions')] = Top'.sid
      BY <2>2 DEF Balanced, Innermost, H
    <3>1. swallowed = 0 /\ swallowed' = 0 /\ mode' # "failed"
      BY <1>1, <1>11 DEF Clean
    <3>2. \A k \in Stacks : H[k] = frames[n].given[k]
      <4> TAKE k \in Stacks
      <4>1. Top.given[k] = H[k] + Pushed(Top.kind, k)
        BY <3>1 DEF H
      <4>2. H[k] \in Nat /\ frames[n].given[k] \in Nat
        BY <1>6, <1>8, <2>1
      <4> QED
        BY <1>9, <1>11, <3>1, <4>1, <4>2 DEF Pushed
    <3>3. frames[n] \in Frame
      BY <1>1, <2>1, ElementOfSeq
    <3>4. H = frames[n].given
      BY <1>7, <3>2, <3>3 DEF Frame
    <3>5. frames[n].kind = "session" => sessions'[Len(sessions')] = frames[n].sid
      <4>1. frames'[n] = frames[n] /\ frames[n].given["sessions"] = Len(sessions')
        BY <1>2, <1>7, <2>1, <3>2 DEF Stacks
      <4> QED
        BY <1>2, <1>g, <2>1, <3>1, <4>1 DEF Owned
    <3> QED
      BY <2>2, <3>4, <3>5
  <2> QED
    BY <1>a, <1>b, <1>c, <1>d, <1>e, <1>f, <1>g, <2>5, <2>6 DEF StackInduction
<1> QED
  BY <1>1, <1>10, <1>11

\* A step that makes and leaves no call keeps the induction if it leaves the
\* stacks alone and closes no buffer.
LEMMA StayKeeps ==
    ASSUME StackInduction, frames # <<>>,
           SameCalls(frames'), Len(frames') = Len(frames),
           MarksKept(Len(frames), open'),
           UNCHANGED <<sessions, scopes, includes, swallowed>>,
           mode' \in {"reading", "returning", "raising"}, mode # "raising",
           OthersTyped'
    PROVE  StackInduction'
<1> DEFINE n == Len(frames)
<1>1. /\ frames \in Seq(Frame) /\ n \in Nat \ {0}
      /\ n <= MaxFrames /\ MaxFrames \in Nat
  BY FrontProperties, ParserBounds DEF StackInduction, TypeOK
<1>2. /\ frames' \in Seq(Frame)
      /\ Len(frames') = n
      /\ \A i \in 1 .. n : /\ frames'[i].kind = frames[i].kind
                           /\ frames'[i].mark = frames[i].mark
                           /\ frames'[i].given = frames[i].given
                           /\ frames'[i].sid = frames[i].sid
  BY DEF SameCalls
<1>3. frames' # <<>> /\ n \in 1 .. n
  BY <1>1, <1>2, EmptySeq
<1>4. /\ Top'.kind = Top.kind /\ Top'.given = Top.given /\ Top'.sid = Top.sid
  BY <1>2, <1>3 DEF Top, Depth
<1>a. TypeOK'
  BY <1>1, <1>2 DEF TypeOK, StackInduction, OthersTyped, MarksKept, Modes
<1>b. RunEnds'
  BY <1>3 DEF RunEnds
<1>c. OneTop'
  BY <1>2 DEF OneTop, StackInduction
<1>d. Marked'
  <2> SUFFICES ASSUME NEW i \in 1 .. n, frames'[i].kind \in DocKinds
               PROVE  /\ frames'[i].mark <= Len(open')
                      /\ open'[frames'[i].mark].tag = "document"
                      /\ \A j \in 1 .. i - 1 : frames'[j].kind \in DocKinds =>
                            frames'[j].mark < frames'[i].mark
    BY <1>2 DEF Marked
  <2>1. \A j \in 1 .. i - 1 : j \in 1 .. n
    BY <1>1
  <2> QED
    BY <1>2, <2>1 DEF MarksKept, Marked, StackInduction
<1>e. Stacked'
  <2> SUFFICES ASSUME NEW i \in 1 .. n, NEW j \in 1 .. n, i < j, NEW k \in Stacks
               PROVE  frames'[i].given[k] + Pushed(frames'[j].kind, k)
                        <= frames'[j].given[k]
    BY <1>2 DEF Stacked
  <2> QED
    BY <1>2 DEF Stacked, StackInduction
<1>f. Tight'
  <2> SUFFICES ASSUME swallowed = 0, NEW i \in 2 .. n, NEW k \in Stacks
               PROVE  frames'[i].given[k] = frames'[i - 1].given[k]
                                             + Pushed(frames'[i].kind, k)
    BY <1>2 DEF Tight
  <2>1. i \in 1 .. n /\ i - 1 \in 1 .. n
    BY <1>1
  <2> QED
    BY <1>2, <2>1 DEF Tight, StackInduction
<1>g. Owned'
  BY <1>2 DEF Owned, StackInduction
<1>h. NoUnderflow'
  BY <1>3, <1>4 DEF NoUnderflow, StackInduction, Heights
<1>i. Balanced'
  BY <1>3, <1>4 DEF Balanced, StackInduction, Heights, Innermost, Clean
<1> QED
  BY <1>a, <1>b, <1>c, <1>d, <1>e, <1>f, <1>g, <1>h, <1>i DEF StackInduction

-----------------------------------------------------------------------------
(* What every step of a running interpreter starts from *)

LEMMA Running ==
    ASSUME StackInduction, mode \in {"reading", "returning", "raising"}
    PROVE  /\ frames # <<>> /\ frames \in Seq(Frame)
           /\ Len(frames) \in Nat \ {0} /\ Len(frames) \in 1 .. Len(frames)
           /\ Top = frames[Len(frames)] /\ Top \in Frame
           /\ SameCalls(frames)
           /\ MarksKept(Len(frames), open) /\ OthersTyped
<1>1. frames # <<>> /\ frames \in Seq(Frame)
  BY DEF StackInduction, RunEnds, TypeOK
<1>2. Len(frames) \in Nat \ {0} /\ Len(frames) \in 1 .. Len(frames)
  BY <1>1, FrontProperties
<1>3. Top = frames[Len(frames)] /\ Top \in Frame
  BY <1>1, FrontProperties DEF Top, Depth
<1>4. MarksKept(Len(frames), open)
  BY DEF MarksKept, StackInduction, TypeOK, Marked
<1> QED
  BY <1>1, <1>2, <1>3, <1>4 DEF SameCalls, OthersTyped, StackInduction, TypeOK

\* The top call's counter or choice may change.
LEMMA TopReplaced ==
    ASSUME StackInduction, mode \in {"reading", "returning", "raising"},
           NEW f \in Frame, f.kind = Top.kind, f.mark = Top.mark,
           f.given = Top.given, f.sid = Top.sid
    PROVE  /\ SameCalls([frames EXCEPT ![Depth] = f])
           /\ Len([frames EXCEPT ![Depth] = f]) = Len(frames)
<1>1. /\ frames \in Seq(Frame) /\ Len(frames) \in 1 .. Len(frames)
      /\ Top = frames[Len(frames)]
  BY Running
<1> DEFINE fs == [frames EXCEPT ![Depth] = f]
<1>2. /\ fs \in Seq(Frame) /\ Len(fs) = Len(frames)
      /\ \A i \in 1 .. Len(frames) :
            fs[i] = IF i = Len(frames) THEN f ELSE frames[i]
  BY <1>1, ExceptSeq DEF Depth
<1> HIDE DEF fs
<1>3. SameCalls(fs) /\ Len(fs) = Len(frames)
  BY <1>1, <1>2 DEF SameCalls
<1> QED
  BY <1>3 DEF fs

LEMMA CountedSame ==
    ASSUME StackInduction, mode \in {"reading", "returning", "raising"}, MayCount
    PROVE  SameCalls(Counted) /\ Len(Counted) = Len(frames)
<1> DEFINE f == [Top EXCEPT !.deps = @ + 1]
<1>1. Top = frames[Depth] /\ Top \in Frame
  BY Running DEF Depth
<1>2. f \in Frame
  <2>1. Top.deps \in 0 .. MaxDeps /\ Top.deps < MaxDeps /\ MaxDeps \in Nat
    BY <1>1, ParserBounds DEF Frame, MayCount
  <2>2. Top.deps + 1 \in 0 .. MaxDeps
    BY <2>1
  <2> QED
    BY <1>1, <2>2 DEF Frame
<1>3. Counted = [frames EXCEPT ![Depth] = f]
  BY <1>1 DEF Counted
<1>4. /\ f.kind = Top.kind /\ f.mark = Top.mark /\ f.given = Top.given
      /\ f.sid = Top.sid
  BY <1>1 DEF Frame
<1> HIDE DEF f
<1> QED
  BY <1>2, <1>3, <1>4, TopReplaced

\* A call made above all the others, with what was pushed for it.
LEMMA FitAbove ==
    ASSUME StackInduction, mode \in {"reading", "returning"},
           NEW fs, SameCalls(fs), Len(fs) = Len(frames), NEW kind,
           NEW ss, NEW sc, NEW inc,
           \A k \in Stacks : Heights(ss, sc, inc)[k] =
              Heights(sessions, scopes, includes)[k] + Pushed(kind, k)
    PROVE  Fit(fs, kind, ss, sc, inc)
<1> DEFINE n == Len(frames)
           H == Heights(sessions, scopes, includes)
<1>1. /\ n \in 1 .. n /\ Top = frames[n] /\ Top \in Frame /\ frames # <<>>
  BY Running
<1>2. fs[Len(fs)].given = Top.given
  BY <1>1 DEF SameCalls
<1>3. Len(sessions) \in Nat /\ scopes \in Nat /\ includes \in Nat
  BY LenProperties DEF StackInduction, TypeOK
<1>4. \A k \in Stacks : H[k] \in Nat /\ Top.given[k] \in Nat
  BY <1>1, <1>3 DEF Heights, Stacks, Frame
<1>5. \A k \in Stacks : Top.given[k] <= H[k] /\ (swallowed = 0 => Top.given[k] = H[k])
  BY <1>1 DEF StackInduction, NoUnderflow, Balanced, Clean
<1> HIDE DEF H
<1>6. SUFFICES ASSUME NEW k \in Stacks
               PROVE  /\ Top.given[k] + Pushed(kind, k) <= Heights(ss, sc, inc)[k]
                      /\ swallowed = 0 =>
                            Top.given[k] + Pushed(kind, k) = Heights(ss, sc, inc)[k]
  BY <1>2 DEF Fit
<1>7. Heights(ss, sc, inc)[k] = H[k] + Pushed(kind, k)
  BY DEF H
<1> QED
  BY <1>4, <1>5, <1>7 DEF Pushed

\* One push instead of another on the same height.
LEMMA Exchanged ==
    ASSUME NEW below \in Nat, NEW top \in Nat, NEW now \in Nat, NEW then \in Nat,
           NEW p \in {0, 1}, NEW q \in {0, 1},
           then + p = now + q, top <= now, below + p <= top
    PROVE  /\ below + q <= then
           /\ (top = now /\ top = below + p) => below + q = then
  OBVIOUS

\* A call made in place of the top one, whose pushes are gone.
LEMMA FitInstead ==
    ASSUME StackInduction, mode \in {"reading", "returning"}, Len(frames) > 1,
           NEW kind, NEW ss, NEW sc \in Nat, NEW inc \in Nat, Len(ss) \in Nat,
           \A k \in Stacks : Heights(ss, sc, inc)[k] + Pushed(Top.kind, k) =
              Heights(sessions, scopes, includes)[k] + Pushed(kind, k)
    PROVE  /\ SameCalls(AllButLast(frames)) /\ Len(AllButLast(frames)) > 0
           /\ Fit(AllButLast(frames), kind, ss, sc, inc)
<1> DEFINE n == Len(frames) - 1
           fs == AllButLast(frames)
           H == Heights(sessions, scopes, includes)
           G == Heights(ss, sc, inc)
<1>1. /\ frames # <<>> /\ frames \in Seq(Frame) /\ Len(frames) \in Nat
      /\ Top = frames[n + 1] /\ Top \in Frame
      /\ n \in 1 .. n /\ n \in 1 .. Len(frames) /\ n + 1 \in 1 .. Len(frames)
      /\ n + 1 \in 2 .. Len(frames) /\ n + 1 - 1 = n
  BY Running
<1>2. /\ fs \in Seq(Frame) /\ Len(fs) = n
      /\ \A i \in 1 .. n : fs[i] = frames[i]
  BY <1>1, FrontProperties
<1>3. SameCalls(fs) /\ Len(fs) > 0
  BY <1>1, <1>2 DEF SameCalls
<1>4. Len(sessions) \in Nat /\ scopes \in Nat /\ includes \in Nat
  BY LenProperties DEF StackInduction, TypeOK
<1>5. \A k \in Stacks : H[k] \in Nat /\ Top.given[k] \in Nat
  BY <1>1, <1>4 DEF Heights, Stacks, Frame
<1>6. \A k \in Stacks : Top.given[k] <= H[k] /\ (swallowed = 0 => Top.given[k] = H[k])
  BY <1>1 DEF StackInduction, NoUnderflow, Balanced, Clean
<1>7. \A k \in Stacks :
         /\ frames[n].given[k] \in Nat
         /\ frames[n].given[k] + Pushed(Top.kind, k) <= Top.given[k]
         /\ swallowed = 0 =>
               Top.given[k] = frames[n].given[k] + Pushed(Top.kind, k)
  <2> TAKE k \in Stacks
  <2>1. n < n + 1
    BY <1>1
  <2>2. /\ frames[n].given[k] \in Nat
        /\ frames[n].given[k] + Pushed(Top.kind, k) <= Top.given[k]
    BY <1>1, <2>1, GivenGrows
  <2>3. swallowed = 0 => Top.given[k] = frames[n].given[k] + Pushed(Top.kind, k)
    BY <1>1 DEF StackInduction, Tight
  <2> QED
    BY <2>2, <2>3
<1>8. Fit(fs, kind, ss, sc, inc)
  <2> SUFFICES ASSUME NEW k \in Stacks
               PROVE  /\ frames[n].given[k] + Pushed(kind, k) <= G[k]
                      /\ swallowed = 0 => frames[n].given[k] + Pushed(kind, k) = G[k]
    BY <1>1, <1>2 DEF Fit
  <2>1. G[k] + Pushed(Top.kind, k) = H[k] + Pushed(kind, k)
    OBVIOUS
  <2>2. G[k] \in Nat
    BY DEF Heights, Stacks
  <2> HIDE DEF H, G
  <2>3. H[k] \in Nat /\ Top.given[k] \in Nat /\ frames[n].given[k] \in Nat
    BY <1>5, <1>7
  <2>4. /\ Top.given[k] <= H[k]
        /\ frames[n].given[k] + Pushed(Top.kind, k) <= Top.given[k]
    BY <1>6, <1>7
  <2>5. Pushed(kind, k) \in {0, 1} /\ Pushed(Top.kind, k) \in {0, 1}
    BY DEF Pushed
  <2>6. swallowed = 0 => /\ Top.given[k] = H[k]
                         /\ Top.given[k] = frames[n].given[k] + Pushed(Top.kind, k)
    BY <1>6, <1>7
  <2>7. /\ frames[n].given[k] + Pushed(kind, k) <= G[k]
        /\ (/\ Top.given[k] = H[k]
            /\ Top.given[k] = frames[n].given[k] + Pushed(Top.kind, k))
           => frames[n].given[k] + Pushed(kind, k) = G[k]
    <3> DEFINE below == frames[n].given[k]
               top == Top.given[k]
               now == H[k]
               then == G[k]
               p == Pushed(Top.kind, k)
               q == Pushed(kind, k)
    <3>1. below \in Nat /\ top \in Nat /\ now \in Nat /\ then \in Nat
      BY <2>2, <2>3
    <3>2. p \in {0, 1} /\ q \in {0, 1}
      BY <2>5
    <3>3. then + p = now + q /\ top <= now /\ below + p <= top
      BY <2>1, <2>4
    <3> HIDE DEF below, top, now, then, p, q
    <3>4. /\ below + q <= then
          /\ (top = now /\ top = below + p) => below + q = then
      BY <3>1, <3>2, <3>3, Exchanged
    <3> QED
      BY <3>4 DEF below, top, now, then, p, q
  <2> QED
    BY <2>6, <2>7
<1> QED
  BY <1>3, <1>8

-----------------------------------------------------------------------------
(* The buffers under a call *)

LEMMA FrameAt ==
    ASSUME StackInduction, NEW i \in 1 .. Len(frames)
    PROVE  frames[i] \in Frame /\ frames[i].mark \in Nat \ {0}
<1>1. frames[i] \in Frame
  BY ElementOfSeq DEF StackInduction, TypeOK
<1> QED
  BY <1>1 DEF Frame

\* The first call's buffer is always there.
LEMMA OpenNonempty ==
    ASSUME StackInduction, mode \in {"reading", "returning", "raising"}
    PROVE  open # <<>> /\ open \in Seq(Element) /\ Len(open) \in Nat \ {0}
<1>1. frames # <<>> /\ Len(frames) \in Nat \ {0} /\ frames \in Seq(Frame)
  BY Running
<1>2. 1 \in 1 .. Len(frames) /\ frames[1] \in Frame
  BY <1>1, FrameAt
<1>3. frames[1].kind \in DocKinds /\ frames[1].mark <= Len(open) /\ frames[1].mark \in Nat \ {0}
  BY <1>2 DEF StackInduction, OneTop, Marked, DocKinds, Frame
<1>4. open \in Seq(Element) /\ Len(open) \in Nat
  BY LenProperties DEF StackInduction, TypeOK
<1> QED
  BY <1>3, <1>4, EmptySeq

\* An element opened above the buffers of the n lowest calls.
LEMMA MarksPush ==
    ASSUME StackInduction, NEW n \in 0 .. Len(frames),
           NEW elements, MarksKept(n, elements), NEW e \in Element
    PROVE  MarksKept(n, Append(elements, e))
<1>1. /\ Append(elements, e) \in Seq(Element) /\ Len(elements) \in Nat
      /\ Len(Append(elements, e)) = Len(elements) + 1
      /\ \A i \in 1 .. Len(elements) : Append(elements, e)[i] = elements[i]
  BY PushProperties, LenProperties DEF MarksKept
<1>2. /\ Len(frames) \in Nat
      /\ \A i \in 1 .. n : i \in 1 .. Len(frames) /\ frames[i].mark \in Nat \ {0}
  <2>1. frames \in Seq(Frame) /\ Len(frames) \in Nat
    BY LenProperties DEF StackInduction, TypeOK
  <2>2. \A i \in 1 .. n : i \in 1 .. Len(frames)
    BY <2>1
  <2> QED
    BY <2>1, <2>2, FrameAt
<1>3. \A i \in 1 .. n : frames[i].kind \in DocKinds =>
         /\ frames[i].mark \in 1 .. Len(elements)
         /\ elements[frames[i].mark].tag = "document"
  BY <1>1, <1>2 DEF MarksKept
<1> QED
  BY <1>1, <1>3 DEF MarksKept

\* An element or a buffer opened for a call made above fs.
LEMMA MarksEnter ==
    ASSUME StackInduction, NEW fs, SameCalls(fs), Len(fs) \in 0 .. Len(frames),
           NEW elements, MarksKept(Len(fs), elements), NEW e \in Element,
           NEW kind, kind \in DocKinds => e.tag = "document"
    PROVE  MarksIn(fs, kind, Append(elements, e))
<1>1. MarksKept(Len(fs), Append(elements, e))
  BY MarksPush
<1>2. /\ Append(elements, e) \in Seq(Element) /\ Len(elements) \in Nat
      /\ Len(Append(elements, e)) = Len(elements) + 1
      /\ Append(elements, e)[Len(elements) + 1] = e
  BY PushProperties, LenProperties DEF MarksKept
<1>3. Append(elements, e) # <<>>
  BY <1>2, EmptySeq
<1>4. \A i \in 1 .. Len(fs) : fs[i].kind \in DocKinds =>
         /\ fs[i].mark <= Len(Append(elements, e))
         /\ Append(elements, e)[fs[i].mark].tag = "document"
         /\ fs[i].mark < Len(Append(elements, e))
  <2> SUFFICES ASSUME NEW i \in 1 .. Len(fs), fs[i].kind \in DocKinds
               PROVE  /\ fs[i].mark <= Len(Append(elements, e))
                      /\ Append(elements, e)[fs[i].mark].tag = "document"
                      /\ fs[i].mark < Len(Append(elements, e))
    OBVIOUS
  <2>1. fs[i].kind = frames[i].kind /\ fs[i].mark = frames[i].mark
    BY DEF SameCalls
  <2>2. fs[i] \in Frame
    BY ElementOfSeq DEF SameCalls
  <2>3. fs[i].mark \in Nat /\ fs[i].mark <= Len(elements)
    BY <2>1, <2>2 DEF MarksKept, Frame
  <2>4. Append(elements, e)[fs[i].mark].tag = "document"
    BY <1>1, <2>1 DEF MarksKept
  <2> QED
    BY <1>2, <2>3, <2>4
<1> QED
  BY <1>2, <1>3, <1>4 DEF MarksIn

\* A call that is left takes its buffer with it, and no other.
LEMMA OpenBelowKeeps ==
    ASSUME StackInduction, mode \in {"reading", "returning", "raising"}
    PROVE  MarksKept(Len(frames) - 1, OpenBelow)
<1> DEFINE n == Len(frames) - 1
<1>1. /\ n + 1 \in 1 .. Len(frames) /\ Top = frames[n + 1] /\ Top \in Frame
      /\ \A i \in 1 .. n : i \in 1 .. Len(frames) /\ i \in 1 .. (n + 1) - 1
      /\ frames \in Seq(Frame)
  BY Running
<1>2. MarksKept(Len(frames), open) /\ open \in Seq(Element) /\ Len(open) \in Nat
  BY Running, OpenNonempty
<1>3. CASE Top.kind \notin DocKinds
  BY <1>1, <1>2, <1>3 DEF MarksKept, OpenBelow
<1>4. CASE Top.kind \in DocKinds
  <2>1. Top.mark \in Nat \ {0} /\ Top.mark <= Len(open)
    BY <1>1, <1>2, <1>4 DEF MarksKept, Frame
  <2>2. Top.mark - 1 \in 0 .. Len(open)
    BY <1>2, <2>1
  <2>3. /\ OpenBelow \in Seq(Element) /\ Len(OpenBelow) = Top.mark - 1
        /\ \A i \in 1 .. Top.mark - 1 : OpenBelow[i] = open[i]
    BY <1>2, <1>4, <2>2, PrefixProperties DEF OpenBelow
  <2>4. \A i \in 1 .. n : frames[i].kind \in DocKinds =>
           /\ frames[i].mark < Top.mark
           /\ frames[i].mark \in Nat \ {0}
           /\ open[frames[i].mark].tag = "document"
    <3> SUFFICES ASSUME NEW i \in 1 .. n, frames[i].kind \in DocKinds
                 PROVE  /\ frames[i].mark < Top.mark
                        /\ frames[i].mark \in Nat \ {0}
                        /\ open[frames[i].mark].tag = "document"
      OBVIOUS
    <3>1. i \in 1 .. Len(frames) /\ i \in 1 .. (n + 1) - 1
      BY <1>1
    <3>2. frames[i] \in Frame
      BY <1>1, <3>1, ElementOfSeq
    <3> QED
      BY <1>1, <1>4, <3>1, <3>2 DEF StackInduction, Marked, Frame
  <2>5. \A i \in 1 .. n : frames[i].kind \in DocKinds =>
           frames[i].mark \in 1 .. Top.mark - 1
    BY <2>1, <2>4
  <2> QED
    BY <2>1, <2>3, <2>4, <2>5 DEF MarksKept
<1> QED
  BY <1>3, <1>4

\* An end tag does not close a buffer.
LEMMA EndTagKeeps ==
    ASSUME StackInduction, mode \in {"reading", "returning", "raising"},
           open[Len(open)].tag # "document"
    PROVE  MarksKept(Len(frames), AllButLast(open))
<1>1. open # <<>> /\ open \in Seq(Element) /\ Len(open) \in Nat \ {0}
  BY OpenNonempty
<1>2. /\ AllButLast(open) \in Seq(Element) /\ Len(AllButLast(open)) = Len(open) - 1
      /\ \A i \in 1 .. Len(open) - 1 : AllButLast(open)[i] = open[i]
  BY <1>1, FrontProperties
<1>3. MarksKept(Len(frames), open) /\ frames \in Seq(Frame)
  BY Running
<1>4. \A i \in 1 .. Len(frames) : frames[i].kind \in DocKinds =>
         frames[i].mark \in 1 .. Len(open) - 1
  <2> SUFFICES ASSUME NEW i \in 1 .. Len(frames), frames[i].kind \in DocKinds
               PROVE  frames[i].mark \in 1 .. Len(open) - 1
    OBVIOUS
  <2>1. frames[i].mark \in Nat \ {0}
    BY FrameAt
  <2>2. frames[i].mark <= Len(open) /\ frames[i].mark # Len(open)
    BY <1>3 DEF MarksKept
  <2> QED
    BY <1>1, <2>1, <2>2
<1> QED
  BY <1>1, <1>2, <1>3, <1>4 DEF MarksKept

-----------------------------------------------------------------------------
(* The shapes of the actions *)

LEMMA ShapeTyped ==
    ASSUME OthersTyped, NEW counts \in BOOLEAN, NEW consumes \in BOOLEAN,
           Shape(counts, consumes)
    PROVE  consumed' \in BOOLEAN /\ single' \in BOOLEAN
  BY DEF OthersTyped, Shape, StaysSingle

\* A call made above all the others that leaves the sessions alone.
LEMMA EnterAbove ==
    ASSUME StackInduction, mode \in {"reading", "returning"},
           NEW fs, SameCalls(fs), Len(fs) = Len(frames),
           NEW kind \in Kinds \ {"top", "session"},
           NEW elements, MarksKept(Len(frames), elements), NEW e \in Element,
           kind \in DocKinds => e.tag = "document",
           NEW sc, NEW inc, sc = scopes + Pushed(kind, "scopes"),
           inc = includes + Pushed(kind, "includes"),
           Enter(fs, kind, Append(elements, e), sessions, sc, inc, 0),
           OthersTyped', UNCHANGED swallowed
    PROVE  StackInduction'
<1>1. /\ Len(frames) \in Nat \ {0} /\ scopes \in Nat /\ includes \in Nat
      /\ Len(sessions) \in Nat
  BY Running, LenProperties DEF StackInduction, TypeOK
<1>2. sc \in Nat /\ inc \in Nat
  BY <1>1 DEF Pushed
<1>3. \A k \in Stacks : Heights(sessions, sc, inc)[k] =
         Heights(sessions, scopes, includes)[k] + Pushed(kind, k)
  BY <1>1 DEF Heights, Stacks, Pushed
<1>4. Fit(fs, kind, sessions, sc, inc)
  BY <1>3, FitAbove
<1>5. MarksIn(fs, kind, Append(elements, e))
  BY <1>1, MarksEnter
<1>6. SessionPushed(kind, sessions, 0)
  BY DEF SessionPushed
<1> QED
  BY <1>1, <1>2, <1>4, <1>5, <1>6, EnterKeeps

\* A call made in place of the top one that leaves the sessions alone.
LEMMA EnterInstead ==
    ASSUME StackInduction, mode = "returning",
           Top.kind \notin {"top", "session", "include"},
           NEW kind \in Kinds \ {"top", "session", "include"},
           NEW e \in Element, e.tag = "document",
           NEW sc \in Nat,
           sc + Pushed(Top.kind, "scopes") = scopes + Pushed(kind, "scopes"),
           Enter(AllButLast(frames), kind, Append(OpenBelow, e), sessions, sc,
                 includes, 0),
           OthersTyped', UNCHANGED swallowed
    PROVE  StackInduction'
<1>1. /\ Len(frames) \in Nat \ {0} /\ scopes \in Nat /\ includes \in Nat
      /\ Len(sessions) \in Nat
  BY Running, LenProperties DEF StackInduction, TypeOK
<1>2. Len(frames) > 1
  BY <1>1, Running DEF StackInduction, OneTop
<1>3. \A k \in Stacks : Heights(sessions, sc, includes)[k] + Pushed(Top.kind, k) =
         Heights(sessions, scopes, includes)[k] + Pushed(kind, k)
  BY <1>1 DEF Heights, Stacks, Pushed
<1>4. /\ SameCalls(AllButLast(frames)) /\ Len(AllButLast(frames)) > 0
      /\ Fit(AllButLast(frames), kind, sessions, sc, includes)
  BY <1>1, <1>2, <1>3, FitInstead
<1>5. Len(AllButLast(frames)) = Len(frames) - 1
  BY Running, FrontProperties
<1>6. MarksIn(AllButLast(frames), kind, Append(OpenBelow, e))
  <2>1. MarksKept(Len(AllButLast(frames)), OpenBelow)
    BY <1>5, OpenBelowKeeps
  <2>2. Len(AllButLast(frames)) \in 0 .. Len(frames)
    BY <1>1, <1>5
  <2> QED
    BY <1>4, <2>1, <2>2, MarksEnter
<1>7. SessionPushed(kind, sessions, 0)
  BY DEF SessionPushed
<1> QED
  BY <1>1, <1>4, <1>6, <1>7, EnterKeeps

\* What was pushed for the top call is still on the stacks.
LEMMA PushedIsThere ==
    ASSUME StackInduction, mode \in {"reading", "returning", "raising"},
           NEW k \in Stacks
    PROVE  /\ Heights(sessions, scopes, includes)[k] \in Nat
           /\ Top.given[k] \in Nat
           /\ Pushed(Top.kind, k) <= Heights(sessions, scopes, includes)[k]
           /\ Top.given[k] <= Heights(sessions, scopes, includes)[k]
           /\ Clean => Top.given[k] = Heights(sessions, scopes, includes)[k]
<1> DEFINE H == Heights(sessions, scopes, includes)
           n == Len(frames)
<1>1. /\ n \in Nat \ {0} /\ n \in 1 .. n /\ 1 \in 1 .. n /\ Top = frames[n]
      /\ frames # <<>> /\ Top \in Frame
  BY Running
<1>2. Len(sessions) \in Nat /\ scopes \in Nat /\ includes \in Nat
  BY LenProperties DEF StackInduction, TypeOK
<1>3. H[k] \in Nat
  BY <1>2 DEF Heights, Stacks
<1>4. Top.given[k] <= H[k] /\ (Clean => Top.given[k] = H[k])
  BY <1>1 DEF StackInduction, NoUnderflow, Balanced
<1>5. Pushed(Top.kind, k) <= Top.given[k] /\ Top.given[k] \in Nat
  <2>1. CASE n > 1
    <3>1. /\ frames[1].given[k] \in Nat /\ Top.given[k] \in Nat
          /\ frames[1].given[k] + Pushed(Top.kind, k) <= Top.given[k]
      BY <1>1, <2>1, GivenGrows
    <3> QED
      BY <3>1 DEF Pushed
  <2>2. CASE n = 1
    <3>1. Top.kind = "top"
      BY <1>1, <2>2 DEF StackInduction, OneTop
    <3>2. Pushed(Top.kind, k) = 0
      BY <3>1 DEF Pushed, ScopeKinds
    <3> QED
      BY <1>1, <3>2 DEF Frame
  <2>3. n > 1 \/ n = 1
    <3>1. n \in Nat \ {0}
      BY <1>1
    <3> HIDE DEF n
    <3> QED
      BY <3>1
  <2> QED
    BY <2>1, <2>2, <2>3
<1> HIDE DEF H
<1>6. Pushed(Top.kind, k) \in {0, 1}
  BY DEF Pushed
<1>7. /\ H[k] \in Nat /\ Top.given[k] \in Nat
      /\ Pushed(Top.kind, k) <= H[k] /\ Top.given[k] <= H[k]
      /\ Clean => Top.given[k] = H[k]
  BY <1>3, <1>4, <1>5, <1>6
<1> QED
  BY <1>7 DEF H

\* A handler that pops what it pushed and goes on in its caller.
LEMMA LeaveKeeps ==
    ASSUME StackInduction, mode = "returning", Leave,
           SessionPopped, Len(sessions') + Pushed(Top.kind, "sessions") = Len(sessions),
           OthersTyped', UNCHANGED swallowed
    PROVE  StackInduction'
<1> DEFINE H == Heights(sessions, scopes, includes)
<1>1. /\ Len(frames) \in Nat \ {0} /\ frames # <<>> /\ Top \in Frame
      /\ Len(sessions) \in Nat /\ scopes \in Nat /\ includes \in Nat
  BY Running, LenProperties DEF StackInduction, TypeOK
<1>2. Len(sessions') \in Nat
  BY LenProperties DEF SessionPopped
<1>3. \A k \in Stacks :
         /\ H[k] \in Nat /\ Top.given[k] \in Nat
         /\ Pushed(Top.kind, k) <= H[k] /\ Top.given[k] <= H[k]
         /\ Clean => Top.given[k] = H[k]
  BY PushedIsThere
<1>4. /\ H["scopes"] = scopes /\ H["includes"] = includes
      /\ {"scopes", "includes", "sessions"} \subseteq Stacks
  BY DEF Heights, Stacks
<1>5. /\ scopes' = scopes - Pushed(Top.kind, "scopes")
      /\ includes' = includes - Pushed(Top.kind, "includes")
  BY <1>1 DEF Leave, ScopesPopped, Pushed
<1>6. scopes' \in Nat /\ includes' \in Nat
  <2>1. Pushed(Top.kind, "scopes") <= scopes /\ Pushed(Top.kind, "includes") <= includes
    BY <1>3, <1>4
  <2> QED
    BY <1>1, <1>5, <2>1 DEF Pushed
<1>7. \A k \in Stacks : H'[k] + Pushed(Top.kind, k) = H[k]
  BY <1>1, <1>2, <1>5, <1>6 DEF Heights, Stacks, Pushed
<1>8. /\ mode' \in Modes /\ (mode' \in {"done", "failed"} <=> Len(frames) = 1)
      /\ Clean' => Clean
  BY <1>1 DEF Leave, Depth, Modes, Clean
<1>9. MarksKept(Len(frames) - 1, open') /\ frames' = AllButLast(frames)
  BY OpenBelowKeeps DEF Leave
<1>10. \A k \in Stacks :
          /\ Top.given[k] <= Heights(sessions, scopes, includes)'[k]
                               + Pushed(Top.kind, k)
          /\ Clean' /\ mode' # "failed" =>
                Top.given[k] = Heights(sessions, scopes, includes)'[k]
                                 + Pushed(Top.kind, k)
  BY <1>3, <1>7, <1>8
<1>11. swallowed' = 0 => swallowed = 0
  OBVIOUS
<1> HIDE DEF H
<1> QED
  BY <1>1, <1>6, <1>8, <1>9, <1>10, <1>11, PopKeeps

-----------------------------------------------------------------------------
(* The induction *)

\* An element that is opened is typed.
LEMMA ElementTyped ==
    ASSUME NEW tag \in Tags, NEW sid \in 0 .. MaxSessions
    PROVE  Elem(tag, sid) \in Element /\ Elem(tag, sid).tag = tag
  BY DEF Elem, Element

LEMMA BufferTyped == Buffer \in Element /\ Buffer.tag = "document"
<1>1. 0 \in 0 .. MaxSessions
  BY ParserBounds
<1> QED
  BY <1>1 DEF Buffer, Elem, Element, Tags

\* Start tags that parse() reads.
LEMMA TokenKeeps == ASSUME StackInduction, Token PROVE StackInduction'
<1>1. mode = "reading"
  BY DEF Token, HtmlStart, ValueStart, UnhandledStart, SkippedStart, Include,
     SessionStart, CountedStart, LoopStart, ScriptError, EndTag, EndOfBuffer,
     Parsing
<1>2. /\ frames # <<>> /\ frames \in Seq(Frame) /\ Len(frames) \in Nat \ {0}
      /\ Top = frames[Depth] /\ Top \in Frame /\ SameCalls(frames)
      /\ MarksKept(Len(frames), open) /\ OthersTyped
  BY <1>1, Running DEF Depth
<1>3. \A tag \in {"other", "case"} : /\ Elem(tag, 0) \in Element
                                    /\ MarksKept(Len(frames), Append(open, Elem(tag, 0)))
  <2> TAKE tag \in {"other", "case"}
  <2>1. Elem(tag, 0) \in Element
    BY ElementTyped, ParserBounds DEF Tags
  <2> QED
    BY <1>2, <2>1, MarksPush
<1>4. MayCount => SameCalls(Counted) /\ Len(Counted) = Len(frames)
  BY <1>1, CountedSame
<1>5. scopes \in Nat /\ includes \in Nat /\ sessions \in Seq(1 .. MaxSessions)
  BY DEF StackInduction, TypeOK
<1>6. CASE HtmlStart
  <2>1. OthersTyped' /\ UNCHANGED swallowed
    BY <1>2, <1>6 DEF HtmlStart, OthersTyped, KeepSessions
  <2>2. Enter(frames, "element", Append(open, Elem("other", 0)), sessions, scopes,
              includes, 0)
    BY <1>6 DEF HtmlStart
  <2>3. /\ scopes = scopes + Pushed("element", "scopes")
        /\ includes = includes + Pushed("element", "includes")
        /\ "element" \in Kinds \ {"top", "session"} /\ "element" \notin DocKinds
    BY <1>5 DEF Pushed, ScopeKinds, Kinds, InnerKinds, DocKinds
  <2> QED
    BY <1>1, <1>2, <1>3, <2>1, <2>2, <2>3, EnterAbove
<1>7. CASE ValueStart
  <2>1. OthersTyped' /\ UNCHANGED swallowed
    BY <1>2, <1>7, ShapeTyped DEF ValueStart, OthersTyped, KeepSessions
  <2> QED
    BY <1>1, <1>2, <1>3, <1>7, <2>1, StayKeeps DEF ValueStart
<1>8. CASE UnhandledStart
  <2>1. OthersTyped' /\ UNCHANGED swallowed
    BY <1>2, <1>8, ShapeTyped DEF UnhandledStart, OthersTyped, KeepSessions
  <2> QED
    BY <1>1, <1>2, <1>3, <1>4, <1>8, <2>1, StayKeeps DEF UnhandledStart
<1>9. CASE SkippedStart
  <2>1. OthersTyped' /\ UNCHANGED swallowed
    BY <1>2, <1>9, ShapeTyped DEF SkippedStart, OthersTyped, KeepSessions
  <2> QED
    BY <1>1, <1>2, <1>4, <1>9, <2>1, StayKeeps DEF SkippedStart
<1>10. ASSUME NEW asStart \in BOOLEAN, Include(asStart) PROVE StackInduction'
  <2> DEFINE here == IF asStart THEN Append(open, Elem("other", 0)) ELSE open
  <2>1. OthersTyped' /\ UNCHANGED swallowed
    BY <1>2, <1>10, ShapeTyped DEF Include, OthersTyped, KeepSessions
  <2>2. Enter(frames, "include", Append(here, Buffer), sessions, scopes,
              includes + 1, 0)
    BY <1>10 DEF Include
  <2>3. MarksKept(Len(frames), here)
    BY <1>2, <1>3
  <2>4. /\ scopes = scopes + Pushed("include", "scopes")
        /\ includes + 1 = includes + Pushed("include", "includes")
        /\ "include" \in Kinds \ {"top", "session"}
    BY <1>5 DEF Pushed, ScopeKinds, Kinds, InnerKinds, DocKinds
  <2> HIDE DEF here
  <2> QED
    BY <1>1, <1>2, <2>1, <2>2, <2>3, <2>4, BufferTyped, EnterAbove
<1>11. CASE SessionStart
  <2> DEFINE e == Elem("session", opened + 1)
             ss == Append(sessions, opened + 1)
  <2>1. opened + 1 \in 1 .. MaxSessions
    BY <1>2, <1>11, ParserBounds DEF SessionStart, OthersTyped
  <2>2. e \in Element /\ e.tag = "session"
    BY <2>1, ElementTyped DEF Tags
  <2>3. OthersTyped' /\ UNCHANGED swallowed
    <3>1. consumed' \in BOOLEAN /\ single' \in BOOLEAN
      BY <1>2, <1>11, ShapeTyped DEF SessionStart
    <3>2. session' \in [1 .. MaxSessions -> Session]
      BY <1>2, <1>11, <2>1 DEF SessionStart, OthersTyped, Session
    <3>3. opened' \in 0 .. MaxSessions /\ swallowed' = swallowed
      BY <1>11, <2>1 DEF SessionStart
    <3> QED
      BY <1>2, <3>1, <3>2, <3>3 DEF OthersTyped
  <2>4. Enter(Counted, "session", Append(open, e), ss, scopes, includes, opened + 1)
    BY <1>11 DEF SessionStart
  <2>5. SameCalls(Counted) /\ Len(Counted) = Len(frames)
    BY <1>4, <1>11 DEF SessionStart
  <2>6. Len(ss) = Len(sessions) + 1 /\ Len(sessions) \in Nat
    BY <1>5, <2>1, PushProperties, LenProperties
  <2>7. \A k \in Stacks : Heights(ss, scopes, includes)[k] =
           Heights(sessions, scopes, includes)[k] + Pushed("session", k)
    BY <1>5, <2>6 DEF Heights, Stacks, Pushed, ScopeKinds
  <2>8. Fit(Counted, "session", ss, scopes, includes)
    BY <1>1, <2>5, <2>7, FitAbove
  <2>9. "session" \notin DocKinds /\ "session" \in Kinds \ {"top"}
    BY DEF Kinds, InnerKinds, DocKinds
  <2>10. MarksIn(Counted, "session", Append(open, e))
    <3>1. Len(frames) \in 0 .. Len(frames)
      BY <1>2
    <3> QED
      BY <1>2, <2>2, <2>5, <2>9, <3>1, MarksEnter
  <2>11. SessionPushed("session", ss, opened + 1)
    BY <2>1 DEF SessionPushed
  <2>12. Len(Counted) > 0
    BY <1>2, <2>5
  <2> HIDE DEF e, ss
  <2> QED
    BY <1>1, <1>5, <2>3, <2>4, <2>5, <2>8, <2>9, <2>10, <2>11, <2>12, EnterKeeps
<1>12. ASSUME NEW kind \in {"element", "scope", "sort", "re", "update", "search", "case"},
              CountedStart(kind)
       PROVE  StackInduction'
  <2> DEFINE tag == IF kind = "case" THEN "case" ELSE "other"
             sc == IF kind \in ScopeKinds THEN scopes + 1 ELSE scopes
  <2>1. OthersTyped' /\ UNCHANGED swallowed
    BY <1>2, <1>12, ShapeTyped DEF CountedStart, OthersTyped, KeepSessions
  <2>2. Enter(Counted, kind, Append(open, Elem(tag, 0)), sessions, sc, includes, 0)
    BY <1>12 DEF CountedStart
  <2>3. Elem(tag, 0) \in Element
    BY <1>3
  <2>4. /\ sc = scopes + Pushed(kind, "scopes")
        /\ includes = includes + Pushed(kind, "includes")
    BY <1>5 DEF Pushed
  <2>5. kind \in Kinds \ {"top", "session"} /\ kind \notin DocKinds
    BY DEF Kinds, InnerKinds, DocKinds
  <2>6. SameCalls(Counted) /\ Len(Counted) = Len(frames)
    BY <1>4, <1>12 DEF CountedStart
  <2> HIDE DEF tag, sc
  <2> QED
    BY <1>1, <1>2, <2>1, <2>2, <2>3, <2>4, <2>5, <2>6, EnterAbove
<1>13. ASSUME NEW kind \in {"for", "while"}, LoopStart(kind) PROVE StackInduction'
  <2> DEFINE sc == IF kind = "for" THEN scopes + 1 ELSE scopes
  <2>1. OthersTyped' /\ UNCHANGED swallowed
    BY <1>2, <1>13, ShapeTyped DEF LoopStart, OthersTyped, KeepSessions
  <2>2. Enter(Counted, kind, Append(open, Buffer), sessions, sc, includes, 0)
    BY <1>13 DEF LoopStart
  <2>3. /\ sc = scopes + Pushed(kind, "scopes")
        /\ includes = includes + Pushed(kind, "includes")
    BY <1>5 DEF Pushed, ScopeKinds
  <2>4. kind \in Kinds \ {"top", "session"}
    BY DEF Kinds, InnerKinds, DocKinds
  <2>5. SameCalls(Counted) /\ Len(Counted) = Len(frames)
    BY <1>4, <1>13 DEF LoopStart
  <2> HIDE DEF sc
  <2> QED
    BY <1>1, <1>2, <2>1, <2>2, <2>3, <2>4, <2>5, BufferTyped, EnterAbove
<1>14. CASE ScriptError
  BY <1>1, <1>2, <1>14, StayKeeps DEF ScriptError, OthersTyped, KeepSessions
<1>15. CASE EndTag
  <2>1. OthersTyped' /\ UNCHANGED swallowed
    BY <1>2, <1>15 DEF EndTag, OthersTyped, KeepSessions
  <2>2. MarksKept(Len(frames), open')
    BY <1>1, <1>15, EndTagKeeps DEF EndTag
  <2>3. SameCalls(frames') /\ Len(frames') = Len(frames)
    <3>1. CASE UNCHANGED frames
      BY <1>2, <3>1
    <3>2. CASE /\ ~ EndsCall(Top.deps - 1)
               /\ frames' = [frames EXCEPT ![Depth].deps = @ - 1]
      <4> DEFINE f == [Top EXCEPT !.deps = @ - 1]
      <4>1. Top.deps \in 0 .. MaxDeps /\ MaxDeps \in Nat
        BY <1>2, ParserBounds DEF Frame
      <4>2. Top.deps - 1 \in 0 .. MaxDeps
        BY <3>2, <4>1 DEF EndsCall
      <4>3. f \in Frame /\ frames' = [frames EXCEPT ![Depth] = f]
        BY <1>2, <3>2, <4>2 DEF Frame
      <4>4. /\ f.kind = Top.kind /\ f.mark = Top.mark /\ f.given = Top.given
            /\ f.sid = Top.sid
        BY <1>2 DEF Frame
      <4> HIDE DEF f
      <4> QED
        BY <1>1, <4>3, <4>4, TopReplaced
    <3> QED
      BY <1>15, <3>1, <3>2 DEF EndTag
  <2> QED
    BY <1>1, <1>2, <1>15, <2>1, <2>2, <2>3, StayKeeps DEF EndTag
<1>16. CASE EndOfBuffer
  BY <1>1, <1>2, <1>16, StayKeeps DEF EndOfBuffer, OthersTyped, KeepSessions
<1> QED
  BY <1>6, <1>7, <1>8, <1>9, <1>10, <1>11, <1>12, <1>13, <1>14, <1>15, <1>16 DEF Token

\* Tokens that search() and case() read.
LEMMA ScanTokenKeeps == ASSUME StackInduction, ScanToken PROVE StackInduction'
<1>1. mode = "reading"
  BY DEF ScanToken, ResultStart, StrayInSearch, ConditionStart, BranchTaken,
     CaseEndTag, BranchEntered, InConditions, InCase
<1>2. /\ frames # <<>> /\ frames \in Seq(Frame) /\ Len(frames) \in Nat \ {0}
      /\ Top = frames[Depth] /\ Top \in Frame /\ SameCalls(frames)
      /\ MarksKept(Len(frames), open) /\ OthersTyped
  BY <1>1, Running DEF Depth
<1>3. \A tag \in {"other", "case"} : /\ Elem(tag, 0) \in Element
                                    /\ MarksKept(Len(frames), Append(open, Elem(tag, 0)))
  <2> TAKE tag \in {"other", "case"}
  <2>1. Elem(tag, 0) \in Element
    BY ElementTyped, ParserBounds DEF Tags
  <2> QED
    BY <1>2, <2>1, MarksPush
<1>4. MayCount => SameCalls(Counted) /\ Len(Counted) = Len(frames)
  BY <1>1, CountedSame
<1>5. scopes \in Nat /\ includes \in Nat
  BY DEF StackInduction, TypeOK
<1>6. CASE ResultStart
  <2>1. OthersTyped' /\ UNCHANGED swallowed
    BY <1>2, <1>6, ShapeTyped DEF ResultStart, OthersTyped, KeepSessions
  <2> DEFINE f == [Top EXCEPT !.deps = @ + 1, !.chosen = TRUE]
  <2>2. Top.deps + 1 \in 0 .. MaxDeps
    <3>1. Top.deps \in 0 .. MaxDeps /\ Top.deps < MaxDeps /\ MaxDeps \in Nat
      BY <1>2, <1>6, ParserBounds DEF ResultStart, MayCount, Frame
    <3> QED
      BY <3>1
  <2>3. f \in Frame
    BY <1>2, <2>2 DEF Frame
  <2>4. frames' = [frames EXCEPT ![Depth] = f]
    BY <1>2, <1>6 DEF ResultStart, Counted, Depth, Frame
  <2>5. /\ f.kind = Top.kind /\ f.mark = Top.mark /\ f.given = Top.given
        /\ f.sid = Top.sid
    BY <1>2 DEF Frame
  <2> HIDE DEF f
  <2>6. SameCalls(frames') /\ Len(frames') = Len(frames)
    BY <1>1, <2>3, <2>4, <2>5, TopReplaced
  <2> QED
    BY <1>1, <1>2, <1>6, <2>1, <2>6, StayKeeps DEF ResultStart
<1>7. CASE StrayInSearch
  <2>1. OthersTyped' /\ UNCHANGED swallowed
    BY <1>2, <1>7, ShapeTyped DEF StrayInSearch, OthersTyped, KeepSessions
  <2> QED
    BY <1>1, <1>2, <1>3, <1>4, <1>7, <2>1, StayKeeps DEF StrayInSearch
<1>8. ASSUME NEW kind \in {"narrow", "join"}, ConditionStart(kind)
      PROVE  StackInduction'
  <2>1. OthersTyped' /\ UNCHANGED swallowed
    BY <1>2, <1>8, ShapeTyped DEF ConditionStart, OthersTyped, KeepSessions
  <2>2. Enter(Counted, kind, Append(open, Elem("other", 0)), sessions, scopes,
              includes, 0)
    BY <1>8 DEF ConditionStart
  <2>3. /\ scopes = scopes + Pushed(kind, "scopes")
        /\ includes = includes + Pushed(kind, "includes")
    BY <1>5 DEF Pushed, ScopeKinds
  <2>4. kind \in Kinds \ {"top", "session"} /\ kind \notin DocKinds
    BY DEF Kinds, InnerKinds, DocKinds
  <2>5. SameCalls(Counted) /\ Len(Counted) = Len(frames)
    BY <1>4, <1>8 DEF ConditionStart
  <2> QED
    BY <1>1, <1>2, <1>3, <2>1, <2>2, <2>3, <2>4, <2>5, EnterAbove
<1>9. CASE BranchTaken
  <2>1. OthersTyped' /\ UNCHANGED swallowed
    BY <1>2, <1>9 DEF BranchTaken, OthersTyped, KeepSessions
  <2> DEFINE f == [Top EXCEPT !.chosen = TRUE]
             fs == [frames EXCEPT ![Depth].chosen = TRUE]
  <2>2. f \in Frame /\ fs = [frames EXCEPT ![Depth] = f]
    BY <1>2 DEF Frame
  <2>3. /\ f.kind = Top.kind /\ f.mark = Top.mark /\ f.given = Top.given
        /\ f.sid = Top.sid
    BY <1>2 DEF Frame
  <2>4. Enter(fs, "element", Append(open, Elem("other", 0)), sessions, scopes,
              includes, 0)
    BY <1>9 DEF BranchTaken
  <2> HIDE DEF f, fs
  <2>5. SameCalls(fs) /\ Len(fs) = Len(frames)
    BY <1>1, <2>2, <2>3, TopReplaced
  <2>6. /\ scopes = scopes + Pushed("element", "scopes")
        /\ includes = includes + Pushed("element", "includes")
        /\ "element" \in Kinds \ {"top", "session"} /\ "element" \notin DocKinds
    BY <1>5 DEF Pushed, ScopeKinds, Kinds, InnerKinds, DocKinds
  <2> QED
    BY <1>1, <1>2, <1>3, <2>1, <2>4, <2>5, <2>6, EnterAbove
<1>10. CASE CaseEndTag
  <2>1. OthersTyped' /\ UNCHANGED swallowed
    BY <1>2, <1>10 DEF CaseEndTag, OthersTyped, KeepSessions
  <2>2. MarksKept(Len(frames), open')
    BY <1>1, <1>10, EndTagKeeps DEF CaseEndTag
  <2> QED
    BY <1>1, <1>2, <1>10, <2>1, <2>2, StayKeeps DEF CaseEndTag
<1>11. ASSUME NEW tag \in {"other", "case"}, BranchEntered(tag) PROVE StackInduction'
  <2>1. OthersTyped' /\ UNCHANGED swallowed
    BY <1>2, <1>11, ShapeTyped DEF BranchEntered, OthersTyped, KeepSessions
  <2> QED
    BY <1>1, <1>2, <1>3, <1>11, <2>1, StayKeeps DEF BranchEntered
<1> QED
  BY <1>6, <1>7, <1>8, <1>9, <1>10, <1>11 DEF ScanToken

\* What a handler does when its call returns.
LEMMA ReturnKeeps == ASSUME StackInduction, Return PROVE StackInduction'
<1>1. mode = "returning"
  BY DEF Return, ReturnPlain, ReturnSession, LoopEnds, LoopAgain, ReturnRe,
     ReturnNarrow, ReturnSearch, ReturnUpdate, UpdateRejected, Returned
<1>2. /\ frames # <<>> /\ frames \in Seq(Frame) /\ Len(frames) \in Nat \ {0}
      /\ Top = frames[Len(frames)] /\ Top \in Frame
      /\ MarksKept(Len(frames), open) /\ OthersTyped
  BY <1>1, Running
<1>3. /\ scopes \in Nat /\ includes \in Nat
      /\ sessions \in Seq(1 .. MaxSessions) /\ Len(sessions) \in Nat
      /\ session \in [1 .. MaxSessions -> Session]
  BY LenProperties DEF StackInduction, TypeOK
<1>4. sessions # <<>> => Innermost \in 1 .. MaxSessions
  BY <1>3, FrontProperties DEF Innermost
<1>5. ASSUME UNCHANGED sessions, Leave, OthersTyped', UNCHANGED swallowed,
             Top.kind # "session"
      PROVE  StackInduction'
  <2>1. SessionPopped
    BY <1>3, <1>5 DEF SessionPopped
  <2>2. Len(sessions') + Pushed(Top.kind, "sessions") = Len(sessions)
    BY <1>3, <1>5 DEF Pushed, ScopeKinds
  <2> QED
    BY <1>1, <1>5, <2>1, <2>2, LeaveKeeps
<1>6. CASE ReturnPlain \/ LoopEnds
  <2>1. OthersTyped' /\ UNCHANGED <<sessions, swallowed>> /\ Leave
    BY <1>2, <1>6 DEF ReturnPlain, LoopEnds, OthersTyped, KeepSessions
  <2>2. Top.kind # "session"
    BY <1>6 DEF ReturnPlain, LoopEnds, Returned
  <2> QED
    BY <1>5, <2>1, <2>2
<1>7. CASE ReturnSession
  <2>1. /\ Top.kind = "session" /\ Leave /\ UNCHANGED <<opened, consumed, single, swallowed>>
    BY <1>7 DEF ReturnSession, Returned
  <2>2. Len(sessions) >= 1
    <3>1. "sessions" \in Stacks /\ Heights(sessions, scopes, includes)["sessions"] = Len(sessions)
      BY DEF Heights, Stacks
    <3>2. Pushed(Top.kind, "sessions") = 1
      BY <2>1 DEF Pushed
    <3> QED
      BY <1>1, <1>3, <3>1, <3>2, PushedIsThere
  <2>3. sessions # <<>>
    BY <2>2, EmptySeq
  <2>4. /\ sessions' = AllButLast(sessions)
        /\ session' = [session EXCEPT ![Innermost].holds = Closing(session[Innermost])]
    BY <1>7, <2>3 DEF ReturnSession, SessionsPopped
  <2>5. SessionPopped /\ Len(sessions') + Pushed(Top.kind, "sessions") = Len(sessions)
    <3>1. /\ sessions' \in Seq(1 .. MaxSessions)
          /\ Len(sessions') = Len(sessions) - 1
          /\ \A i \in 1 .. Len(sessions) - 1 : sessions'[i] = sessions[i]
      BY <1>3, <2>3, <2>4, FrontProperties
    <3> QED
      BY <1>3, <2>1, <3>1 DEF SessionPopped, Pushed
  <2>6. OthersTyped'
    <3>1. Closing(session[Innermost]) \in Holds
      BY <1>3, <1>4, <2>3 DEF Closing, Session, Holds
    <3>2. session' \in [1 .. MaxSessions -> Session]
      BY <1>3, <1>4, <2>3, <2>4, <3>1 DEF Session
    <3> QED
      BY <1>2, <2>1, <3>2 DEF OthersTyped
  <2> QED
    BY <1>1, <2>1, <2>5, <2>6, LeaveKeeps
<1>8. CASE LoopAgain
  <2>1. OthersTyped' /\ UNCHANGED swallowed
    BY <1>2, <1>8 DEF LoopAgain, OthersTyped, KeepSessions
  <2>2. Enter(AllButLast(frames), Top.kind, Append(OpenBelow, Buffer), sessions,
              scopes, includes, 0)
    BY <1>8 DEF LoopAgain
  <2>3. Top.kind \in Kinds \ {"top", "session", "include"}
    BY <1>2, <1>8 DEF LoopAgain, Returned, Frame
  <2> QED
    BY <1>1, <1>3, <2>1, <2>2, <2>3, BufferTyped, EnterInstead
<1>9. CASE ReturnRe
  <2>1. OthersTyped' /\ UNCHANGED swallowed /\ Top.kind = "re"
    BY <1>2, <1>9 DEF ReturnRe, OthersTyped, KeepSessions, Returned
  <2>2. OpenBelow = open
    BY <2>1 DEF OpenBelow, DocKinds
  <2>3. Enter(AllButLast(frames), "reout", Append(OpenBelow, Buffer), sessions,
              scopes, includes, 0)
    BY <1>9, <2>2 DEF ReturnRe
  <2>4. /\ scopes + Pushed(Top.kind, "scopes") = scopes + Pushed("reout", "scopes")
        /\ Top.kind \notin {"top", "session", "include"}
        /\ "reout" \in Kinds \ {"top", "session", "include"}
    BY <2>1 DEF Pushed, ScopeKinds, Kinds, DocKinds
  <2> QED
    BY <1>1, <1>3, <2>1, <2>3, <2>4, BufferTyped, EnterInstead
<1>10. CASE ReturnSearch
  <2>1. OthersTyped' /\ UNCHANGED swallowed /\ Top.kind = "search"
    BY <1>2, <1>10 DEF ReturnSearch, OthersTyped, KeepSessions, Returned
  <2>2. CASE Leave /\ UNCHANGED sessions
    BY <1>5, <2>1, <2>2
  <2>3. CASE Enter(AllButLast(frames), "result", Append(open, Buffer), sessions,
                   scopes + 1, includes, 0)
    <3>1. OpenBelow = open
      BY <2>1 DEF OpenBelow, DocKinds
    <3>2. /\ scopes + 1 + Pushed(Top.kind, "scopes") = scopes + Pushed("result", "scopes")
          /\ Top.kind \notin {"top", "session", "include"}
          /\ "result" \in Kinds \ {"top", "session", "include"}
      BY <1>3, <2>1 DEF Pushed, ScopeKinds, Kinds, DocKinds
    <3>3. scopes + 1 \in Nat
      BY <1>3
    <3> QED
      BY <1>1, <2>1, <2>3, <3>1, <3>2, <3>3, BufferTyped, EnterInstead
  <2> QED
    BY <1>10, <2>2, <2>3 DEF ReturnSearch
<1>11. CASE ReturnUpdate
  <2>1. UNCHANGED <<opened, consumed, single, swallowed>> /\ Top.kind = "update"
    BY <1>11 DEF ReturnUpdate, Returned
  <2>2. OthersTyped'
    <3>1. session' \in [1 .. MaxSessions -> Session]
      <4>1. CASE UNCHANGED session
        BY <1>3, <4>1
      <4>2. ASSUME sessions # <<>>, NEW holds \in {"pending", "committed"},
                   session' = [session EXCEPT ![Innermost].holds = holds]
            PROVE  session' \in [1 .. MaxSessions -> Session]
        BY <1>3, <1>4, <4>2 DEF Session, Holds
      <4> QED
        BY <1>11, <4>1, <4>2 DEF ReturnUpdate, WriteRecords
    <3> QED
      BY <1>2, <2>1, <3>1 DEF OthersTyped
  <2>3. CASE Leave /\ UNCHANGED sessions
    BY <1>5, <2>1, <2>2, <2>3
  <2>4. CASE Enter(AllButLast(frames), "on", Append(open, Buffer), sessions,
                   scopes + 1, includes, 0)
    <3>1. OpenBelow = open
      BY <2>1 DEF OpenBelow, DocKinds
    <3>2. /\ scopes + 1 + Pushed(Top.kind, "scopes") = scopes + Pushed("on", "scopes")
          /\ Top.kind \notin {"top", "session", "include"}
          /\ "on" \in Kinds \ {"top", "session", "include"}
      BY <1>3, <2>1 DEF Pushed, ScopeKinds, Kinds, DocKinds
    <3>3. scopes + 1 \in Nat
      BY <1>3
    <3> QED
      BY <1>1, <2>1, <2>2, <2>4, <3>1, <3>2, <3>3, BufferTyped, EnterInstead
  <2> QED
    BY <1>11, <2>3, <2>4 DEF ReturnUpdate
<1>12. CASE UpdateRejected
  <2>1. /\ OthersTyped' /\ UNCHANGED <<swallowed, open, sessions, scopes, includes>>
        /\ Top.kind = "update"
        /\ frames' = AllButLast(frames) /\ mode' = "raising"
    BY <1>2, <1>12 DEF UpdateRejected, OthersTyped, KeepSessions, Returned
  <2>2. MarksKept(Len(frames) - 1, open')
    <3>1. OpenBelow = open
      BY <2>1 DEF OpenBelow, DocKinds
    <3> QED
      BY <1>1, <2>1, <3>1, OpenBelowKeeps
  <2>3. SessionPopped
    BY <1>3, <2>1 DEF SessionPopped
  <2>4. \A k \in Stacks :
           /\ Top.given[k] <= Heights(sessions, scopes, includes)'[k]
                                + Pushed(Top.kind, k)
           /\ ~ Clean'
    <3> TAKE k \in Stacks
    <3>1. Heights(sessions, scopes, includes)' = Heights(sessions, scopes, includes)
      BY <2>1 DEF Heights
    <3>2. Pushed(Top.kind, k) = 0
      BY <2>1 DEF Pushed, ScopeKinds
    <3> QED
      BY <1>1, <2>1, <3>1, <3>2, PushedIsThere DEF Clean
  <2>5. Len(frames) # 1 /\ mode' \in Modes
    BY <1>2, <2>1 DEF StackInduction, OneTop, Modes
  <2> QED
    BY <1>2, <1>3, <2>1, <2>2, <2>3, <2>4, <2>5, PopKeeps
<1>13. CASE ReturnNarrow
  <2>1. OthersTyped' /\ UNCHANGED swallowed /\ Top.kind = "narrow"
    BY <1>2, <1>13 DEF ReturnNarrow, OthersTyped, KeepSessions, Returned
  <2>2. OpenBelow = open
    BY <2>1 DEF OpenBelow, DocKinds
  <2>3. Enter(AllButLast(frames), "conditions", Append(OpenBelow, Buffer), sessions,
              scopes, includes, 0)
    BY <1>13, <2>2 DEF ReturnNarrow
  <2>4. /\ scopes + Pushed(Top.kind, "scopes") = scopes + Pushed("conditions", "scopes")
        /\ Top.kind \notin {"top", "session", "include"}
        /\ "conditions" \in Kinds \ {"top", "session", "include"}
    BY <2>1 DEF Pushed, ScopeKinds, Kinds, DocKinds
  <2> QED
    BY <1>1, <1>3, <2>1, <2>3, <2>4, BufferTyped, EnterInstead
<1> QED
  BY <1>6, <1>7, <1>8, <1>9, <1>10, <1>11, <1>12, <1>13 DEF Return

\* An error leaves a call.
LEMMA UnwindKeeps == ASSUME StackInduction, Unwind PROVE StackInduction'
<1>1. mode = "raising"
  BY DEF Unwind
<1>2. /\ frames # <<>> /\ frames \in Seq(Frame) /\ Len(frames) \in Nat \ {0}
      /\ Top = frames[Len(frames)] /\ Top \in Frame /\ OthersTyped
  BY <1>1, Running
<1>3. /\ scopes \in Nat /\ includes \in Nat
      /\ sessions \in Seq(1 .. MaxSessions) /\ Len(sessions) \in Nat
  BY LenProperties DEF StackInduction, TypeOK
<1>4. /\ frames' = AllButLast(frames)
      /\ UNCHANGED <<sessions, includes, opened, session, consumed, single>>
  BY DEF Unwind
<1>5. MarksKept(Len(frames) - 1, open')
  BY <1>1, OpenBelowKeeps DEF Unwind
<1>6. OthersTyped' /\ (swallowed' = 0 => swallowed = 0)
  BY <1>2, <1>4 DEF Unwind, OthersTyped
<1>7. SessionPopped
  BY <1>3, <1>4 DEF SessionPopped
<1>8. /\ mode' \in Modes /\ (mode' \in {"done", "failed"} <=> Len(frames) = 1)
      /\ ~ (Clean' /\ mode' # "failed")
  <2>1. CASE Len(frames) = 1
    BY <2>1 DEF Unwind, Modes, Depth
  <2>2. CASE Len(frames) # 1 /\ Top.kind \in Swallowers
    <3>1. mode' = "reading" /\ swallowed' = swallowed + 1
      BY <2>2 DEF Unwind, Depth
    <3>2. swallowed' # 0
      BY <1>2, <3>1 DEF OthersTyped
    <3> QED
      BY <2>2, <3>1, <3>2 DEF Modes, Clean
  <2>3. CASE Len(frames) # 1 /\ Top.kind \notin Swallowers
    <3>1. mode' = "raising"
      BY <2>3 DEF Unwind, Depth
    <3> QED
      BY <2>3, <3>1 DEF Modes, Clean
  <2> QED
    BY <2>1, <2>2, <2>3
<1>9. scopes' \in Nat /\ scopes <= scopes' + Pushed(Top.kind, "scopes")
  <2>1. "scopes" \in Stacks /\ Heights(sessions, scopes, includes)["scopes"] = scopes
    BY DEF Heights, Stacks
  <2>2. Pushed(Top.kind, "scopes") <= scopes
    BY <1>1, <2>1, PushedIsThere
  <2> QED
    BY <1>3, <2>2 DEF Unwind, Pushed, CleanScopeKinds, ScopeKinds
<1>10. \A k \in Stacks :
          Top.given[k] <= Heights(sessions, scopes, includes)'[k] + Pushed(Top.kind, k)
  <2> TAKE k \in Stacks
  <2>1. /\ Heights(sessions, scopes, includes)[k] \in Nat /\ Top.given[k] \in Nat
        /\ Top.given[k] <= Heights(sessions, scopes, includes)[k]
    BY <1>1, PushedIsThere
  <2>2. /\ Heights(sessions, scopes, includes)'[k] \in Nat
        /\ Heights(sessions, scopes, includes)[k]
             <= Heights(sessions, scopes, includes)'[k] + Pushed(Top.kind, k)
    BY <1>3, <1>4, <1>9 DEF Heights, Stacks, Pushed
  <2>3. Pushed(Top.kind, k) \in {0, 1}
    BY DEF Pushed
  <2> QED
    BY <2>1, <2>2, <2>3
<1> QED
  BY <1>2, <1>3, <1>4, <1>5, <1>6, <1>7, <1>8, <1>9, <1>10, PopKeeps

LEMMA InitInduction == Init => StackInduction
<1> SUFFICES ASSUME Init PROVE StackInduction
  OBVIOUS
<1> DEFINE e == NewFrame("top", <<Buffer>>, <<>>, 1, 0, 0)
<1>1. e \in Frame
  <2>1. Heights(<<>>, 1, 0) \in [Stacks -> Nat]
    BY EmptySeq DEF Heights, Stacks
  <2>2. 0 \in 0 .. MaxDeps /\ 0 \in 0 .. MaxSessions
    BY ParserBounds
  <2> QED
    BY <2>1, <2>2 DEF NewFrame, Frame, Kinds, DocKinds
<1>2. /\ e.kind = "top" /\ e.mark = 1 /\ e.given = Heights(<<>>, 1, 0)
  BY DEF NewFrame
<1> HIDE DEF e
<1>3. /\ frames = <<e>> /\ Len(frames) = 1 /\ frames[1] = e /\ Top = e
      /\ frames # <<>>
  BY DEF Init, e, Top, Depth
<1>4. /\ open \in Seq(Element) /\ Len(open) = 1 /\ open[1].tag = "document"
  BY BufferTyped DEF Init
<1>5. TypeOK
  <2>1. frames \in Seq(Frame) /\ Len(frames) \in 0 .. MaxFrames
    BY <1>1, <1>3, ParserBounds
  <2>2. session \in [1 .. MaxSessions -> Session]
    BY DEF Init, Session, OnClose, Holds
  <2>3. opened \in 0 .. MaxSessions /\ sessions \in Seq(1 .. MaxSessions)
    BY ParserBounds, EmptySeq DEF Init
  <2> QED
    BY <1>4, <2>1, <2>2, <2>3 DEF TypeOK, Init, Modes
<1>6. RunEnds /\ OneTop /\ Marked
  BY <1>2, <1>3, <1>4 DEF RunEnds, OneTop, Marked, Init
<1>7. Stacked /\ Tight /\ Owned
  BY <1>2, <1>3 DEF Stacked, Tight, Owned
<1>8. NoUnderflow /\ Balanced
  <2>1. Heights(sessions, scopes, includes) = Top.given
    BY <1>2, <1>3 DEF Init
  <2>2. \A k \in Stacks : Top.given[k] \in Nat
    BY <1>1, <1>3 DEF Frame
  <2> QED
    BY <1>2, <1>3, <2>1, <2>2 DEF Init, NoUnderflow, Balanced
<1> QED
  BY <1>5, <1>6, <1>7, <1>8 DEF StackInduction

LEMMA StutterKeeps == ASSUME StackInduction, UNCHANGED vars PROVE StackInduction'
<1>1. TypeOK' /\ RunEnds' /\ OneTop' /\ Marked'
  BY DEF StackInduction, TypeOK, RunEnds, OneTop, Marked, vars
<1>2. Stacked' /\ Tight' /\ Owned'
  BY DEF StackInduction, Stacked, Tight, Owned, vars
<1>3. NoUnderflow' /\ Balanced'
  BY DEF StackInduction, NoUnderflow, Balanced, Heights, Clean, Innermost, Top,
     Depth, vars
<1> QED
  BY <1>1, <1>2, <1>3 DEF StackInduction

LEMMA NextInduction == StackInduction /\ [Next]_vars => StackInduction'
  BY TokenKeeps, ScanTokenKeeps, ReturnKeeps, UnwindKeeps, StutterKeeps
     DEF Next, Ended

\* For every vocabulary and every bound, the induction holds in every state of
\* every run of the interpreter.
THEOREM StacksInvariant == Spec => []StackInduction
  BY InitInduction, NextInduction, PTL DEF Spec

\* The state of the interpreter keeps its type.
THEOREM ParserTyped == Spec => []TypeOK
<1>1. StackInduction => TypeOK
  BY DEF StackInduction
<1> QED
  BY <1>1, StacksInvariant, PTL

\* No handler pops what a caller pushed, however deep the calls and however
\* many errors were swallowed.
THEOREM NothingUnderflows == Spec => []NoUnderflow
<1>1. StackInduction => NoUnderflow
  BY DEF StackInduction
<1> QED
  BY <1>1, StacksInvariant, PTL

\* Until an error is swallowed, every call finds the three stacks as it was
\* given them and the session closed at the end of a wd:session is its own.
THEOREM StacksBalanced == Spec => []Balanced
<1>1. StackInduction => Balanced
  BY DEF StackInduction
<1> QED
  BY <1>1, StacksInvariant, PTL

-----------------------------------------------------------------------------
(* What becomes of sessions *)

LEMMA ClosingKeeps ==
    ASSUME StackInduction, SessionsClosedAsAsked, [Next]_vars
    PROVE  SessionsClosedAsAsked'
<1>1. /\ sessions \in Seq(1 .. MaxSessions) /\ Len(sessions) \in Nat
      /\ session \in [1 .. MaxSessions -> Session]
      /\ opened \in 0 .. MaxSessions /\ MaxSessions \in Nat
  BY LenProperties, ParserBounds DEF StackInduction, TypeOK
<1>2. sessions # <<>> =>
         Innermost \in 1 .. MaxSessions /\ Len(sessions) \in 1 .. Len(sessions)
  BY <1>1, FrontProperties DEF Innermost
<1>3. CASE UNCHANGED <<sessions, session, opened>>
  BY <1>3 DEF SessionsClosedAsAsked, OnStack, ClosedAsAsked
<1>4. CASE SessionStart
  <2>1. /\ opened' = opened + 1 /\ opened + 1 \in 1 .. MaxSessions
        /\ sessions' = Append(sessions, opened + 1)
    BY <1>1, <1>4 DEF SessionStart, Enter
  <2>2. /\ Len(sessions') = Len(sessions) + 1
        /\ \A j \in 1 .. Len(sessions) : sessions'[j] = sessions[j]
        /\ sessions'[Len(sessions) + 1] = opened + 1
    BY <1>1, <2>1, PushProperties
  <2>3. \A i \in 1 .. opened : session'[i] = session[i]
    BY <1>1, <1>4, <2>1 DEF SessionStart
  <2> SUFFICES ASSUME NEW i \in 1 .. opened + 1 PROVE (OnStack(i) \/ ClosedAsAsked(i))'
    BY <2>1 DEF SessionsClosedAsAsked
  <2>4. CASE i \in 1 .. opened /\ OnStack(i)
    <3>1. PICK j \in 1 .. Len(sessions) : sessions[j] = i
      BY <2>4 DEF OnStack
    <3>2. j \in 1 .. Len(sessions') /\ sessions'[j] = i
      BY <1>1, <2>2, <3>1
    <3> QED
      BY <3>2 DEF OnStack
  <2>5. CASE i \in 1 .. opened /\ ClosedAsAsked(i)
    BY <2>3, <2>5 DEF ClosedAsAsked
  <2>6. CASE i = opened + 1
    <3>1. Len(sessions) + 1 \in 1 .. Len(sessions')
      BY <1>1, <2>2
    <3> QED
      BY <2>2, <2>6, <3>1 DEF OnStack
  <2> QED
    BY <1>1, <2>4, <2>5, <2>6 DEF SessionsClosedAsAsked
<1>5. ASSUME sessions # <<>>, sessions' = AllButLast(sessions), UNCHANGED opened,
             session' = [session EXCEPT ![Innermost].holds = Closing(session[Innermost])]
      PROVE  SessionsClosedAsAsked'
  <2>1. /\ Len(sessions') = Len(sessions) - 1
        /\ \A j \in 1 .. Len(sessions) - 1 : sessions'[j] = sessions[j]
    BY <1>1, <1>5, FrontProperties
  <2> SUFFICES ASSUME NEW i \in 1 .. opened PROVE (OnStack(i) \/ ClosedAsAsked(i))'
    BY <1>5 DEF SessionsClosedAsAsked
  <2>2. i \in 1 .. MaxSessions
    BY <1>1
  <2>3. CASE i = Innermost
    <3>1. /\ session'[i].onClose = session[i].onClose
          /\ session'[i].holds = Closing(session[i])
      BY <1>1, <1>5, <2>2, <2>3 DEF Session
    <3> QED
      BY <3>1 DEF ClosedAsAsked, Closing
  <2>4. CASE i # Innermost /\ OnStack(i)
    <3>1. PICK j \in 1 .. Len(sessions) : sessions[j] = i
      BY <2>4 DEF OnStack
    <3>2. j \in 1 .. Len(sessions') /\ sessions'[j] = i
      BY <1>1, <2>1, <2>4, <3>1 DEF Innermost
    <3> QED
      BY <3>2 DEF OnStack
  <2>5. CASE i # Innermost /\ ClosedAsAsked(i)
    <3>1. session'[i] = session[i]
      BY <1>1, <1>5, <2>2, <2>5
    <3> QED
      BY <2>5, <3>1 DEF ClosedAsAsked
  <2> QED
    BY <2>3, <2>4, <2>5 DEF SessionsClosedAsAsked
<1>6. CASE ReturnSession
  <2>1. CASE sessions = <<>>
    BY <1>3, <1>6, <2>1 DEF ReturnSession
  <2>2. CASE sessions # <<>>
    BY <1>5, <1>6, <2>2 DEF ReturnSession, SessionsPopped
  <2> QED
    BY <2>1, <2>2
<1>7. CASE ReturnUpdate
  <2>1. UNCHANGED <<sessions, opened>>
    BY <1>7 DEF ReturnUpdate, Enter
  <2>2. CASE UNCHANGED session
    BY <1>3, <2>1, <2>2
  <2>3. ASSUME sessions # <<>>, NEW holds,
               session' = [session EXCEPT ![Innermost].holds = holds]
        PROVE  SessionsClosedAsAsked'
    <3> SUFFICES ASSUME NEW i \in 1 .. opened PROVE (OnStack(i) \/ ClosedAsAsked(i))'
      BY <2>1 DEF SessionsClosedAsAsked
    <3>1. CASE i = Innermost
      BY <1>2, <2>1, <2>3, <3>1 DEF OnStack, Innermost
    <3>2. CASE i # Innermost
      <4>1. session'[i] = session[i]
        BY <1>1, <2>3, <3>2
      <4> QED
        BY <2>1, <4>1 DEF SessionsClosedAsAsked, OnStack, ClosedAsAsked
    <3> QED
      BY <3>1, <3>2
  <2> QED
    BY <1>7, <2>2, <2>3 DEF ReturnUpdate, WriteRecords
<1>8. CASE Token /\ ~ SessionStart
  BY <1>3, <1>8 DEF Token, HtmlStart, ValueStart, UnhandledStart, SkippedStart,
     Include, CountedStart, LoopStart, ScriptError, EndTag, EndOfBuffer, Enter,
     KeepSessions
<1>9. CASE ScanToken
  BY <1>3, <1>9 DEF ScanToken, ResultStart, StrayInSearch, ConditionStart,
     BranchTaken, CaseEndTag, BranchEntered, Enter, KeepSessions
<1>10. CASE ReturnPlain \/ LoopEnds \/ LoopAgain \/ ReturnRe \/ ReturnNarrow
             \/ ReturnSearch \/ UpdateRejected
  BY <1>3, <1>10 DEF ReturnPlain, LoopEnds, LoopAgain, ReturnRe, ReturnNarrow,
     ReturnSearch, UpdateRejected, Enter, KeepSessions
<1>11. CASE Unwind \/ Ended \/ UNCHANGED vars
  BY <1>3, <1>11 DEF Unwind, Ended, vars
<1> QED
  BY <1>4, <1>6, <1>7, <1>8, <1>9, <1>10, <1>11 DEF Next, Return

\* A session that has left the stack was committed or cleared as its own
\* element asked, through whichever call's end it left.
THEOREM SessionsClosed == Spec => []SessionsClosedAsAsked
<1>1. Init => SessionsClosedAsAsked
  BY DEF Init, SessionsClosedAsAsked
<1> QED
  BY <1>1, StacksInvariant, ClosingKeeps, PTL DEF Spec

=============================================================================
