------------------------------- MODULE Parser -------------------------------
(***************************************************************************)
(* One run of the template interpreter (wild-doc/src/parser.rs and the     *)
(* handlers beside it) as a pushdown machine.  The document is not stored: *)
(* each step chooses the next token, so a behaviour is a document together *)
(* with the choices its scripts make while it is interpreted.              *)
(*                                                                         *)
(* The code recurses: the handler of an element calls parse() on the rest  *)
(* of the same buffer and relies on that call to return at the element's   *)
(* end tag.  A frame is one active call; parse() decides that it is at its *)
(* end tag with a counter of its own, deps.                                *)
(***************************************************************************)
EXTENDS Integers, Sequences

CONSTANTS
    Constructs,     \* what the documents are written with
    MaxFrames,      \* bound: nested calls of the interpreter
    MaxDeps,        \* bound: the value of a frame's counter
    MaxOpen,        \* bound: start tags still open when another one is read
    MaxSessions,    \* bound: wd:session elements that open a session
    MaxErrors       \* bound: errors swallowed by a handler

Vocabulary ==
    {"html", "value", "unhandled", "include", "skipped", "session", "element",
     "scope", "sort", "re", "update", "search", "narrow", "join", "case", "for",
     "while", "error"}

ASSUME ParserBounds ==
    /\ Constructs \subseteq Vocabulary
    /\ MaxFrames \in Nat \ {0}
    /\ MaxOpen \in Nat \ {0}
    /\ {MaxDeps, MaxSessions, MaxErrors} \subseteq Nat

VARIABLES
    mode,       \* what the interpreter is doing
    frames,     \* active calls, outermost first
    open,       \* history: elements whose end tag is still ahead, with a
                \* "document" entry where a buffer begins
    sessions,   \* Parser.sessions, as the numbers of the sessions
    scopes,     \* Parser.stack.len(): scopes of variables
    includes,   \* Parser.include_stack.len()
    opened,     \* history: the number of sessions this run has opened
    session,    \* each of them: what its element asks for, what it holds
    consumed,   \* history: every element so far was read by one call
    single,     \* history: ... and had at most one child that counts
    swallowed   \* history: errors a handler discarded

vars == <<mode, frames, open, sessions, scopes, includes, opened,
          session, consumed, single, swallowed>>

Modes == {"reading", "returning", "raising", "done", "failed"}

\* Calls that start a buffer of their own, and calls that read the caller's.
DocKinds == {"top", "include", "reout", "conditions", "for", "while", "on",
             "result"}
InnerKinds == {"element", "session", "scope", "sort", "re", "update",
               "search", "narrow", "join", "case"}
Kinds == DocKinds \cup InnerKinds

\* condition_loop() and case() scan tokens themselves instead of parse().
Scanners == {"search", "join", "conditions", "case"}

\* Calls made after a push on the variable stack.
ScopeKinds == {"scope", "sort", "for", "on", "result"}
\* Mutant: a failing narrow pops a scope that nobody pushed.
CleanScopeKinds_Narrow == {"sort", "result", "narrow"}
\* Those of ScopeKinds that pop it on the error path too.
CleanScopeKinds == {"sort", "result"}
\* Callers that turn an error of the call into "no output".
Swallowers == {"update", "narrow"}

Tags == {"document", "session", "case", "other"}
OnClose == {"commit", "clear", "keep"}
Holds == {"nothing", "pending", "committed", "cleared"}

\* The heights of the three stacks; a frame records those its call was given.
Stacks == {"sessions", "scopes", "includes"}
Heights(ss, sc, inc) ==
    [k \in Stacks |-> CASE k = "sessions" -> Len(ss)
                        [] k = "scopes" -> sc
                        [] k = "includes" -> inc]

Frame == [kind : Kinds, deps : 0 .. MaxDeps, chosen : BOOLEAN,
          mark : Nat \ {0}, sid : 0 .. MaxSessions, given : [Stacks -> Nat]]
Session == [onClose : OnClose, holds : Holds]
Element == [tag : Tags, sid : 0 .. MaxSessions]

TypeOK ==
    /\ mode \in Modes
    /\ frames \in Seq(Frame)
    /\ Len(frames) \in 0 .. MaxFrames
    /\ open \in Seq(Element)
    /\ sessions \in Seq(1 .. MaxSessions)
    /\ scopes \in Nat
    /\ includes \in Nat
    /\ opened \in 0 .. MaxSessions
    /\ session \in [1 .. MaxSessions -> Session]
    /\ consumed \in BOOLEAN
    /\ single \in BOOLEAN
    /\ swallowed \in Nat

-----------------------------------------------------------------------------
(* Frames *)

Depth == Len(frames)
Top == frames[Depth]
Innermost == sessions[Len(sessions)]

Elem(tag, sid) == [tag |-> tag, sid |-> sid]
Buffer == Elem("document", 0)
AllButLast(s) == SubSeq(s, 1, Len(s) - 1)

\* A call has just been entered with these stacks; it finds them as they are.
NewFrame(kind, elements, ss, sc, inc, sid) ==
    [kind |-> kind, deps |-> 0, chosen |-> FALSE, mark |-> Len(elements),
     sid |-> sid, given |-> Heights(ss, sc, inc)]

\* The caller's frame after a start tag that it counts.
Counted == [frames EXCEPT ![Depth].deps = @ + 1]
MayCount == Top.deps < MaxDeps
MayOpen == Len(open) < MaxOpen
\* Only a buffer, which has no end tag, is read right with a second such child.
StaysSingle == single /\ (Top.kind \in DocKinds \/ Top.deps = 0)
\* The shape of the document so far, after a start tag that is counted or not,
\* consumed or not.
Shape(counts, consumes) ==
    /\ consumed' = (consumed /\ consumes)
    /\ single' = IF counts THEN StaysSingle ELSE single

\* Enter a call of the given kind above the frames fs.
Enter(fs, kind, elements, ss, sc, inc, sid) ==
    /\ Len(fs) < MaxFrames
    /\ frames' = Append(fs, NewFrame(kind, elements, ss, sc, inc, sid))
    /\ open' = elements
    /\ sessions' = ss
    /\ scopes' = sc
    /\ includes' = inc
    /\ mode' = "reading"

\* What is still ahead once the top call is gone: the rest of the buffer it
\* started, if it started one, is never read.
OpenBelow ==
    IF Top.kind \in DocKinds THEN SubSeq(open, 1, Top.mark - 1) ELSE open

Parsing == mode = "reading" /\ Top.kind \notin Scanners
InConditions == mode = "reading" /\ Top.kind \in {"search", "join", "conditions"}
InCase == mode = "reading" /\ Top.kind = "case"

Init ==
    /\ mode = "reading"
    /\ open = <<Buffer>>
    /\ sessions = <<>>
    /\ scopes = 1
    /\ includes = 0
    /\ frames = <<NewFrame("top", <<Buffer>>, <<>>, 1, 0, 0)>>
    /\ opened = 0
    /\ session = [i \in 1 .. MaxSessions |->
                    [onClose |-> "keep", holds |-> "nothing"]]
    /\ consumed = TRUE
    /\ single = TRUE
    /\ swallowed = 0

-----------------------------------------------------------------------------
(* Tokens met by parse() *)

Uses(construct) == construct \in Constructs

\* Sessions change only when one is opened, written, committed or cleared.
KeepSessions == UNCHANGED <<session, opened, swallowed>>

\* An element outside the wd namespace: its handler does not count it.
HtmlStart ==
    /\ Uses("html") /\ Parsing /\ MayOpen
    /\ Enter(frames, "element", Append(open, Elem("other", 0)),
             sessions, scopes, includes, 0)
    /\ UNCHANGED <<consumed, single>> /\ KeepSessions

\* wd:print, wd:print_escape_html or wd:noparse_include written as a start
\* tag: the value is the element's output and nothing consumes the element.
ValueStart ==
    /\ Uses("value") /\ Parsing
    /\ MayOpen
    /\ open' = Append(open, Elem("other", 0))
    /\ Shape(FALSE, FALSE)
    /\ UNCHANGED <<mode, frames, sessions, scopes, includes>> /\ KeepSessions

\* wd:result_option, wd:delete_collection, wd:session_gc or an unknown name
\* written as a start tag: counted, and nothing consumes the element.
UnhandledStart ==
    /\ Uses("unhandled") /\ Parsing /\ MayCount
    /\ MayOpen
    /\ frames' = Counted
    /\ open' = Append(open, Elem("other", 0))
    /\ Shape(TRUE, FALSE)
    /\ UNCHANGED <<mode, sessions, scopes, includes>> /\ KeepSessions

\* wd:include, as an empty element or (leaving its own end tag unread) as a
\* start tag, when the adaptor finds a document that is not empty.
Include(asStart) ==
    LET here == IF asStart THEN Append(open, Elem("other", 0)) ELSE open IN
    /\ Uses("include") /\ Parsing /\ MayOpen
    /\ Enter(frames, "include", Append(here, Buffer), sessions, scopes,
             includes + 1, 0)
    /\ Shape(FALSE, ~asStart)
    /\ KeepSessions

\* wd:comment, wd:letitgo, wd:on, an unmatched wd:if, a wd:for over nothing, a
\* wd:while that stops at once, a wd:search of an unknown collection: to_end()
\* skips the element.
SkippedStart ==
    /\ Uses("skipped") /\ Parsing /\ MayCount
    /\ frames' = Counted
    /\ Shape(TRUE, TRUE)
    /\ UNCHANGED <<mode, open, sessions, scopes, includes>> /\ KeepSessions

\* wd:session with a name; commit_on_close wins over clear_on_close.
SessionStart ==
    /\ Uses("session") /\ Parsing /\ MayCount /\ MayOpen
    /\ opened < MaxSessions
    /\ opened' = opened + 1
    /\ \E onClose \in OnClose :
          session' = [session EXCEPT ![opened + 1].onClose = onClose]
    /\ Enter(Counted, "session", Append(open, Elem("session", opened + 1)),
             Append(sessions, opened + 1), scopes, includes, opened + 1)
    /\ Shape(TRUE, TRUE)
    /\ UNCHANGED swallowed

\* Counted elements whose content one call of the handler reads: wd:tag, a
\* matched wd:if, wd:session without a name ("element"); wd:var, wd:record,
\* wd:sessions, wd:session_sequence_cursor and wd:collections ("scope");
\* wd:sort; wd:re; wd:update; wd:search and wd:case, which scan it themselves.
CountedStart(kind) ==
    /\ Uses(kind) /\ Parsing /\ MayCount /\ MayOpen
    /\ Enter(Counted, kind,
             Append(open, Elem(IF kind = "case" THEN "case" ELSE "other", 0)),
             sessions, IF kind \in ScopeKinds THEN scopes + 1 ELSE scopes,
             includes, 0)
    /\ Shape(TRUE, TRUE)
    /\ KeepSessions

\* wd:for and wd:while cut their content out and interpret it as a buffer.
LoopStart(kind) ==
    /\ Uses(kind) /\ Parsing /\ MayCount /\ MayOpen
    /\ Enter(Counted, kind, Append(open, Buffer), sessions,
             IF kind = "for" THEN scopes + 1 ELSE scopes, includes, 0)
    /\ Shape(TRUE, TRUE)
    /\ KeepSessions

\* A processing instruction whose script fails.
ScriptError ==
    /\ Uses("error") /\ Parsing
    /\ swallowed < MaxErrors
    /\ mode' = "raising"
    /\ UNCHANGED <<frames, open, sessions, scopes, includes, consumed, single>>
    /\ KeepSessions

\* Mutants: the counter must be negative, or exactly zero, at the end tag.
EndsCall_Negative(deps) == deps < 0
EndsCall_Zero(deps) == deps = 0
EndsCall(deps) == deps <= 0

\* An end tag, as parse() and condition_loop() read it.
EndTag ==
    /\ mode = "reading" /\ Top.kind # "case"
    /\ open[Len(open)].tag # "document"
    /\ open' = AllButLast(open)
    /\ IF EndsCall(Top.deps - 1)
          THEN mode' = "returning" /\ UNCHANGED frames
          ELSE frames' = [frames EXCEPT ![Depth].deps = @ - 1] /\ UNCHANGED mode
    /\ UNCHANGED <<sessions, scopes, includes, consumed, single>> /\ KeepSessions

\* The end of the buffer ends every call that reads it.
EndOfBuffer ==
    /\ mode = "reading"
    /\ open[Len(open)] = Buffer
    /\ mode' = "returning"
    /\ UNCHANGED <<frames, open, sessions, scopes, includes, consumed, single>>
    /\ KeepSessions

-----------------------------------------------------------------------------
(* Tokens met by search() in condition_loop(), which counts every start tag *)

\* A result element: to_end() skips it, search() interprets it afterwards.
ResultStart ==
    /\ InConditions /\ MayCount
    /\ frames' = [Counted EXCEPT ![Depth].chosen = TRUE]
    /\ Shape(TRUE, TRUE)
    /\ UNCHANGED <<mode, open, sessions, scopes, includes>> /\ KeepSessions

\* A narrow element, whose content parse() reads first, or a join, which is
\* scanned in its turn.
ConditionStart(kind) ==
    /\ Uses(kind) /\ InConditions /\ MayCount /\ MayOpen
    /\ Enter(Counted, kind, Append(open, Elem("other", 0)), sessions,
             scopes, includes, 0)
    /\ Shape(TRUE, TRUE)
    /\ KeepSessions

\* Any other start tag is counted and not consumed.
StrayInSearch ==
    /\ Uses("unhandled") /\ InConditions /\ MayCount
    /\ MayOpen
    /\ frames' = Counted
    /\ open' = Append(open, Elem("other", 0))
    /\ Shape(TRUE, FALSE)
    /\ UNCHANGED <<mode, sessions, scopes, includes>> /\ KeepSessions

-----------------------------------------------------------------------------
(* Tokens met by case(), which stops at the first wd:case end tag *)

\* A wd:when that matches, or the wd:else of a case without a match so far.
BranchTaken ==
    /\ InCase /\ MayOpen
    /\ Enter([frames EXCEPT ![Depth].chosen = TRUE], "element",
             Append(open, Elem("other", 0)), sessions, scopes, includes, 0)
    /\ UNCHANGED <<consumed, single>> /\ KeepSessions

\* A wd:when that does not match is skipped only while nothing has matched;
\* after that the scan goes on inside it, as it does inside any other element.
BranchEntered(tag) ==
    /\ Uses("unhandled") /\ InCase
    /\ MayOpen
    /\ open' = Append(open, Elem(tag, 0))
    /\ Shape(FALSE, FALSE)
    /\ UNCHANGED <<mode, frames, sessions, scopes, includes>> /\ KeepSessions

CaseEndTag ==
    /\ InCase
    /\ open[Len(open)].tag # "document"
    /\ open' = AllButLast(open)
    /\ mode' = IF open[Len(open)].tag = "case" THEN "returning" ELSE mode
    /\ UNCHANGED <<frames, sessions, scopes, includes, consumed, single>> /\ KeepSessions

-----------------------------------------------------------------------------
(* What a handler does when the call it made returns *)

Returned(kinds) == mode = "returning" /\ Top.kind \in kinds

\* Mutants: the scope of a search result, or of a wd:for, stays on the stack.
ScopesPopped_NotResult ==
    IF Top.kind \in ScopeKinds \ {"result"} THEN scopes - 1 ELSE scopes
ScopesPopped_NotFor ==
    IF Top.kind \in ScopeKinds \ {"for"} THEN scopes - 1 ELSE scopes
ScopesPopped ==
    IF Top.kind \in ScopeKinds THEN scopes - 1 ELSE scopes

\* Leave the top call, pop what its handler pushed, go on in its caller.
Leave ==
    /\ frames' = AllButLast(frames)
    /\ open' = OpenBelow
    /\ scopes' = ScopesPopped
    /\ includes' = IF Top.kind = "include" THEN includes - 1 ELSE includes
    /\ mode' = IF Depth = 1 THEN "done" ELSE "reading"

\* The handlers that have nothing more to do, of the run itself too.
ReturnPlain ==
    /\ Returned({"top", "element", "case", "reout", "conditions", "join", "include",
                 "scope", "sort", "on", "result"})
    /\ Leave
    /\ UNCHANGED <<sessions, consumed, single>> /\ KeepSessions

\* Mutant: commit_on_close is forgotten.
Closing_NoCommit(s) ==
    IF s.onClose = "clear" THEN "cleared" ELSE s.holds
Closing(s) ==
    CASE s.onClose = "commit" -> "committed"
      [] s.onClose = "clear" -> "cleared"
      [] OTHER -> s.holds

\* Mutants: a session that is kept stays on the stack; every session leaves it.
SessionsPopped_NotKept ==
    IF session[Innermost].onClose = "keep" THEN sessions ELSE AllButLast(sessions)
SessionsPopped_All == <<>>
SessionsPopped == AllButLast(sessions)

\* wd:session: the innermost session is popped and committed or cleared.
ReturnSession ==
    /\ Returned({"session"})
    /\ Leave
    /\ IF sessions = <<>>
          THEN UNCHANGED <<sessions, session>>
          ELSE /\ sessions' = SessionsPopped
               /\ session' = [session EXCEPT ![Innermost].holds =
                     Closing(session[Innermost])]
    /\ UNCHANGED <<opened, consumed, single, swallowed>>

\* wd:for and wd:while stop ...
LoopEnds ==
    /\ Returned({"for", "while"})
    /\ Leave
    /\ UNCHANGED <<sessions, consumed, single>> /\ KeepSessions

\* ... or interpret their content again, wd:for in a new scope.
LoopAgain ==
    /\ Returned({"for", "while"})
    /\ Enter(AllButLast(frames), Top.kind, Append(OpenBelow, Buffer), sessions,
             scopes, includes, 0)
    /\ UNCHANGED <<consumed, single>> /\ KeepSessions

\* wd:re interprets its own output.
ReturnRe ==
    /\ Returned({"re"})
    /\ Enter(AllButLast(frames), "reout", Append(open, Buffer), sessions,
             scopes, includes, 0)
    /\ UNCHANGED <<consumed, single>> /\ KeepSessions

\* condition_loop() scans the output of a narrow, which can hold a narrow in turn.
ReturnNarrow ==
    /\ Returned({"narrow"})
    /\ Enter(AllButLast(frames), "conditions", Append(open, Buffer), sessions,
             scopes, includes, 0)
    /\ UNCHANGED <<consumed, single>> /\ KeepSessions

\* wd:search runs and interprets its result element in a new scope.
ReturnSearch ==
    /\ Returned({"search"})
    /\ IF Top.chosen
          THEN Enter(AllButLast(frames), "result", Append(open, Buffer),
                     sessions, scopes + 1, includes, 0)
          ELSE Leave /\ UNCHANGED sessions
    /\ UNCHANGED <<consumed, single>> /\ KeepSessions

\* wd:update: the content is interpreted; the records in the output go to the
\* innermost session, which attribute commit may commit, or straight to the
\* tables; a wd:on in the output is then interpreted in a new scope.
WriteRecords ==
    \/ UNCHANGED session
    \/ /\ sessions # <<>>
       /\ \E holds \in {"pending", "committed"} :
             session' = [session EXCEPT ![Innermost].holds = holds]

ReturnUpdate ==
    /\ Returned({"update"})
    /\ WriteRecords
    /\ \/ Leave /\ UNCHANGED sessions
       \/ Enter(AllButLast(frames), "on", Append(open, Buffer), sessions,
                scopes + 1, includes, 0)
    /\ UNCHANGED <<opened, consumed, single, swallowed>>

\* make_update_struct() rejects the records: a depend that does not exist, a
\* field that is not UTF-8, end tags that do not match.
UpdateRejected ==
    /\ Uses("error") /\ Returned({"update"})
    /\ swallowed < MaxErrors
    /\ frames' = AllButLast(frames)
    /\ mode' = "raising"
    /\ UNCHANGED <<open, sessions, scopes, includes, consumed, single>> /\ KeepSessions

-----------------------------------------------------------------------------
(* An error passes through the active calls, one caller at a time *)

\* Most handlers use "?" and leave their pushes behind; sort() and search()
\* pop their scope first; update() and a narrow discard the error and go on
\* with the token after the failure.
Unwind ==
    /\ mode = "raising"
    /\ frames' = AllButLast(frames)
    /\ open' = OpenBelow
    /\ scopes' = IF Top.kind \in CleanScopeKinds THEN scopes - 1 ELSE scopes
    /\ mode' = IF Depth = 1 THEN "failed"
               ELSE IF Top.kind \in Swallowers THEN "reading" ELSE "raising"
    /\ swallowed' = IF Top.kind \in Swallowers THEN swallowed + 1 ELSE swallowed
    /\ UNCHANGED <<sessions, includes, opened, session, consumed, single>>

Ended ==
    /\ mode \in {"done", "failed"}
    /\ UNCHANGED vars

Token ==
    \/ HtmlStart \/ ValueStart \/ UnhandledStart \/ SkippedStart
    \/ \E asStart \in BOOLEAN : Include(asStart)
    \/ SessionStart
    \/ \E kind \in {"element", "scope", "sort", "re", "update", "search", "case"} :
          CountedStart(kind)
    \/ \E kind \in {"for", "while"} : LoopStart(kind)
    \/ ScriptError \/ EndTag \/ EndOfBuffer

ScanToken ==
    \/ ResultStart \/ StrayInSearch
    \/ \E kind \in {"narrow", "join"} : ConditionStart(kind)
    \/ BranchTaken \/ CaseEndTag
    \/ \E tag \in {"other", "case"} : BranchEntered(tag)

Return ==
    \/ ReturnPlain \/ ReturnSession \/ LoopEnds \/ LoopAgain \/ ReturnRe
    \/ ReturnNarrow \/ ReturnSearch \/ ReturnUpdate \/ UpdateRejected

Next == Token \/ ScanToken \/ Return \/ Unwind \/ Ended

Spec == Init /\ [][Next]_vars
-----------------------------------------------------------------------------
(* Properties *)

Clean == swallowed = 0 /\ mode # "raising"

\* The stacks a call works on never fall below what they were when it was
\* made, the variable stack always holds the scope with the input, and a session
\* that is about to be closed is there to be popped: however an error is
\* swallowed and however far a call overruns its element, no handler pops what
\* a caller of it pushed (parser.rs:253,274, loop.rs:31, search.rs:80).
NoUnderflow ==
    /\ scopes >= 1
    /\ frames # <<>> =>
         \A k \in Stacks : Heights(sessions, scopes, includes)[k] >= Top.given[k]

\* As long as no error was swallowed, every call finds the three stacks exactly
\* as it was given them, so the session popped at the end of a wd:session is
\* the one its start tag pushed, and a finished run leaves nothing open.
Balanced ==
    Clean =>
      IF frames = <<>>
        THEN mode = "done" => sessions = <<>> /\ scopes = 1 /\ includes = 0
        ELSE /\ Heights(sessions, scopes, includes) = Top.given
             /\ Top.kind = "session" => Innermost = Top.sid

\* Why these hold: what successive calls were given grows by exactly what each
\* caller pushed, and by at least that once errors were swallowed.
Pushed(kind, k) ==
    IF \/ k = "sessions" /\ kind = "session"
       \/ k = "scopes" /\ kind \in ScopeKinds
       \/ k = "includes" /\ kind = "include"
    THEN 1 ELSE 0

RunEnds == frames = <<>> <=> mode \in {"done", "failed"}
OneTop ==
    \A i \in 1 .. Len(frames) :
       /\ frames[i].kind = "top" <=> i = 1
       /\ i = 1 => frames[i].given = Heights(<<>>, 1, 0)
Stacked ==
    \A i, j \in 1 .. Len(frames) : i < j =>
       \A k \in Stacks :
          frames[i].given[k] + Pushed(frames[j].kind, k) <= frames[j].given[k]
Tight ==
    swallowed = 0 => \A i \in 2 .. Len(frames) :
       \A k \in Stacks :
          frames[i].given[k] = frames[i - 1].given[k] + Pushed(frames[i].kind, k)
Owned ==
    swallowed = 0 => \A i \in 1 .. Len(frames) :
       frames[i].kind = "session" =>
          /\ frames[i].given["sessions"] \in 1 .. Len(sessions)
          /\ sessions[frames[i].given["sessions"]] = frames[i].sid

\* The buffers being read are nested like the calls that read them.
Marked ==
    \A i \in 1 .. Len(frames) : frames[i].kind \in DocKinds =>
       /\ frames[i].mark <= Len(open)
       /\ open[frames[i].mark].tag = "document"
       /\ \A j \in 1 .. i - 1 :
             frames[j].kind \in DocKinds => frames[j].mark < frames[i].mark

\* The induction behind NoUnderflow and Balanced.
StackInduction ==
    /\ TypeOK /\ RunEnds /\ OneTop /\ Marked
    /\ Stacked /\ Tight /\ Owned /\ NoUnderflow /\ Balanced

OnStack(i) == \E j \in 1 .. Len(sessions) : sessions[j] = i
ClosedAsAsked(i) ==
    /\ session[i].onClose = "commit" => session[i].holds = "committed"
    /\ session[i].onClose = "clear" => session[i].holds = "cleared"

\* A session that has left the stack was committed or cleared as its own element
\* asked, whichever element's end took it off, and no later update wrote to it
\* again (parser.rs:253-265, update.rs:113-129).
SessionsClosedAsAsked ==
    \A i \in 1 .. opened : OnStack(i) \/ ClosedAsAsked(i)

\* The sessions are those of the wd:session elements around the current token,
\* outermost first, which is the order they were opened in.
Enclosing == {open[j].sid : j \in {j \in 1 .. Len(open) : open[j].tag = "session"}}
SessionsEnclose ==
    /\ {sessions[i] : i \in 1 .. Len(sessions)} = Enclosing
    /\ \A i, j \in 1 .. Len(sessions) : i < j => sessions[i] < sessions[j]

\* In a document whose elements are each consumed once and have at most one
\* counted child, and as long as no error was swallowed, a call reads exactly
\* the tokens of its own element, and the sessions that updates and searches
\* see are those whose wd:session elements enclose the current token.
ScopeFollowsDocument ==
    consumed /\ single /\ Clean /\ mode = "reading" =>
      Top.mark = Len(open) /\ SessionsEnclose

\* What the repository's example expects of a session element with an update
\* and a search in it (tests/test1.rs:28-49): the session is in scope up to its
\* end tag and no further.
SessionEndsAtItsEndTag ==
    consumed /\ Clean /\ mode = "reading" => SessionsEnclose

\* The repository's example ends the session logintest with
\* <wd:session name="logintest" clear_on_close="true"></wd:session>
\* (tests/test1.rs:54): the call that reads an element with clear_on_close
\* leaves the session of this element cleared.
ClearedOnClose ==
    [][mode = "returning" /\ Top.kind = "session" /\ session[Top.sid].onClose = "clear"
         => session'[Top.sid].holds = "cleared"]_vars
=============================================================================
