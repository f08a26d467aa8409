------------------------------ MODULE Conversions ------------------------------
(***************************************************************************)
(* A session on its way through the harnesses: its harness writes to it,   *)
(* txcript reads it (to_common) and writes it out for another harness      *)
(* (from_common), which goes on with it.                                   *)
(***************************************************************************)
EXTENDS NativeLogs, Cropping

CONSTANTS
  Harnesses,  \* those a session may start with
  Targets,    \* those it may be continued in
  Exports,    \* those it may be only converted for
  MaxSteps,   \* how much the harnesses write
  MaxHops,    \* how often it is converted
  MaxTotal    \* how much of both

ASSUME BoundsAssumption ==
  /\ Harnesses \cup Targets \cup Exports \subseteq DOMAIN Empty
  \* The two chats are read and never written; these four are not a live
  \* store a session could go on in.
  /\ (Targets \cup Exports) \cap {"chatgpt", "claude_chat"} = {}
  /\ Targets \cap {"simple", "hermes", "amp", "share"} = {}
  /\ {MaxSteps, MaxHops, MaxTotal} \subseteq Nat

VARIABLES
  harness,  \* whose session it is
  log,      \* the session as the harness stores it
  common,   \* the conversation to_common reads in it
  live,     \* whether a harness can go on with it: an exported text is none's
  steps, hops
vars == <<harness, log, common, live, steps, hops>>

(***************************************************************************)
(* The codecs by name: Local::load_common and Local::save_common dispatch  *)
(* on the harness.                                                         *)
(***************************************************************************)
ToCommon(h, l) ==
  CASE h \in OfPi -> PiToCommon(l)
    [] h = "codex" -> CodexToCommon(l)
    [] h = "claude" -> ClaudeToCommon(l)
    [] h = "simple" -> SimpleToCommon(l)
    [] h = "hermes" -> HermesToCommon(l)
    [] h = "opencode" -> OpenCodeToCommon(l)
    [] h = "amp" -> AmpToCommon(l)
    [] h = "fx" -> FxToCommon(l)
    [] h = "grok" -> GrokToCommon(l)
    [] h = "grok_bot" -> GrokBotToCommon(l)
    [] h = "antigravity" -> AntigravityToCommon(l)
    [] h = "cursor" -> CursorToCommon(l)
    [] h = "cursor_desktop" -> CursorDesktopToCommon(l)
    [] h = "chatgpt" -> ChatGptToCommon(l)
    [] h = "claude_chat" -> ClaudeChatToCommon(l)
    [] h = "cowork" -> CoworkToCommon(l)
    [] h = "share" -> ShareToCommon(l)

FromCommon(h, meta, body) ==
  CASE h \in OfPi -> PiFromCommon(meta, body)
    [] h = "codex" -> CodexFromCommon(meta, body)
    [] h = "claude" -> ClaudeFromCommon(meta, body)
    [] h = "simple" -> SimpleFromCommon(meta, body)
    [] h = "hermes" -> HermesFromCommon(meta, body)
    [] h = "opencode" -> OpenCodeFromCommon(meta, body)
    [] h = "amp" -> AmpFromCommon(meta, body)
    [] h = "fx" -> FxFromCommon(meta, body)
    [] h = "grok" -> GrokFromCommon(meta, body)
    [] h = "grok_bot" -> GrokBotFromCommon(meta, body)
    [] h = "antigravity" -> AntigravityFromCommon(meta, body)
    [] h = "cursor" -> CursorFromCommon(meta, body)
    [] h = "cursor_desktop" -> CursorDesktopFromCommon(meta, body)
    [] h = "cowork" -> CoworkFromCommon(meta, body)
    [] h = "share" -> ShareFromCommon(meta, body)

MetaOf(h, l) ==
  CASE h \in OfPi -> PiMetaOf(l)
    [] h = "codex" -> CodexMetaOf(l)
    [] h = "claude" -> ClaudeMetaOf(l)
    [] h = "simple" -> SimpleMetaOf(l)
    [] h = "hermes" -> HermesMetaOf(l)
    [] h = "opencode" -> OpenCodeMetaOf(l)
    [] h = "amp" -> AmpMetaOf(l)
    [] h = "fx" -> FxMetaOf(l)
    [] h = "grok" -> GrokMetaOf(l)
    [] h = "grok_bot" -> GrokBotMetaOf(l)
    [] h = "antigravity" -> AntigravityMetaOf(l)
    [] h = "cursor" -> CursorMetaOf(l)
    [] h = "cursor_desktop" -> CursorDesktopMetaOf(l)
    [] h = "chatgpt" -> ChatGptMetaOf(l)
    [] h = "claude_chat" -> ClaudeChatMetaOf(l)
    [] h = "cowork" -> CoworkMetaOf(l)
    [] h = "share" -> ShareMetaOf(l)

Init == /\ harness \in Harnesses
        /\ log = Empty[harness]
        /\ common = <<>>
        /\ live = TRUE
        /\ steps = 0 /\ hops = 0

\* The harness says or does one more thing.
Work == /\ live
        /\ steps < MaxSteps /\ steps + hops < MaxTotal
        /\ \E grown \in Grow(harness, log, steps + 1) : log' = grown
        /\ common' = ToCommon(harness, log')
        /\ steps' = steps + 1
        /\ UNCHANGED <<harness, live, hops>>

\* A copy is not written under the id of what it was copied from: it would
\* land on it.
FreshIdentity(meta, n) == [meta EXCEPT !.id = <<"session", n + 1>>]

\* For Claude Code, every file that came with its contents is written out.
Materialized(body) ==
  LET ToPath(b) == IF b.kind = "artifact" THEN [b EXCEPT !.source = "path"] ELSE b
  IN Each(LAMBDA msg : StoppedAs(msg, Message(msg.role, Each(ToPath, msg.content))), body)

Converted(target, meta, body, alive) ==
  /\ hops < MaxHops /\ steps + hops < MaxTotal
  /\ harness' = target
  /\ log' = FromCommon(target, meta, body)
  /\ common' = ToCommon(target, log')
  /\ live' = alive
  /\ hops' = hops + 1
  /\ UNCHANGED steps

\* Continued in its own harness a session is resumed where it is, unless a
\* range is asked for: then it is cropped, here to all of it.
Continue(target) ==
  /\ target = harness => MayKeep(common, DOMAIN common)
  /\ Converted(target, FreshIdentity(MetaOf(harness, log), steps + hops + 1),
               IF target = "claude" THEN Materialized(common) ELSE common, TRUE)

\* The library and its bindings convert a text and write it nowhere.
Export(target) == Converted(target, MetaOf(harness, log), common, FALSE)

\* Publishing is not continuing: what is published keeps its id, which is how
\* it is found; without one it is refused.
Push ==
  /\ harness = "share" => MayKeep(common, DOMAIN common)
  /\ MetaOf(harness, log).id # NoId
  /\ Converted("share", MetaOf(harness, log), common, FALSE)

Next == \/ Work
        \/ \E target \in Targets : Continue(target)
        \/ \E target \in Exports \ {"share"} : Export(target)
        \/ "share" \in Exports /\ Push

Spec == Init /\ [][Next]_vars

(***************************************************************************)
(* Properties.                                                             *)
(***************************************************************************)
Works == steps' > steps
Converts == hops' > hops

Blocks(role) ==
  IF role = "user" THEN {"text", "image", "artifact", "result", "use"}
  ELSE {"text", "image", "artifact", "thinking", "use"}

\* Whatever is read, from whichever harness and after whichever conversions:
\* no message is empty, a result is the user's and a thought the model's, and
\* the only calls of the user's own are commands (Tool, common.rs).
TypeOK ==
  /\ harness \in DOMAIN Empty /\ live \in BOOLEAN
  /\ steps \in 0 .. MaxSteps /\ hops \in 0 .. MaxHops
  /\ \A i \in DOMAIN common :
       /\ common[i].content # <<>>
       /\ \A j \in DOMAIN common[i].content :
            LET b == common[i].content[j]
            IN /\ b.kind \in Blocks(common[i].role)
               /\ common[i].role = "user" /\ b.kind = "use" => b.tool = Release

(***************************************************************************)
(* What the property tests generate (properties.rs, arb_unit): prompts,    *)
(* answers, and calls made one at a time whose result follows at once.     *)
(***************************************************************************)
Kinds(msg) == Each(LAMBDA b : b.kind, msg.content)
AnswersTheLast(body, i) ==
  /\ i \in 2 .. Len(body)
  /\ body[i - 1].role = "assistant" /\ Kinds(body[i - 1]) = <<"use">>
  /\ body[i].role = "user" /\ Kinds(body[i]) = <<"result">>
  /\ body[i].content[1].id = body[i - 1].content[1].id
  /\ ~ body[i].content[1].err
Plain(body) ==
  /\ body # <<>> /\ body[1].role = "user"
  /\ \A i \in DOMAIN body :
       \/ body[i].role = "user" /\ Kinds(body[i]) = <<"text">>
       \/ body[i].role = "assistant" /\ Kinds(body[i]) \in {<<"text">>, <<"thinking", "text">>}
       \/ AnswersTheLast(body, i + 1)
       \/ AnswersTheLast(body, i)

\* A conversation of prompts, answers, thoughts and answered calls reads the
\* same in any harness it is written for, however it came about.
RoundTripKeepsConversation ==
  [][Converts /\ Plain(common) => Signature(common') = Signature(common)]_vars

(***************************************************************************)
(* What a harness's own format cannot hold of what it was read from.       *)
(***************************************************************************)
BlocksOf(body, kind) ==
  LET flat == Flat(body)
  IN {flat[i].block : i \in {i \in DOMAIN flat : flat[i].block.kind = kind}}
Fits(h, body) ==
  LET answered == {r.id : r \in BlocksOf(body, "result")}
  IN CASE h = "codex" -> \A r \in BlocksOf(body, "result") : ~ r.err
       [] h \in {"claude", "cowork"} -> BlocksOf(body, "artifact") = {}
       [] h = "opencode" -> \A u \in BlocksOf(body, "use") : u.id \in answered
       [] OTHER -> TRUE

\* Written for the harness it was read from, a session is read again as the
\* same conversation: what from_common writes and to_common reads agree in
\* every harness, whoever wrote the session before, but on a failure in Codex,
\* the outcome of a file in Claude Code and in Cowork and a call still running
\* in OpenCode.  It compares two readings: what to_common left out of the
\* first is in neither.
OwnFormatKeepsAll ==
  [][Converts /\ harness' = harness /\ Fits(harness, common)
     => Signature(common') = Signature(common)]_vars

(***************************************************************************)
(* Calls and results.  An id may be minted anew, so a call is known by its *)
(* tool and by which of the calls of that tool it is.                      *)
(***************************************************************************)
UsesBefore(flat, k, tool) ==
  Cardinality({l \in 1 .. k : flat[l].block.kind = "use" /\ flat[l].block.tool = tool})
Answers(body) ==
  LET flat == Flat(body)
      call == [r \in DOMAIN flat |-> IF flat[r].block.kind = "result" THEN CallOf(flat, r) ELSE 0]
  IN {[v |-> flat[r].block.v, tool |-> flat[call[r]].block.tool,
       nth |-> UsesBefore(flat, call[r], flat[call[r]].block.tool)]
        : r \in {r \in DOMAIN flat : call[r] # 0}}
CallsMade(body) == SelectSeq(Flat(body), LAMBDA f : f.block.kind = "use")
CallsHaveIds(body) == IsInjective(Each(LAMBDA f : f.block.id, CallsMade(body)))
\* No call is answered while an earlier one of the same tool waits.
AnsweredInTurn(body) ==
  LET flat == Flat(body)
      At(kind) == {i \in DOMAIN flat : flat[i].block.kind = kind}
  IN \A r \in At("result") : \A w \in At("use"), u \in At("use") :
       /\ flat[w].block.id = flat[r].block.id
       /\ u < w /\ flat[u].block.tool = flat[w].block.tool
       => \E q \in At("result") : u < q /\ q < r /\ flat[q].block.id = flat[u].block.id
\* fx keeps the first call of a message that was cut short, when nothing
\* else came between two prompts.
CutShort(body, b) ==
  \E i \in DOMAIN body :
    /\ IsAborted(body[i]) /\ Contains(body[i].content, b)
    /\ OfKind(body[i].content, {"use"})[1] # b
    /\ i > 1 => IsPrompt(body[i - 1])
    /\ i < Len(body) => IsPrompt(body[i + 1])
\* Antigravity looks results up by id, Grok Bot by the order of the calls; fx
\* keeps one call of a message that was cut short, so that it changes which of
\* the calls a later one is.
Tells(h, body) ==
  CASE h = "antigravity" -> CallsHaveIds(body)
    [] h = "grok_bot" -> AnsweredInTurn(body)
    [] h = "fx" -> \A b \in BlocksOf(body, "use") : ~ CutShort(body, b)
    [] OTHER -> TRUE

\* A result that survives a conversion still answers the call it answered: the
\* pairs a resumed model is shown are never crossed, though ids are minted
\* anew, results fold into calls and messages are split and joined.
AnswersKeepTheirCalls ==
  [][Converts /\ Tells(harness', common) =>
       \A a \in Answers(common), b \in Answers(common') :
         /\ a.v = b.v /\ a.v \notin {Blank, OwnWords}
         /\ a.tool # Release
         => a = b]_vars

(***************************************************************************)
(* Codex's searches.  Item and end of one come in either order; the end    *)
(* gives the id.                                                           *)
(***************************************************************************)
SearchLines(l) ==
  SelectSeq(l, LAMBDA e : \/ e.type = "web_search_call"
                          \/ e.type = "function_call" /\ e.name = "WebSearch")
SearchIds(l, body, action) ==
  LET uses == SelectSeq(CallsMade(body), LAMBDA f : f.block.tool = "WebSearch")
      mine == Where([k \in DOMAIN SearchLines(l) |-> k],
                    LAMBDA k : SearchLines(l)[k].type = "web_search_call"
                               /\ SearchLines(l)[k].action = action)
  IN Each(LAMBDA k : uses[k].block.id, mine)
EndIds(l, action) ==
  {l[i].id : i \in {i \in DOMAIN l : l[i].type = "web_search_end" /\ l[i].action = action}}
\* A search of the action began after one whose item had come before its end.
Overtaken(l, action) ==
  LET At(type) == {i \in DOMAIN l : l[i].type = type /\ l[i].action = action}
      Before(type, i) == Cardinality({k \in At(type) : k < i})
  IN \E e \in At("web_search_end") :
       /\ Before("web_search_call", e) > Before("web_search_end", e)
       /\ \E c \in At("web_search_call") : e < c

\* No two searches are read as one, and a search and an end of its action are
\* never both left without the other (codex.rs matches them by the action),
\* but where a search of the same action overtakes.
SearchesFindTheirEnds ==
  harness = "codex" =>
    \A action \in {"a", "b"} : ~ Overtaken(log, action) =>
      LET ids == SearchIds(log, common, action)
      IN /\ IsInjective(ids)
         /\ ToSet(ids) \subseteq EndIds(log, action) \/ EndIds(log, action) \subseteq ToSet(ids)

(***************************************************************************)
(* What the formats have no place for.                                     *)
(***************************************************************************)
\* The blocks of its kind in the message a block is in.
Alike(body, b) ==
  LET at == {i \in DOMAIN body : Contains(body[i].content, b)}
  IN IF at = {} THEN <<>> ELSE OfKind(body[CHOOSE i \in at : TRUE].content, {b.kind})

AnsweredBy(call, b) == call.kind = "use" /\ call.id = b.id
\* The results of a message's calls follow it one by one, in the calls' order.
InStep(body, b) ==
  \E c \in DOMAIN body, m \in DOMAIN body :
    /\ c < m /\ body[c].role = "assistant" /\ body[m].content = <<b>>
    /\ \E p \in DOMAIN body[c].content :
         /\ AnsweredBy(body[c].content[p], b)
         /\ \A k \in c + 1 .. m - 1 : \E q \in 1 .. p - 1 :
              Kinds(body[k]) = <<"result">> /\ AnsweredBy(body[c].content[q], body[k].content[1])

NoPlaceIn(h, body, flat, i) ==
  LET b == flat[i].block
  IN \/ b.kind = "artifact" /\ h \in {"hermes", "grok_bot", "cursor_desktop"}
     \/ b.kind = "image" /\ h \in {"grok_bot", "cursor_desktop"}
     \* the second thought of a message
     \/ b.kind = "thinking" /\ h = "antigravity" /\ Alike(body, b)[1] # b
     \* a result of no call of the model's, or of which of two; in fx one that
     \* waits beyond a prompt, in OpenCode one of several, or late
     \/ b.kind = "result" /\
          LET call == CallOf(flat, i)
          IN \/ /\ h \in {"fx", "cursor_desktop", "antigravity"}
                /\ call = 0 \/ flat[call].role = "user"
             \/ /\ h = "antigravity"
                /\ \E k \in DOMAIN flat : /\ k # call /\ flat[k].block.kind = "use"
                                          /\ flat[k].block.id = b.id
             \/ /\ h = "fx"
                /\ \E k \in call + 1 .. i - 1 : flat[k].role = "user" /\ ~ Tied(flat[k].block)
             \/ h = "opencode" /\ ~ InStep(body, b)
     \* a command of the user's own, where calls are the model's only; in fx the
     \* second call of a broken turn
     \/ /\ b.kind = "use" /\ b.tool = Release
        /\ h \notin {"claude", "cowork", "chatgpt", "claude_chat", "share"}
     \/ b.kind = "use" /\ h = "fx" /\ CutShort(body, b)

\* A file may have become a text that names it.
Becomes(kind) == IF kind = "artifact" THEN {"artifact", "text"} ELSE {kind}
\* A call is told by its tool; the words of a codec's own count for nothing.
Pieces(b) == IF b.kind = "use" THEN {b.tool} ELSE ToSet(b.v) \ ToSet(OwnWords)
Occurs(flat, places, role, kinds, piece) ==
  Cardinality({i \in places : /\ flat[i].role = role /\ flat[i].block.kind \in kinds
                              /\ piece \in Pieces(flat[i].block)})

\* What was said, thought, shown, called or returned is there once the session is
\* converted, as often as it was and by the same role, unless the format has
\* no place for it: nothing is lost when messages are split, and nothing is
\* said twice when they are joined.
NothingIsLost ==
  [][Converts =>
       LET before == Flat(common)
           after == Flat(common')
           held == {i \in DOMAIN before : ~ NoPlaceIn(harness', common, before, i)}
       IN \A i \in held :
            LET role == before[i].role
                kinds == Becomes(before[i].block.kind)
            IN \A piece \in Pieces(before[i].block) :
                 Occurs(after, DOMAIN after, role, kinds, piece)
                   = Occurs(before, held, role, kinds, piece)]_vars

\* A call that has its result when the session is converted has it after.
AnsweredStaysAnswered ==
  [][Converts => \A a \in Answers(common) :
       a.tool # Release => \E b \in Answers(common') : b.v = a.v]_vars

(***************************************************************************)
(* A live session.                                                         *)
(***************************************************************************)
\* The session only grows, and at its end: a chat's new message may also
\* start a branch, and a call may be updated where it stands.
Entries(l) == SelectSeq(l, LAMBDA e : e.type \notin {"conversation", "chat"})
OnlyAppends ==
  /\ Works
  /\ IsStrictPrefix(Entries(log), Entries(log'))
  /\ harness = "chatgpt" => Last(log').parent = log[1].current
  /\ harness = "claude_chat" => Last(log').parent = log[1].leaf
\* A call is the same whichever id its result will give it.
Anchor(b) == IF b.kind = "use" THEN <<b.kind, b.tool>> ELSE <<b.kind, b.v>>
Anchors(msg) == Each(Anchor, msg.content)

\* A span minted against a session stays valid while the session appends
\* (Span, transcript.rs): what was read is still there, at the same index,
\* and only the last message may have grown.
SpansStayValid ==
  [][OnlyAppends =>
       \A i \in DOMAIN common :
         /\ i \in DOMAIN common'
         /\ common'[i].role = common[i].role
         /\ IsPrefix(Anchors(common[i]), Anchors(common'[i]))
         /\ i < Len(common) => Len(common'[i].content) = Len(common[i].content)]_vars

(***************************************************************************)
(* Discovery, where it reads a file otherwise than loading it does.        *)
(***************************************************************************)
Scan(h, l) ==
  CASE h \in OfPi -> PiScan(l)
    [] h = "codex" -> CodexScan(l)
    [] h = "claude" -> ClaudeScan(l)
    [] h = "hermes" -> HermesScan(l)
    [] h = "amp" -> AmpScan(l)
    [] h = "cowork" -> CoworkScan(l)
    [] h = "share" -> ShareScan(l)
    [] OTHER -> {MetaOf(h, l)}

\* Claude Code's session is named by what the user wrote, Grok Bot's by the
\* app that takes it.
NamesItself(h, l) ==
  CASE h = "claude" -> \E i \in DOMAIN l : l[i].type = "user"
    [] h = "grok_bot" -> FALSE
    [] OTHER -> TRUE
Untitled == {"pi", "campfire", "codex", "antigravity", "grok_bot"}

\* A converted session is found by discovery, which parses only part of the
\* file, just as loading will find it; with the source's title where the
\* format has one; and under an id of its own and not that of its source,
\* which it must not replace, unless it is published: then under that id.
ConvertedIsFound ==
  [][Converts /\ (live' \/ harness' = "share") /\ NamesItself(harness', log') =>
       LET source == MetaOf(harness, log)
           copy == MetaOf(harness', log')
       IN /\ Scan(harness', log') = {copy}
          /\ copy.id # NoId /\ (copy.id = source.id <=> harness' = "share")
          /\ harness' \notin Untitled /\ source.title # NoId => copy.title = source.title]_vars
=============================================================================
