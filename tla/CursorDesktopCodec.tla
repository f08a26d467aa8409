--------------------------- MODULE CursorDesktopCodec ---------------------------
(***************************************************************************)
(* Cursor's desktop app: a header and one bubble per thing said or done,   *)
(* in the order the composer lists them.  The bubble of a call holds its   *)
(* result too, once there is one.                                          *)
(***************************************************************************)
EXTENDS Conversation

CursorDesktopHeader(id, title) == [type |-> "header", id |-> id, title |-> title]
UserBubble(v) == [type |-> "user", v |-> v]
ThinkingBubble(v) == [type |-> "thinking", v |-> v]
TextBubble(v) == [type |-> "text", v |-> v]
\* status: "started", "completed", "error" or what else a running call says
ToolBubble(id, tool, status, v) ==
  [type |-> "tool", id |-> id, tool |-> tool, status |-> status, v |-> v]

CursorDesktopNames == [Bash |-> "run_terminal_command_v2", Read |-> "read_file_v2"]
CursorDesktopDenormalizeTool(tool) ==
  IF tool \in DOMAIN CursorDesktopNames THEN CursorDesktopNames[tool] ELSE tool
CursorDesktopNormalizeTool(name) ==
  IF \E t \in DOMAIN CursorDesktopNames : CursorDesktopNames[t] = name
  THEN CHOOSE t \in DOMAIN CursorDesktopNames : CursorDesktopNames[t] = name
  ELSE name

\* An id in the alphabet every other harness accepts: any other character
\* becomes "_".  Ids here differ in letters or digits, so that they still do
\* after; two that differ in nothing else would become one.
SanitizeCallId(id) == IF id[1] = "safe" THEN id ELSE <<"safe">> \o id
DeterministicId(n) == <<"safe", "call", n>>

CursorDesktopFlush(s) ==
  [out |-> s.out \o IfSome(s.pending, <<Assistant(s.pending)>>), pending |-> <<>>]

PushToolCall(s, bubble) ==
  LET id == IF bubble.id = NoId THEN DeterministicId(Len(s.out)) ELSE SanitizeCallId(bubble.id)
      called == CursorDesktopFlush(
        [s EXCEPT !.pending = Append(@, Use(id, CursorDesktopNormalizeTool(bubble.tool)))])
  IN IF bubble.status \notin {"completed", "error"} THEN called
     ELSE [called EXCEPT !.out = Append(@, User(<<Result(id, bubble.v, bubble.status = "error")>>))]

\* The mutation that lets what the assistant said wait for what comes after the
\* user's prompt.
OnBubble_Fault(s, bubble) ==
  CASE bubble.type = "user" -> [s EXCEPT !.out = Append(@, User(<<Text(bubble.v)>>))]
    [] bubble.type \in {"thinking", "text"} ->
         [s EXCEPT !.pending = Append(@, IF bubble.type = "text" THEN Text(bubble.v)
                                         ELSE Thinking(bubble.v))]
    [] bubble.type = "tool" -> PushToolCall(s, bubble)
    [] OTHER -> s

\* pending: what the assistant has said since it was last cut off
OnBubble(s, bubble) ==
  CASE bubble.type = "user" ->
         LET flushed == CursorDesktopFlush(s)
         IN IF bubble.v = Blank THEN flushed
            ELSE [flushed EXCEPT !.out = Append(@, User(<<Text(bubble.v)>>))]
    [] bubble.type = "thinking" ->
         [s EXCEPT !.pending = IF bubble.v = Blank THEN @ ELSE Append(@, Thinking(bubble.v))]
    [] bubble.type = "text" ->
         [s EXCEPT !.pending = IF bubble.v = Blank THEN @ ELSE Append(@, Text(bubble.v))]
    [] bubble.type = "tool" -> PushToolCall(s, bubble)
    [] OTHER -> s

CursorDesktopToCommon(log) ==
  LET read[i \in 0 .. Len(log)] ==
        IF i = 0 THEN [out |-> <<>>, pending |-> <<>>] ELSE OnBubble(read[i - 1], log[i])
  IN CursorDesktopFlush(read[Len(log)]).out

(***************************************************************************)
(* Encoding.  A result goes to the bubble of the last call with its id;    *)
(* one whose call has no bubble is left out, and so is an image or a file. *)
(***************************************************************************)
CallBubble(bubbles, id) ==
  LET at == {k \in DOMAIN bubbles : bubbles[k].type = "tool" /\ bubbles[k].id = id}
  IN IF at = {} THEN 0 ELSE CHOOSE k \in at : \A l \in at : l <= k

AttachResult(bubbles, b) ==
  LET k == CallBubble(bubbles, b.id)
  IN IF k = 0 THEN bubbles
     ELSE [bubbles EXCEPT ![k].v = b.v, ![k].status = IF b.err THEN "error" ELSE "completed"]

AttachResults(bubbles, results) ==
  LET attached[r \in 0 .. Len(results)] ==
        IF r = 0 THEN bubbles ELSE AttachResult(attached[r - 1], results[r])
  IN attached[Len(results)]

OnUserMessage(bubbles, msg) ==
  LET texts == OfKind(msg.content, {"text"})
  IN AttachResults(bubbles, OfKind(msg.content, {"result"}))
     \o IF Joined(texts) = Blank THEN <<>> ELSE <<UserBubble(Joined(texts))>>

BubbleOf(b) ==
  CASE b.kind = "text" -> <<TextBubble(b.v)>>
    [] b.kind = "thinking" -> <<ThinkingBubble(b.v)>>
    [] b.kind = "use" -> <<ToolBubble(b.id, CursorDesktopDenormalizeTool(b.tool), "started", Blank)>>
    [] OTHER -> <<>>

CursorDesktopOnMessage(bubbles, msg) ==
  IF msg.role = "user" THEN OnUserMessage(bubbles, msg)
  ELSE bubbles \o FlattenSeq(Each(BubbleOf, msg.content))

BubblesFromMessages(body) ==
  LET written[i \in 0 .. Len(body)] ==
        IF i = 0 THEN <<>> ELSE CursorDesktopOnMessage(written[i - 1], body[i])
  IN written[Len(body)]

\* A session without a title is called after the first thing the user said,
\* or "Imported session".
CursorDesktopImported == <<"imported", 0>>
TitleFor(meta, body) ==
  LET texts == FlattenSeq(Each(LAMBDA msg : IF msg.role = "user" THEN OfKind(msg.content, {"text"})
                                           ELSE <<>>, body))
      said == Where(texts, LAMBDA b : b.v # Blank)
  IN CASE meta.title # NoId -> meta.title
       [] meta.title = NoId /\ said # <<>> -> <<"said", said[1].v>>
       [] OTHER -> CursorDesktopImported

CursorDesktopFromCommon(meta, body) ==
  <<CursorDesktopHeader(meta.id, TitleFor(meta, body))>> \o BubblesFromMessages(body)

CursorDesktopMetaOf(log) == [id |-> log[1].id, title |-> log[1].title]
=============================================================================
