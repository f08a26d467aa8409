----------------------------- MODULE OpenCodeCodec -----------------------------
(***************************************************************************)
(* OpenCode: messages of parts.  One part holds a call and, once it has    *)
(* ended, its result; Common keeps them in two messages.                   *)
(***************************************************************************)
EXTENDS Conversation

OpenCodeSession(id, title) == [type |-> "session", id |-> id, title |-> title]
OpenCodeRecord(role, parts) == [type |-> "message", role |-> role, parts |-> parts]
\* status: "running", "completed" or "error"
OpenCodeTool(id, tool, status, v) == [kind |-> "tool", id |-> id, tool |-> tool,
                                      status |-> status, v |-> v]
Synthetic(v) == [kind |-> "synthetic", v |-> v]
StepStart == [kind |-> "step-start"]

OpenCodeNames == [Bash |-> "bash", Edit |-> "edit", Write |-> "write", Read |-> "read",
                  Glob |-> "glob", Grep |-> "grep", LS |-> "list", Task |-> "task"]
OpenCodeDenormalizeTool(tool) == IF tool \in DOMAIN OpenCodeNames THEN OpenCodeNames[tool] ELSE tool
OpenCodeNormalizeTool(name) ==
  IF \E t \in DOMAIN OpenCodeNames : OpenCodeNames[t] = name
  THEN CHOOSE t \in DOMAIN OpenCodeNames : OpenCodeNames[t] = name
  ELSE name

OpenCodeShown(parts, kinds) ==
  Where(parts, LAMBDA p : p.kind \in kinds /\ (p.kind \in {"text", "thinking"} => p.v # Blank))

\* The mutation that reads a message of no part as an empty one.
BuildUserMessage_Fault(parts) == <<User(OpenCodeShown(parts, {"text", "image"}))>>

BuildUserMessage(parts) ==
  LET content == OpenCodeShown(parts, {"text", "image"}) IN IfSome(content, <<User(content)>>)

ParseTool(part) ==
  <<Assistant(<<Use(part.id, OpenCodeNormalizeTool(part.tool))>>)>>
  \o IF part.status = "running" THEN <<>>
     ELSE <<User(<<Result(part.id, part.v, part.status = "error")>>)>>

\* A turn is cut at each of its calls.
OpenCodeFlush(s) == s.out \o IfSome(s.pending, <<Assistant(s.pending)>>)
OnPart(s, part) ==
  IF part.kind = "tool"
  THEN [out |-> OpenCodeFlush(s) \o ParseTool(part), pending |-> <<>>]
  ELSE [s EXCEPT !.pending = Append(@, part)]
BuildAssistantMessages(parts) ==
  LET shown == OpenCodeShown(parts, {"text", "thinking", "image", "tool"})
      read[j \in 0 .. Len(shown)] ==
        IF j = 0 THEN [out |-> <<>>, pending |-> <<>>] ELSE OnPart(read[j - 1], shown[j])
  IN OpenCodeFlush(read[Len(shown)])

OpenCodeTurns(line) ==
  CASE line.type = "message" /\ line.role = "user" -> BuildUserMessage(line.parts)
    [] line.type = "message" /\ line.role = "assistant" -> BuildAssistantMessages(line.parts)
    [] OTHER -> <<>>

OpenCodeToCommon(log) == FlattenSeq(Each(OpenCodeTurns, log))

(***************************************************************************)
(* Encoding walks the messages; a call whose result is the whole of the    *)
(* next message takes it, and the walk goes on past that message.  A       *)
(* result nobody takes is left out, a call that takes none has completed   *)
(* with an empty output.                                                   *)
(***************************************************************************)
\* The mutation that takes the next result for whichever call it answers.
OpenCodeAnswer_Fault(body, next, id) ==
  /\ next <= Len(body)
  /\ body[next].role = "user" /\ Len(body[next].content) = 1
  /\ body[next].content[1].kind = "result"

\* Is the message at `next` the result of the call `id`, and nothing else?
OpenCodeAnswer(body, next, id) ==
  /\ next <= Len(body)
  /\ body[next].role = "user" /\ Len(body[next].content) = 1
  /\ body[next].content[1].kind = "result" /\ body[next].content[1].id = id

UserPart(b) ==
  CASE b.kind \in {"text", "image"} -> <<b>>
    [] b.kind = "artifact" -> <<DisplayText(b)>>
    [] OTHER -> <<>>

\* s.idx: the message the walk is at
AssistantPart(body, s, b) ==
  CASE b.kind \in {"text", "thinking", "image"} -> [s EXCEPT !.parts = Append(@, b)]
    [] b.kind = "artifact" -> [s EXCEPT !.parts = Append(@, DisplayText(b))]
    [] b.kind = "result" -> [s EXCEPT !.parts = Append(@, Text(b.v))]
    [] b.kind = "use" /\ OpenCodeAnswer(body, s.idx + 1, b.id) ->
         LET answer == body[s.idx + 1].content[1]
             status == IF answer.err THEN "error" ELSE "completed"
         IN [parts |-> Append(s.parts,
                         OpenCodeTool(b.id, OpenCodeDenormalizeTool(b.tool), status, answer.v)),
             idx |-> s.idx + 1]
    [] b.kind = "use" /\ ~ OpenCodeAnswer(body, s.idx + 1, b.id) ->
         [s EXCEPT !.parts = Append(@,
            OpenCodeTool(b.id, OpenCodeDenormalizeTool(b.tool), "completed", Blank))]

AssistantParts(body, i) ==
  LET content == body[i].content
      walk[j \in 0 .. Len(content)] ==
        IF j = 0 THEN [parts |-> <<StepStart>>, idx |-> i]
        ELSE AssistantPart(body, walk[j - 1], content[j])
  IN walk[Len(content)]

OpenCodeOnMessage(body, s, i) ==
  CASE i <= s.idx -> s
    [] i > s.idx /\ body[i].role = "user" ->
         [out |-> Append(s.out, OpenCodeRecord("user", FlattenSeq(Each(UserPart, body[i].content)))),
          idx |-> i]
    [] i > s.idx /\ body[i].role = "assistant" ->
         LET walk == AssistantParts(body, i)
         IN [out |-> Append(s.out, OpenCodeRecord("assistant", walk.parts)), idx |-> walk.idx]

\* OpenCode takes no id that does not begin with "ses".
SesId(id) == <<"ses", id[2]>>
OpenCodeFromCommon(meta, body) ==
  LET written[i \in 0 .. Len(body)] ==
        IF i = 0 THEN [out |-> <<>>, idx |-> 0] ELSE OpenCodeOnMessage(body, written[i - 1], i)
  IN <<OpenCodeSession(SesId(meta.id), meta.title)>> \o written[Len(body)].out

\* A title OpenCode made up is none.
Placeholder == <<"placeholder", 0>>
OpenCodeMetaOf(log) ==
  [id |-> log[1].id, title |-> IF log[1].title = Placeholder THEN NoId ELSE log[1].title]
=============================================================================
