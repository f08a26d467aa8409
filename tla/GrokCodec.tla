------------------------------ MODULE GrokCodec ------------------------------
(***************************************************************************)
(* Grok: a session is two logs, what the model sees (chat_history) and     *)
(* what the screen shows (updates).  The conversation is read from the     *)
(* first; a prompt's images, the failure of a call and how a turn stopped  *)
(* are only in the second.  The sequence of a model state holds the lines  *)
(* of both in the order they were written.                                 *)
(***************************************************************************)
EXTENDS Conversation

GrokSummary(id, title) == [type |-> "summary", id |-> id, title |-> title]
\* chat_history
UserLine(v) == [type |-> "user", v |-> v]
UserInfo == [type |-> "user_info"]
AssistantLine(v, calls) == [type |-> "assistant", v |-> v, calls |-> calls]
GrokReasoning(v) == [type |-> "reasoning", v |-> v]
GrokToolResult(id, v) == [type |-> "tool_result", id |-> id, v |-> v]
\* updates; prompt: the number of the prompt the image belongs to
ImageChunk(prompt, v) == [type |-> "image_chunk", prompt |-> prompt, v |-> v]
CallUpdate(id, failed) == [type |-> "tool_call_update", id |-> id, failed |-> failed]
TurnCompleted == [type |-> "turn_completed"]

GrokNames == [Bash |-> "Shell", Edit |-> "StrReplace"]
GrokDenormalizeTool(tool) == IF tool \in DOMAIN GrokNames THEN GrokNames[tool] ELSE tool
GrokNormalizeTool(name) ==
  IF \E t \in DOMAIN GrokNames : GrokNames[t] = name
  THEN CHOOSE t \in DOMAIN GrokNames : GrokNames[t] = name
  ELSE name

\* What the display log adds: the images of the n-th prompt, from 0, and the
\* calls that failed.
ImagesOf(log, n) ==
  LET chunks == Where(log, LAMBDA l : l.type = "image_chunk" /\ l.prompt = n)
  IN Each(LAMBDA c : Image(c.v), chunks)
GrokFailed(log) ==
  {log[i].id : i \in {i \in DOMAIN log : log[i].type = "tool_call_update" /\ log[i].failed}}

\* A prompt of blank text is no prompt, and takes no part in the count.
IsPromptLine(line) == line.type = "user" /\ line.v # Blank

AssistantBlocks(line) ==
  (IF line.v = Blank THEN <<>> ELSE <<Text(line.v)>>)
  \o Each(LAMBDA c : Use(c.id, GrokNormalizeTool(c.tool)), line.calls)

\* A turn goes from a prompt to the next.  The n-th turn_completed tells how
\* the n-th turn stopped, and so how its last reply did.  (Where it is missing
\* the next prompt's mark of an interruption is used; the turns written
\* by GrokFromCommon all have theirs, and NativeLogs interrupts none of Grok's.)
Replies(line) == line.type = "assistant" /\ AssistantBlocks(line) # <<>>
PromptsUpTo(log, i) == Cardinality({k \in 1 .. i : IsPromptLine(log[k])})
EndsItsTurn(log, i) ==
  /\ Replies(log[i])
  /\ \A k \in i + 1 .. Len(log) : Replies(log[k]) => PromptsUpTo(log, k) > PromptsUpTo(log, i)
Stopped(log, i, msg) ==
  LET completed == SelectSeq(log, LAMBDA l : l.type = "turn_completed")
      turn == PromptsUpTo(log, i)
  IN IF turn \in DOMAIN completed /\ EndsItsTurn(log, i)
     THEN StoppedAs(completed[turn], msg)
     ELSE msg

GrokTurns(log, i) ==
  LET line == log[i]
      earlier == PromptsUpTo(log, i - 1)
  IN CASE IsPromptLine(line) -> <<User(<<Text(line.v)>> \o ImagesOf(log, earlier))>>
       [] line.type = "assistant" ->
            IfSome(AssistantBlocks(line), <<Stopped(log, i, Assistant(AssistantBlocks(line)))>>)
       [] line.type = "reasoning" -> <<Assistant(<<Thinking(line.v)>>)>>
       [] line.type = "tool_result" ->
            <<User(<<Result(line.id, line.v, line.id \in GrokFailed(log))>>)>>
       [] OTHER -> <<>>

GrokToCommon(log) == FlattenSeq([i \in DOMAIN log |-> GrokTurns(log, i)])

(***************************************************************************)
(* Encoding writes both logs.  A prompt of images alone gets the text      *)
(* "[image]" in the model's.                                               *)
(***************************************************************************)
PromptTexts(msg) == OfKind(msg.content, {"text", "artifact"})
PromptImages(msg) == OfKind(msg.content, {"image"})
GrokPrompts(msg) ==
  msg.role = "user" /\ PromptTexts(msg) \o PromptImages(msg) # <<>>

SaysOrCalls(msg) ==
  msg.role = "assistant" /\ OfKind(msg.content, {"text", "artifact", "use"}) # <<>>
\* The turn open before the i-th message, if any, stops as its last reply did.
TurnOver(body, i) ==
  LET prompts == {k \in 1 .. i - 1 : GrokPrompts(body[k])}
      replies == {k \in 1 .. i - 1 : SaysOrCalls(body[k]) /\ \A p \in prompts : p < k}
  IN IF prompts = {} THEN <<>>
     ELSE IF replies = {} THEN <<TurnCompleted>>
     ELSE <<StoppedAs(body[CHOOSE k \in replies : \A r \in replies : r <= k], TurnCompleted)>>

\* n: how many prompts came before; over: the end of the turn before
UserLines(msg, n, over) ==
  LET results == OfKind(msg.content, {"result"})
      text == IF PromptTexts(msg) = <<>> THEN OwnWords ELSE Joined(PromptTexts(msg))
  IN FlattenSeq(Each(LAMBDA r : <<GrokToolResult(r.id, r.v), CallUpdate(r.id, r.err)>>, results))
     \o IF ~ GrokPrompts(msg) THEN <<>>
        ELSE over \o <<UserLine(text)>> \o Each(LAMBDA b : ImageChunk(n, b.v), PromptImages(msg))

PushAssistant(msg) ==
  LET texts == OfKind(msg.content, {"text", "artifact"})
      calls == Each(LAMBDA b : Use(b.id, GrokDenormalizeTool(b.tool)), OfKind(msg.content, {"use"}))
  IN Each(LAMBDA b : GrokReasoning(b.v), OfKind(msg.content, {"thinking"}))
     \o IF texts = <<>> /\ calls = <<>> THEN <<>>
        ELSE <<AssistantLine(Joined(texts), calls)>>

GrokFromCommon(meta, body) ==
  LET Earlier(i) == Cardinality({k \in 1 .. i - 1 : GrokPrompts(body[k])})
  IN <<GrokSummary(meta.id, meta.title)>>
     \o FlattenSeq([i \in DOMAIN body |-> IF body[i].role = "user"
                                         THEN UserLines(body[i], Earlier(i), TurnOver(body, i))
                                         ELSE PushAssistant(body[i])])
     \o TurnOver(body, Len(body) + 1)

GrokMetaOf(log) == [id |-> log[1].id, title |-> log[1].title]
=============================================================================
