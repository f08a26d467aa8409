------------------------------ MODULE CodexCodec ------------------------------
(***************************************************************************)
(* Codex: a rollout is two interleaved logs, the protocol log the model    *)
(* sees (response_item) and the display log (event_msg), and the decoder   *)
(* is one stateful pass over both.                                         *)
(***************************************************************************)
EXTENDS Conversation

SessionMeta(id) == [type |-> "session_meta", id |-> id]
CodexItem(role, content) == [type |-> "message", role |-> role, content |-> content]
CodexSetup == [type |-> "setup"]            \* a user message of scaffolding alone
CodexReasoning(v) == [type |-> "reasoning", v |-> v]
FunctionCall(id, name) == [type |-> "function_call", id |-> id, name |-> name]
FunctionOutput(id, v) == [type |-> "function_call_output", id |-> id, v |-> v]
CustomCall(id, name) == [type |-> "custom_tool_call", id |-> id, name |-> name]
CustomOutput(id, v, err) == [type |-> "custom_tool_call_output", id |-> id, v |-> v, err |-> err]
ExecEnd(id, v, err) == [type |-> "exec_command_end", id |-> id, v |-> v, err |-> err]
\* id: NoId in a log that does not name the call
SearchCall(id, action) == [type |-> "web_search_call", id |-> id, action |-> action]
SearchEnd(id, v, action) == [type |-> "web_search_end", id |-> id, v |-> v, action |-> action]

\* apply_patch is an Edit or a Write when the patch is one hunk or one new
\* file, and stays whole as ApplyPatch otherwise.
NormalizeFunction(name) == IF name \in {"exec_command", "shell"} THEN "Bash" ELSE name
NormalizeCustom(name) ==
  CASE name = "apply_patch: one hunk" -> "Edit"
    [] name = "apply_patch: one new file" -> "Write"
    [] name = "apply_patch: more" -> "ApplyPatch"
    [] OTHER -> name

\* OpenAI accepts letters, digits, _ and - in a name.
OpenAiName(tool) == IF tool = "/release" THEN "_release" ELSE tool

\* content's image entries are data URLs, its texts may not be empty
ParseContent(content) ==
  Where(content, LAMBDA b : b.kind \in {"text", "image"})

\* canonical: the calls whose own end event was seen.  pending: the ids of
\* searches that ended, per action, for the call items that follow.
\* unresolved: the places in queue of searches whose id is not known yet.
CodexStart == [queue |-> <<>>, canonical |-> {},
          pending |-> [a \in {"a", "b"} |-> <<>>],
          unresolved |-> [a \in {"a", "b"} |-> <<>>]]

Queued(role, content) == [role |-> role, content |-> content, fallback |-> NoId]
CodexPush(s, turn) == [s EXCEPT !.queue = Append(@, turn)]
PushCall(s, id, tool) == CodexPush(s, Queued("assistant", <<Use(id, tool)>>))
PushResult(s, id, v, err) == CodexPush(s, Queued("user", <<Result(id, v, err)>>))

\* A search ended: its id waits for the item of its call, and is also given
\* to the latest call of that action that still has none.
OnSearchEnd(s, line) ==
  LET open == s.unresolved[line.action]
      named == IF open = <<>> THEN s
               ELSE [s EXCEPT !.queue[Last(open)].content[1].id = line.id,
                              !.unresolved[line.action] = Front(open)]
  IN PushResult([named EXCEPT !.pending[line.action] = Append(@, line.id),
                              !.canonical = @ \cup {line.id}],
                line.id, line.v, FALSE)

\* The mutation that leaves the id it takes waiting for the next search.
OnSearchCall_Fault(s, line) ==
  LET waiting == s.pending[line.action]
      named == PushCall(s, <<"web_search", Len(s.queue)>>, "WebSearch")
  IN CASE line.id # NoId -> PushCall(s, line.id, "WebSearch")
       [] line.id = NoId /\ waiting # <<>> -> PushCall(s, Last(waiting), "WebSearch")
       [] line.id = NoId /\ waiting = <<>> ->
            [named EXCEPT !.unresolved[line.action] = Append(@, Len(named.queue))]

\* A call item takes its own id, or the id of the latest search of its action
\* that ended, or a provisional one.
OnSearchCall(s, line) ==
  LET waiting == s.pending[line.action]
  IN CASE line.id # NoId -> PushCall(s, line.id, "WebSearch")
       [] line.id = NoId /\ waiting # <<>> ->
            PushCall([s EXCEPT !.pending[line.action] = Front(@)], Last(waiting), "WebSearch")
       [] line.id = NoId /\ waiting = <<>> ->
            LET named == PushCall(s, <<"web_search", Len(s.queue)>>, "WebSearch")
            IN [named EXCEPT !.unresolved[line.action] = Append(@, Len(named.queue))]

CodexOnMessage(s, line) ==
  LET content == ParseContent(line.content)
  IN IF line.role \in {"user", "assistant"} /\ content # <<>>
     THEN CodexPush(s, Queued(line.role, content))
     ELSE s

OnLine(s, line) ==
  CASE line.type = "message" -> CodexOnMessage(s, line)
    [] line.type = "reasoning" -> CodexPush(s, Queued("assistant", <<Thinking(line.v)>>))
    [] line.type = "function_call" -> PushCall(s, line.id, NormalizeFunction(line.name))
    [] line.type = "function_call_output" ->
         CodexPush(s, [Queued("user", <<Result(line.id, line.v, FALSE)>>) EXCEPT !.fallback = line.id])
    [] line.type = "custom_tool_call" -> PushCall(s, line.id, NormalizeCustom(line.name))
    [] line.type \in {"custom_tool_call_output", "exec_command_end"} ->
         PushResult([s EXCEPT !.canonical = @ \cup {line.id}], line.id, line.v, line.err)
    [] line.type = "web_search_end" -> OnSearchEnd(s, line)
    [] line.type = "web_search_call" -> OnSearchCall(s, line)
    [] OTHER -> s

\* The output item of a call that has an end event of its own is dropped.
CodexToCommon(log) ==
  LET read[i \in 0 .. Len(log)] == IF i = 0 THEN CodexStart ELSE OnLine(read[i - 1], log[i])
      s == read[Len(log)]
      kept == Where(s.queue, LAMBDA q : q.fallback \notin s.canonical)
  IN Each(LAMBDA q : Message(q.role, q.content), kept)

\* Thoughts, calls and results are items of their own; what is left of the
\* message, text and images, follows them as one item.
ItemOf(block) ==
  CASE block.kind = "thinking" -> CodexReasoning(block.v)
    [] block.kind = "use" -> FunctionCall(block.id, OpenAiName(block.tool))
    [] block.kind = "result" -> FunctionOutput(block.id, block.v)

\* The mutation that writes the text of a message and not its images.
MessageLines_Fault(msg) ==
  LET content == OfKind(msg.content, {"text"})
  IN Each(ItemOf, OfKind(msg.content, {"thinking", "use", "result"}))
     \o IfSome(content, <<CodexItem(msg.role, content)>>)

MessageLines(msg) ==
  LET said == OfKind(msg.content, {"text", "image", "artifact"})
      content == Each(LAMBDA b : IF b.kind = "artifact" THEN DisplayText(b) ELSE b, said)
  IN Each(ItemOf, OfKind(msg.content, {"thinking", "use", "result"}))
     \o IfSome(content, <<CodexItem(msg.role, content)>>)

CodexFromCommon(meta, body) ==
  <<SessionMeta(meta.id)>> \o FlattenSeq(Each(MessageLines, body))

\* Only the first session_meta names the session.
Metas(log) == SelectSeq(log, LAMBDA l : l.type = "session_meta")
CodexMetaOf(log) ==
  [id |-> IF Metas(log) = <<>> THEN NoId ELSE Metas(log)[1].id, title |-> NoId]

\* Discovery reads up to the first session_meta that has an id, and shows
\* what the first session_meta says.
CodexScan(log) ==
  IF \E i \in DOMAIN Metas(log) : Metas(log)[i].id # NoId
  THEN {CodexMetaOf(<<Metas(log)[1]>>)}
  ELSE {}
=============================================================================
