------------------------------ MODULE CursorCodec ------------------------------
(***************************************************************************)
(* Cursor's agent: a store of blobs.  Those that are JSON are the messages,*)
(* in the order they were stored; the others are the graph of turns Cursor *)
(* itself resumes from.                                                    *)
(***************************************************************************)
EXTENDS Conversation

CursorHeader(id, title) == [type |-> "header", id |-> id, title |-> title]
\* role: "user", "assistant", "tool", "system"
Json(role, content) == [type |-> "json", role |-> role, content |-> content]
\* what the editor told the model in the user's name
Injected(v) == [type |-> "injection", v |-> v]
CursorTurn(v, steps) == [type |-> "turn", v |-> v, steps |-> steps]

CursorNames == [Bash |-> "Shell", Edit |-> "StrReplace"]
CursorDenormalizeTool(tool) == IF tool \in DOMAIN CursorNames THEN CursorNames[tool] ELSE tool
CursorTool(name) ==
  IF \E t \in DOMAIN CursorNames : CursorNames[t] = name
  THEN CHOOSE t \in DOMAIN CursorNames : CursorNames[t] = name
  ELSE name

\* The id of a call that has none is a function of where it stands.
ToolUseId(i, j) == <<"cursor", i, j>>

ParseUserContent(content) ==
  Where(content, LAMBDA b : b.kind = "image" \/ (b.kind = "text" /\ b.v # Blank))
ParseAssistantContent(content, i) ==
  LET shown == Where(content, LAMBDA b : \/ b.kind \in {"thinking", "use", "image"}
                                         \/ b.kind = "text" /\ b.v # Blank)
  IN [j \in DOMAIN shown |->
        IF shown[j].kind = "use"
        THEN Use(IF shown[j].id = NoId THEN ToolUseId(i, j) ELSE shown[j].id,
                 CursorTool(shown[j].tool))
        ELSE shown[j]]
ParseToolContent(content) ==
  Where(content, LAMBDA b : b.kind = "result" /\ b.id # NoId)

\* i: the number of the message this would be
BlobMessage(line, i) ==
  LET Shown(role, content) == IfSome(content, <<Message(role, content)>>)
  IN CASE line.type = "json" /\ line.role = "user" -> Shown("user", ParseUserContent(line.content))
       [] line.type = "json" /\ line.role = "assistant" ->
            Shown("assistant", ParseAssistantContent(line.content, i))
       [] line.type = "json" /\ line.role = "tool" ->
            Shown("user", ParseToolContent(line.content))
       [] OTHER -> <<>>

CursorToCommon(log) ==
  LET read[i \in 0 .. Len(log)] ==
        IF i = 0 THEN <<>> ELSE read[i - 1] \o BlobMessage(log[i], Len(read[i - 1]))
  IN read[Len(log)]

(***************************************************************************)
(* Encoding: a result becomes a message of the role "tool", ahead of what  *)
(* else the user said.  A call of the user's own becomes a text.           *)
(***************************************************************************)
SerializeUserBlock(b) ==
  CASE b.kind \in {"text", "image"} -> b
    [] b.kind = "thinking" -> Text(b.v)
    [] b.kind = "use" -> Text(OwnWords)
    [] b.kind = "artifact" -> DisplayText(b)

UserValues(content) ==
  LET said == Where(content, LAMBDA b : b.kind # "result")
  IN Each(LAMBDA b : Json("tool", <<b>>), OfKind(content, {"result"}))
     \o IfSome(said, <<Json("user", Each(SerializeUserBlock, said))>>)

SerializeAssistantBlock(b) ==
  CASE b.kind \in {"text", "thinking", "image"} -> b
    [] b.kind = "use" -> Use(b.id, CursorDenormalizeTool(b.tool))
    [] b.kind = "artifact" -> DisplayText(b)
AssistantValues(content) ==
  LET kept == Where(content, LAMBDA b : b.kind # "result")
  IN IfSome(kept, <<Json("assistant", Each(SerializeAssistantBlock, kept))>>)

(***************************************************************************)
(* The graph: a turn is what the user said and the steps that followed,    *)
(* each call with the result the conversation has for it.                  *)
(***************************************************************************)
UserStateText(content) == Joined(OfKind(content, {"text", "image", "artifact", "thinking"}))
OrphanText(content, uses) ==
  Joined(Where(content, LAMBDA b : b.kind = "result" /\ b.id \notin uses))

ResultOf(results, id) ==
  LET at == {r \in DOMAIN results : results[r].id = id}
  IN IF at = {} THEN <<>> ELSE <<results[CHOOSE r \in at : \A k \in at : k <= r]>>

AssistantStateSteps(content, results) ==
  FlattenSeq(Each(LAMBDA b :
    CASE b.kind \in {"text", "thinking"} -> IF b.v = Blank THEN <<>> ELSE <<b>>
      [] b.kind = "use" -> << [call |-> b, result |-> ResultOf(results, b.id)] >>
      [] b.kind \in {"image", "artifact"} -> <<Text(b.v)>>
      [] b.kind = "result" -> <<>>, content))

\* turns: the graph so far; what is said before any prompt opens a turn of
\* the codec's own words
Extend(turns, steps) ==
  IF turns = <<>> THEN <<CursorTurn(OwnWords, steps)>>
  ELSE [turns EXCEPT ![Len(turns)].steps = @ \o steps]

UserStateTurns(turns, content, uses) ==
  LET text == UserStateText(content)
      orphan == OrphanText(content, uses)
      opened == turns \o IF text = Blank THEN <<>> ELSE <<CursorTurn(text, <<>>)>>
  IN IF orphan = Blank THEN opened ELSE Extend(opened, <<Text(orphan)>>)

\* results, uses: those of the whole conversation
CursorOnMessage(turns, msg, results, uses) ==
  IF msg.role = "user" THEN UserStateTurns(turns, msg.content, uses)
  ELSE Extend(turns, AssistantStateSteps(msg.content, results))

StateTurns(body) ==
  LET flat == Each(LAMBDA f : f.block, Flat(body))
      results == OfKind(flat, {"result"})
      uses == ToSet(Each(LAMBDA b : b.id, OfKind(flat, {"use"})))
      written[i \in 0 .. Len(body)] ==
        IF i = 0 THEN <<>> ELSE CursorOnMessage(written[i - 1], body[i], results, uses)
  IN written[Len(body)]

\* A session without a title is given one.
CursorImported == <<"imported", 0>>
CursorFromCommon(meta, body) ==
  <<CursorHeader(meta.id, IF meta.title = NoId THEN CursorImported ELSE meta.title)>>
  \o FlattenSeq(Each(LAMBDA msg : IF msg.role = "user" THEN UserValues(msg.content)
                                  ELSE AssistantValues(msg.content), body))
  \o StateTurns(body)

\* The title, else the first thing the user said.
CursorMetaOf(log) ==
  LET said == SelectSeq(CursorToCommon(log),
                        LAMBDA m : m.role = "user" /\ Mentions(m.content, "text"))
  IN [id |-> log[1].id,
      title |-> CASE log[1].title # NoId -> log[1].title
                  [] log[1].title = NoId /\ said # <<>> ->
                       <<"said", OfKind(said[1].content, {"text"})[1].v>>
                  [] OTHER -> NoId]
=============================================================================
