------------------------------ MODULE HermesCodec ------------------------------
(***************************************************************************)
(* Hermes: a row per session and, in order, its message rows, in a SQLite  *)
(* database txcript only reads; an export of it is the portable form.      *)
(***************************************************************************)
EXTENDS Conversation

HermesSession(id, title) == [type |-> "session", id |-> id, title |-> title]
\* content: the texts and images of the turn; active: not rewound
HermesRow(role, content, reasoning, calls) ==
  [type |-> "row", role |-> role, content |-> content, reasoning |-> reasoning,
   calls |-> calls, active |-> TRUE]
\* id NoId: the row names no call
ToolRow(id, v, err) == [type |-> "row", role |-> "tool", id |-> id, v |-> v, err |-> err,
                        active |-> TRUE]
Rewound(row) == [row EXCEPT !.active = FALSE]

HermesNames == [Bash |-> "terminal", Read |-> "read_file", Write |-> "write_file", Edit |-> "patch"]
HermesDenormalizeTool(tool) == IF tool \in DOMAIN HermesNames THEN HermesNames[tool] ELSE tool
HermesNormalizeTool(name) ==
  IF \E t \in DOMAIN HermesNames : HermesNames[t] = name
  THEN CHOOSE t \in DOMAIN HermesNames : HermesNames[t] = name
  ELSE name

\* A text alone is a string, dropped when blank; beside an image it is a part.
ContentBlocks(content) ==
  IF Len(content) = 1 THEN Where(content, LAMBDA b : b.kind = "text" => b.v # Blank)
  ELSE content
AssistantMessage(row) ==
  (IF row.reasoning = Blank THEN <<>> ELSE <<Thinking(row.reasoning)>>)
  \o ContentBlocks(row.content)
  \o Each(LAMBDA c : Use(c.id, HermesNormalizeTool(c.tool)), row.calls)

MessageFromRow(row) ==
  CASE row.role = "user" ->
         LET content == ContentBlocks(row.content) IN IfSome(content, <<User(content)>>)
    [] row.role = "assistant" ->
         LET content == AssistantMessage(row)
         IN IfSome(content, <<StoppedAs(row, Assistant(content))>>)
    [] row.role = "tool" ->
         IF row.id = NoId THEN <<>> ELSE <<User(<<Result(row.id, row.v, row.err)>>)>>
    [] OTHER -> <<>>

HermesToCommon(log) ==
  FlattenSeq(Each(MessageFromRow, Where(log, LAMBDA l : l.type = "row" /\ l.active)))

\* Texts are joined into one, unless an image keeps them apart; files are
\* not written.
NativeContent(content) ==
  LET said == OfKind(content, {"text", "image"})
  IN IF Mentions(content, "image") THEN said
     ELSE IF Joined(said) = Blank THEN <<>> ELSE <<Text(Joined(said))>>

RowsFromMessage(msg) ==
  LET native == NativeContent(msg.content)
      calls == Each(LAMBDA b : Use(b.id, HermesDenormalizeTool(b.tool)), OfKind(msg.content, {"use"}))
  IN IF msg.role = "user"
     THEN Each(LAMBDA r : ToolRow(r.id, r.v, r.err), OfKind(msg.content, {"result"}))
          \o IfSome(native, <<HermesRow("user", native, Blank, <<>>)>>)
     ELSE LET reasoning == Joined(OfKind(msg.content, {"thinking"}))
          IN <<StoppedAs(msg, HermesRow("assistant", native, reasoning, calls))>>

HermesFromCommon(meta, body) ==
  <<HermesSession(meta.id, meta.title)>> \o FlattenSeq(Each(RowsFromMessage, body))

HermesMetaOf(log) == [id |-> log[1].id, title |-> log[1].title]
\* Discovery shows what the session's own row says.
HermesScan(log) == IF log[1].id = NoId THEN {} ELSE {HermesMetaOf(log)}
=============================================================================
