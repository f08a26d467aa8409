----------------------------- MODULE GrokBotCodec -----------------------------
(***************************************************************************)
(* Grok Bot: one record per line, no header.  A result names the tool that *)
(* gave it and not the call, so it is matched to a call as it is read.     *)
(***************************************************************************)
EXTENDS Conversation

\* role: "user", "assistant", "tool" or one the codec does not know
GrokBotRecord(role, content) == [type |-> "record", role |-> role, content |-> content]
\* id: the toolCallId among a call's inputs, NoId where there is none
NativeUse(id, name) == [kind |-> "use", id |-> id, tool |-> name]
NativeResult(name, v, err) == [kind |-> "result", name |-> name, v |-> v, err |-> err]

GrokBotNames == [Bash |-> "shell", Read |-> "read"]
GrokBotDenormalizeTool(tool) == IF tool \in DOMAIN GrokBotNames THEN GrokBotNames[tool] ELSE tool
GrokBotNormalizeTool(name) ==
  IF \E t \in DOMAIN GrokBotNames : GrokBotNames[t] = name
  THEN CHOOSE t \in DOMAIN GrokBotNames : GrokBotNames[t] = name
  ELSE name

SyntheticToolId(i, j) == <<"grok-bot", i, j>>
OrphanId(name) == <<"orphan", name>>

\* The oldest open call of that tool; with none, the oldest of any.
TakePending(pending, name) ==
  LET at == SelectInSeq(pending, LAMBDA p : p.name = name)
  IN CASE pending = <<>> -> [id |-> OrphanId(name), pending |-> <<>>]
       [] at # 0 -> [id |-> pending[at].id, pending |-> RemoveAt(pending, at)]
       [] OTHER -> [id |-> pending[1].id, pending |-> Tail(pending)]

GrokBotKinds(role) ==
  CASE role = "user" -> {"text", "result", "use"}
    [] role = "assistant" -> {"text", "use", "thinking"}
    [] role = "tool" -> {"result"}
    [] OTHER -> {}

\* s: the blocks read so far, and the open calls, oldest first
ProjectBlock(s, b, i, j) ==
  CASE b.kind = "use" ->
         LET id == IF b.id = NoId THEN SyntheticToolId(i, j) ELSE b.id
         IN [out |-> Append(s.out, Use(id, GrokBotNormalizeTool(b.tool))),
             pending |-> Append(s.pending, [id |-> id, name |-> b.tool])]
    [] b.kind = "result" ->
         LET taken == TakePending(s.pending, b.name)
         IN [out |-> Append(s.out, Result(taken.id, b.v, b.err)), pending |-> taken.pending]
    [] b.kind \in {"text", "thinking"} ->
         IF b.v = Blank THEN s ELSE [s EXCEPT !.out = Append(@, b)]

ProjectBlocks(pending, line, i) ==
  LET upTo[j \in 0 .. Len(line.content)] ==
        IF j = 0 THEN [out |-> <<>>, pending |-> pending]
        ELSE IF line.content[j].kind \in GrokBotKinds(line.role)
        THEN ProjectBlock(upTo[j - 1], line.content[j], i, j) ELSE upTo[j - 1]
  IN upTo[Len(line.content)]

GrokBotOnRecord(s, line, i) ==
  LET read == ProjectBlocks(s.pending, line, i)
      role == IF line.role = "assistant" THEN "assistant" ELSE "user"
  IN [out |-> s.out \o IfSome(read.out, <<Message(role, read.out)>>), pending |-> read.pending]

GrokBotToCommon(log) ==
  LET read[i \in 0 .. Len(log)] ==
        IF i = 0 THEN [out |-> <<>>, pending |-> <<>>] ELSE GrokBotOnRecord(read[i - 1], log[i], i)
  IN read[Len(log)].out

(***************************************************************************)
(* Encoding.  names: the native name of every call met so far, by its id.  *)
(* Of what a user's message holds, the calls go first, as the assistant's, *)
(* then the texts, then a record for each result.                          *)
(***************************************************************************)
Remember(names, content) ==
  FoldLeft(LAMBDA m, b : [id \in DOMAIN m \cup {b.id} |->
                            IF id = b.id THEN GrokBotDenormalizeTool(b.tool) ELSE m[id]],
           names, OfKind(content, {"use"}))
NameOf(names, id) == IF id \in DOMAIN names THEN names[id] ELSE "tool"

UserRecords(names, msg) ==
  LET said == OfKind(msg.content, {"text"})
  IN Each(LAMBDA b : GrokBotRecord("assistant", <<NativeUse(b.id, GrokBotDenormalizeTool(b.tool))>>),
          OfKind(msg.content, {"use"}))
     \o IfSome(said, <<GrokBotRecord("user", said)>>)
     \o Each(LAMBDA b : GrokBotRecord("tool", <<NativeResult(NameOf(names, b.id), b.v, b.err)>>),
             OfKind(msg.content, {"result"}))

AssistantRecords(msg) ==
  LET kept == Where(msg.content, LAMBDA b : \/ b.kind \in {"thinking", "use"}
                                            \/ b.kind = "text" /\ b.v # Blank)
      native == Each(LAMBDA b : IF b.kind = "use" THEN NativeUse(b.id, GrokBotDenormalizeTool(b.tool))
                                ELSE b, kept)
  IN IfSome(native, <<GrokBotRecord("assistant", native)>>)

GrokBotOnMessage(s, msg) ==
  LET names == Remember(s.names, msg.content)
  IN [names |-> names,
      out |-> s.out \o IF msg.role = "user" THEN UserRecords(names, msg)
                       ELSE AssistantRecords(msg)]

GrokBotFromCommon(meta, body) ==
  LET written[i \in 0 .. Len(body)] ==
        IF i = 0 THEN [names |-> <<>>, out |-> <<>>] ELSE GrokBotOnMessage(written[i - 1], body[i])
  IN written[Len(body)].out

\* The file names no session: its id is its directory's, and the title the
\* first thing the user said.
FirstSaid(log) ==
  LET texts == FlattenSeq(Each(LAMBDA line : IF line.role = "user"
                 THEN Where(line.content, LAMBDA b : b.kind = "text" /\ b.v # Blank)
                 ELSE <<>>, log))
  IN IF texts = <<>> THEN NoId ELSE <<"said", texts[1].v>>
GrokBotMetaOf(log) == [id |-> NoId, title |-> FirstSaid(log)]
=============================================================================
