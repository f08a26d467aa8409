------------------------------- MODULE AmpCodec -------------------------------
(***************************************************************************)
(* Amp: one document per thread, whose messages map one to one onto        *)
(* Common's.                                                               *)
(***************************************************************************)
EXTENDS Conversation

\* versioned: it has the revision counter by which a thread is recognised
Thread(id, title, versioned) == [type |-> "thread", id |-> id, title |-> title,
                                 versioned |-> versioned]
AmpEntry(role, content) == [type |-> "message", role |-> role, content |-> content]
\* status: "done", "error", "cancelled", "rejected-by-user"
Run(id, v, status) == [kind |-> "run", id |-> id, v |-> v, status |-> status]

\* Amp has written two names for some tools; txcript writes the older.
AmpNames == [Edit |-> "edit_file", Write |-> "create_file", Glob |-> "glob"]
AmpDenormalizeTool(tool) == IF tool \in DOMAIN AmpNames THEN AmpNames[tool] ELSE tool
AmpNormalizeTool(name) ==
  CASE name = "shell_command" -> "Bash"
    [] \E t \in DOMAIN AmpNames : AmpNames[t] = name ->
         CHOOSE t \in DOMAIN AmpNames : AmpNames[t] = name
    [] OTHER -> name

\* A run that did not end in an error of its own may still have failed.
ToBlock(b) ==
  CASE b.kind \in {"text", "thinking"} -> IF b.v = Blank THEN <<>> ELSE <<b>>
    [] b.kind = "image" -> <<b>>
    [] b.kind = "use" -> <<Use(b.id, AmpNormalizeTool(b.tool))>>
    [] b.kind = "run" ->
         <<Result(b.id, b.v, b.status \in {"error", "cancelled", "rejected-by-user"})>>
    [] OTHER -> <<>>

\* What a message of each role is read for.
AmpRead == [user |-> {"text", "image", "run"}, assistant |-> {"text", "thinking", "use", "image"}]

AmpTurns(line) ==
  IF line.type # "message" \/ line.role \notin DOMAIN AmpRead THEN <<>>
  ELSE LET content == FlattenSeq(Each(ToBlock, OfKind(line.content, AmpRead[line.role])))
       IN IfSome(content, <<StoppedAs(line, Message(line.role, content))>>)

AmpToCommon(log) == FlattenSeq(Each(AmpTurns, log))

\* A user's thoughts and calls, and the model's results, are not rendered.
UserValue(b) ==
  CASE b.kind \in {"text", "image"} -> <<b>>
    [] b.kind = "artifact" -> <<DisplayText(b)>>
    [] b.kind = "result" -> <<Run(b.id, b.v, IF b.err THEN "error" ELSE "done")>>
    [] OTHER -> <<>>
AssistantValue(b) ==
  CASE b.kind \in {"text", "thinking", "image"} -> <<b>>
    [] b.kind = "artifact" -> <<DisplayText(b)>>
    [] b.kind = "use" -> <<Use(b.id, AmpDenormalizeTool(b.tool))>>
    [] OTHER -> <<>>

\* A reply cut short is one whose state is "cancelled".
MessageValue(msg) ==
  StoppedAs(msg, AmpEntry(msg.role,
    FlattenSeq(IF msg.role = "user" THEN Each(UserValue, msg.content)
               ELSE Each(AssistantValue, msg.content))))

\* Amp accepts only ids of its own shape; another's becomes one of that shape.
AmpThreadId(id) == <<"T", id[2]>>
AmpFromCommon(meta, body) ==
  <<Thread(AmpThreadId(meta.id), meta.title, TRUE)>> \o Each(MessageValue, body)

AmpMetaOf(log) == [id |-> log[1].id, title |-> log[1].title]
AmpScan(log) == IF log[1].versioned THEN {AmpMetaOf(log)} ELSE {}
=============================================================================
