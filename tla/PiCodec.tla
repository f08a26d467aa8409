------------------------------- MODULE PiCodec -------------------------------
(***************************************************************************)
(* pi (and Campfire, which embeds it): a session header and then one line  *)
(* per entry, read in file order.                                          *)
(***************************************************************************)
EXTENDS Conversation

PiLine(type) == [type |-> type]
PiHeader(id) == [type |-> "session", id |-> id]
PiEntry(role, content) == [type |-> "message", role |-> role, content |-> content]
PiCustom(content) == [type |-> "custom_message", content |-> content]
PiToolResult(id, v, err) == [type |-> "message", role |-> "toolResult",
                             id |-> id, v |-> v, err |-> err]
BashExecution(v, err, excluded) == [type |-> "message", role |-> "bashExecution",
                                    v |-> v, err |-> err, excluded |-> excluded]

\* pi's names; an edit call carries one edit or, "edits" here, several.
PiNames == [Bash |-> "bash", Read |-> "read", Write |-> "write", Edit |-> "edit",
            MultiEdit |-> "edits", Grep |-> "grep", Glob |-> "find", LS |-> "ls"]
PiDenormalize(tool) == IF tool \in DOMAIN PiNames THEN PiNames[tool] ELSE tool
PiNormalize(name) ==
  IF \E t \in DOMAIN PiNames : PiNames[t] = name
  THEN CHOOSE t \in DOMAIN PiNames : PiNames[t] = name
  ELSE name

PiNotBlank(content) == Where(content, LAMBDA b : b.kind \in {"text", "thinking"} => b.v # Blank)

ParseUser(content) == PiNotBlank(OfKind(content, {"text", "image"}))
ParseAssistant(content) ==
  LET shown == PiNotBlank(OfKind(content, {"text", "thinking", "use"}))
  IN [i \in DOMAIN shown |-> IF shown[i].kind = "use"
                             THEN Use(shown[i].id, PiNormalize(shown[i].tool))
                             ELSE shown[i]]

\* A run of the user's own is shown as a call and its result, under an id
\* that counts the runs of the file.
BashTurns(run, seq) ==
  IF run.excluded THEN <<>>
  ELSE << Assistant(<<Use(<<"bash_exec", seq>>, "Bash")>>),
          User(<<Result(<<"bash_exec", seq>>, run.v, run.err)>>) >>

PiTurns(log, i) ==
  LET line == log[i]
      IsRun(k) == log[k].type = "message" /\ log[k].role = "bashExecution"
  IN CASE line.type = "message" /\ line.role = "user" ->
            LET content == ParseUser(line.content)
            IN IfSome(content, <<User(content)>>)
       [] line.type = "message" /\ line.role = "assistant" ->
            LET content == ParseAssistant(line.content)
            IN IfSome(content, <<StoppedAs(line, Assistant(content))>>)
       [] line.type = "message" /\ line.role = "toolResult" ->
            <<User(<<Result(line.id, line.v, line.err)>>)>>
       [] line.type = "message" /\ line.role = "bashExecution" ->
            BashTurns(line, Cardinality({k \in 1 .. i : IsRun(k)}))
       [] line.type = "custom_message" ->
            LET content == ParseUser(line.content)
            IN IfSome(content, <<User(content)>>)
       [] OTHER -> <<>>

PiToCommon(log) == FlattenSeq([i \in DOMAIN log |-> PiTurns(log, i)])

\* The mutation that writes every result as a success.
ResultLine_Fault(r) == PiToolResult(r.id, r.v, FALSE)

ResultLine(r) == PiToolResult(r.id, r.v, r.err)

\* Results become lines of their own, ahead of what else the user said; a
\* user's thoughts and calls, and the model's images, have no place in pi.
Payloads(msg) ==
  LET results == OfKind(msg.content, {"result"})
      said == OfKind(msg.content, IF msg.role = "user"
                                  THEN {"text", "image", "artifact"}
                                  ELSE {"text", "thinking", "artifact", "use"})
      content == [i \in DOMAIN said |->
                    CASE said[i].kind = "artifact" -> DisplayText(said[i])
                      [] said[i].kind = "use" -> Use(said[i].id, PiDenormalize(said[i].tool))
                      [] OTHER -> said[i]]
  IN (IF msg.role = "user"
      THEN Each(ResultLine, results)
      ELSE <<>>)
     \o IfSome(content, <<StoppedAs(msg, PiEntry(msg.role, content))>>)

PiFromCommon(meta, body) ==
  <<PiHeader(meta.id)>> \o FlattenSeq(Each(Payloads, body))

\* The fold over the lines that carry metadata; the title is the last name given.
LastOf(log, type) ==
  LET at == {i \in DOMAIN log : log[i].type = type}
  IN IF at = {} THEN 0 ELSE CHOOSE i \in at : \A k \in at : k <= i
PiMetaOf(log) ==
  [id |-> IF LastOf(log, "session") = 0 THEN NoId ELSE log[LastOf(log, "session")].id,
   title |-> IF LastOf(log, "session_info") = 0 THEN NoId
             ELSE log[LastOf(log, "session_info")].title]

\* Discovery reads the header, which must be the first line that parses, and
\* after it only the lines whose type can carry metadata.
PiScan(log) ==
  LET lines == SelectSeq(log, LAMBDA l : l.type # "junk")
  IN IF lines = <<>> \/ lines[1].type # "session" THEN {}
     ELSE {PiMetaOf(SelectSeq(lines,
              LAMBDA l : l.type \in {"session", "model_change", "session_info"}))}
=============================================================================
