------------------------------ MODULE ClaudeCodec ------------------------------
(***************************************************************************)
(* Claude Code, and Cowork, which embeds its log: one line per entry, read *)
(* in file order.  What the user ran at the harness itself, a slash        *)
(* command and the output it printed, is an envelope that fills the body   *)
(* of a user line or of a system line.                                     *)
(***************************************************************************)
EXTENDS Conversation

ClaudeEntry(role, uuid, parent, session, content) ==
  [type |-> role, uuid |-> uuid, parent |-> parent, session |-> session,
   envelope |-> "none", content |-> content]
\* envelope: "command", "stdout" or "caveat", on a user or a system line
Envelope(type, envelope, uuid, parent, session, v) ==
  [type |-> type, uuid |-> uuid, parent |-> parent, session |-> session,
   envelope |-> envelope, content |-> <<Text(v)>>]
Title(type, v) == [type |-> type, v |-> v]   \* summary, custom-title, agent-name

Release == "/release"

\* An artifact is the call of a tool of that name, or a document.
ArtifactCall(id, v) == [kind |-> "artifact_call", id |-> id, v |-> v]
Document(id, v) == [kind |-> "document", id |-> id, v |-> v]

ParseBlock(b) ==
  CASE b.kind = "artifact_call" -> Artifact(b.id, b.v, "path")
    [] b.kind = "document" -> Artifact(b.id, b.v, "inline")
    [] OTHER -> b

\* open: the uuid of the command that still awaits its output.
FromEnvelope(s, line) ==
  CASE line.envelope = "command" ->
         [out |-> Append(s.out, User(<<Use(line.uuid, Release)>>)), open |-> line.uuid]
    [] line.envelope = "stdout" ->
         LET id == IF line.parent = s.open /\ s.open # NoId THEN line.parent ELSE line.uuid
         IN [out |-> Append(s.out, User(<<Result(id, line.content[1].v, FALSE)>>)),
             open |-> NoId]
    [] line.envelope = "caveat" -> s

ClaudeOnRecord(s, line) ==
  CASE line.type \in {"user", "assistant"} /\ line.envelope = "none" ->
         [s EXCEPT !.out = @ \o IfSome(line.content,
                                       <<Message(line.type, Each(ParseBlock, line.content))>>)]
    [] line.type \in {"user", "system"} /\ line.envelope # "none" -> FromEnvelope(s, line)
    [] OTHER -> s

ClaudeRecords(log) == Where(log, LAMBDA l : l.type # "junk")
ClaudeToCommon(log) ==
  LET records == ClaudeRecords(log)
      read[i \in 0 .. Len(records)] ==
        IF i = 0 THEN [out |-> <<>>, open |-> NoId] ELSE ClaudeOnRecord(read[i - 1], records[i])
  IN read[Len(records)].out

(***************************************************************************)
(* Encoding.  A file of the model's becomes the call Claude Code makes for *)
(* it, and the result of that call a message of its own.                   *)
(***************************************************************************)
Published(b) == b.kind = "artifact" /\ b.source = "path"

Lower(msg) ==
  LET files == IF msg.role = "assistant" THEN Where(msg.content, Published) ELSE <<>>
  IN << msg >> \o IfSome(files, <<User(Each(LAMBDA a : Result(a.id, OwnWords, FALSE), files))>>)

SerializeBlock(b) ==
  CASE b.kind = "artifact" /\ b.source = "path" -> ArtifactCall(b.id, b.v)
    [] b.kind = "artifact" /\ b.source = "inline" -> Document(NoId, b.v)
    [] OTHER -> b

CallIds(body) ==
  LET flat == Flat(body)
  IN {flat[i].block.id : i \in {i \in DOMAIN flat :
        \/ flat[i].block.kind = "use"
        \/ flat[i].role = "assistant" /\ Published(flat[i].block)}}

IsCommand(msg) == /\ msg.role = "user" /\ Len(msg.content) = 1
                  /\ msg.content[1].kind = "use" /\ msg.content[1].tool = Release
CommandIds(body, i) ==
  {body[k].content[1].id : k \in {k \in 1 .. i - 1 : IsCommand(body[k])}}

\* The mutation that takes every lone result for the output of a command.
IsOutput_Fault(body, i) ==
  /\ body[i].role = "user" /\ Len(body[i].content) = 1
  /\ body[i].content[1].kind = "result"

\* A lone result of a command, or of a call nobody made: it goes back as the
\* output of a command, which a resumed session accepts.
IsOutput(body, i) ==
  LET msg == body[i]
  IN /\ msg.role = "user" /\ Len(msg.content) = 1 /\ msg.content[1].kind = "result"
     /\ \/ msg.content[1].id \in CommandIds(body, i)
        \/ msg.content[1].id \notin CallIds(body)

\* The i-th entry's uuid is a function of the session and of i, and each
\* entry's parent is the one before it.
EntryUuid(session, i) == <<"entry", i>>

RecordOf(session, body, i) ==
  LET uuid == EntryUuid(session, i)
      parent == IF i = 1 THEN NoId ELSE EntryUuid(session, i - 1)
  IN CASE IsCommand(body[i]) -> Envelope("user", "command", uuid, parent, session, Blank)
       [] IsOutput(body, i) ->
            Envelope("system", "stdout", uuid, parent, session, body[i].content[1].v)
       [] OTHER -> ClaudeEntry(body[i].role, uuid, parent, session,
                         Each(SerializeBlock, body[i].content))

\* The title leads as a summary, if a user or assistant line can anchor it.
ClaudeFromCommon(meta, messages) ==
  LET body == FlattenSeq(Each(Lower, messages))
      records == [i \in DOMAIN body |-> RecordOf(meta.id, body, i)]
      anchored == \E i \in DOMAIN records : records[i].type \in {"user", "assistant"}
  IN (IF meta.title # NoId /\ anchored THEN <<Title("summary", meta.title)>> ELSE <<>>)
     \o records

(***************************************************************************)
(* Metadata.  The id is the first a user line has.  The last custom title  *)
(* wins over an agent's name, and either over the first summary.           *)
(***************************************************************************)
OnTitle(title, line) ==
  IF line.type = "custom-title" \/ (line.type = "agent-name" /\ title = NoId)
  THEN line.v ELSE title

ClaudeMetaOf(log) ==
  LET users == SelectSeq(log, LAMBDA l : l.type = "user")
      summaries == SelectSeq(log, LAMBDA l : l.type = "summary")
      custom == FoldLeft(OnTitle, NoId, log)
  IN [id |-> IF users = <<>> THEN NoId ELSE users[1].session,
      title |-> CASE custom # NoId -> custom
                  [] custom = NoId /\ summaries # <<>> -> summaries[1].v
                  [] OTHER -> NoId]

\* The mutation that discovers by the messages alone.
ScanLine_Fault(line) == line.type \in {"user", "assistant", "custom-title", "agent-name"}

\* Discovery parses a line only as far as its metadata goes.
ScanLine(line) == line.type \in {"user", "assistant", "summary", "custom-title", "agent-name"}
ClaudeScan(log) == {ClaudeMetaOf(SelectSeq(log, ScanLine))}
=============================================================================
