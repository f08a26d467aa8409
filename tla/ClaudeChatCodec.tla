---------------------------- MODULE ClaudeChatCodec ----------------------------
(***************************************************************************)
(* Claude's chat: a tree of messages, of which the account's current leaf  *)
(* ends the conversation shown.  One native message may hold the model's   *)
(* calls and their results, which are the user's in Common.  txcript reads *)
(* it and never writes it.                                                 *)
(***************************************************************************)
EXTENDS Conversation

Chat(id, title, leaf) == [type |-> "chat", id |-> id, title |-> title, leaf |-> leaf]
\* text: what a message of before the blocks says; images: those fetched for it
Native(uuid, parent, sender, content, text, images) ==
  [type |-> "message", uuid |-> uuid, parent |-> parent, sender |-> sender,
   content |-> content, text |-> text, images |-> images]
\* id NoId where the block names none; files: those fetched for it
Returned(id, v, err, files) ==
  [kind |-> "result", id |-> id, v |-> v, err |-> err, files |-> files]

\* Several native names for one tool.
ClaudeChatNames == [bash |-> "Bash", bash_tool |-> "Bash", shell_command |-> "Bash",
          view |-> "Read", create_file |-> "Write", str_replace |-> "Edit"]
ClaudeChatNormalizeTool(name) ==
  IF name \in DOMAIN ClaudeChatNames THEN ClaudeChatNames[name] ELSE name

ClaudeChatMessages(log) == Where(log, LAMBDA l : l.type = "message")
\* The last of the messages with that uuid.
Named(log, uuid) ==
  LET at == Where(ClaudeChatMessages(log), LAMBDA m : m.uuid = uuid)
  IN IF at = <<>> THEN <<>> ELSE <<Last(at)>>

ClaudeChatParentOf(log, found) == IF found = <<>> THEN <<>> ELSE Named(log, found[1].parent)
ClaudeChatAncestors(log) ==
  LET up[k \in 0 .. Len(log)] ==
        IF k = 0 THEN Named(log, log[1].leaf) ELSE ClaudeChatParentOf(log, up[k - 1])
  IN [k \in 1 .. Len(log) |-> up[k - 1]]
\* A tree that does not lead from the leaf to a root is shown in the order
\* the server gave.
ClaudeChatActivePath(log) ==
  LET up == ClaudeChatAncestors(log)
      roots == {k \in DOMAIN up : up[k] # <<>> /\ up[k][1].parent = NoId}
      root == CHOOSE k \in roots : TRUE
  IN IF roots = {} THEN ClaudeChatMessages(log) ELSE Reverse([k \in 1 .. root |-> up[k][1]])

SyntheticBlockId(uuid, j) == <<"claude-chat", uuid[2], j>>

\* s: the messages so far, the role and the blocks of the one being put
\* together, and the last call of the native message being read
AppendRoleBlock(s, role, block) ==
  IF s.role = role \/ s.pending = <<>>
  THEN [s EXCEPT !.role = role, !.pending = Append(@, block)]
  ELSE [s EXCEPT !.out = Append(@, Message(s.role, s.pending)),
                 !.role = role, !.pending = <<block>>]
AppendRoleBlocks(s, role, blocks) ==
  LET upTo[j \in 0 .. Len(blocks)] ==
        IF j = 0 THEN s ELSE AppendRoleBlock(upTo[j - 1], role, blocks[j])
  IN upTo[Len(blocks)]

\* A result that names no call answers the last one of its native message.
ClaudeChatResultId(s, uuid, b, j) ==
  CASE b.id # NoId -> b.id
    [] b.id = NoId /\ s.lastToolId # NoId -> s.lastToolId
    [] OTHER -> SyntheticBlockId(uuid, j)

PushBlock(s, native, j) ==
  LET b == native.content[j]
      id == IF b.id = NoId THEN SyntheticBlockId(native.uuid, j) ELSE b.id
      result == Result(ClaudeChatResultId(s, native.uuid, b, j), b.v, b.err)
  IN CASE b.kind = "text" -> IF b.v = Blank THEN s ELSE AppendRoleBlock(s, native.sender, b)
       [] b.kind = "image" -> AppendRoleBlock(s, native.sender, b)
       [] b.kind = "thinking" -> IF b.v = Blank THEN s ELSE AppendRoleBlock(s, "assistant", b)
       [] b.kind = "use" ->
            [AppendRoleBlock(s, "assistant", Use(id, ClaudeChatNormalizeTool(b.tool)))
               EXCEPT !.lastToolId = id]
       [] b.kind = "result" ->
            AppendRoleBlocks(AppendRoleBlock(s, "user", result), "assistant", b.files)
       [] b.kind = "artifact" -> AppendRoleBlock(s, "assistant", Artifact(id, b.v, "inline"))
       [] OTHER -> s

PushBlocks(s, native) ==
  LET upTo[j \in 0 .. Len(native.content)] ==
        IF j = 0 THEN s ELSE PushBlock(upTo[j - 1], native, j)
  IN upTo[Len(native.content)]

\* The text of before the blocks is said unless a block says it; then come
\* the images, and the last message is closed.
PushNativeMessage(out, native) ==
  LET start == [out |-> out, role |-> native.sender, pending |-> <<>>, lastToolId |-> NoId]
      read == PushBlocks(start, native)
      known == \/ native.text = Blank
               \/ \E j \in DOMAIN native.content : native.content[j] = Text(native.text)
      said == IF known THEN read ELSE AppendRoleBlock(read, native.sender, Text(native.text))
      shown == AppendRoleBlocks(said, native.sender, native.images)
  IN IF native.sender \notin {"user", "assistant"} THEN out
     ELSE shown.out \o IfSome(shown.pending, <<Message(shown.role, shown.pending)>>)

ClaudeChatToCommon(log) ==
  LET path == ClaudeChatActivePath(log)
      shown[i \in 0 .. Len(path)] ==
        IF i = 0 THEN <<>> ELSE PushNativeMessage(shown[i - 1], path[i])
  IN shown[Len(path)]

ClaudeChatMetaOf(log) == [id |-> log[1].id, title |-> log[1].title]
=============================================================================
