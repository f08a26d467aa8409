----------------------------- MODULE ChatGptCodec -----------------------------
(***************************************************************************)
(* ChatGPT: a tree of nodes, of which the account's current one ends the   *)
(* conversation shown.  txcript reads it and never writes it.              *)
(***************************************************************************)
EXTENDS Conversation

ChatGptConversation(id, title, current) ==
  [type |-> "conversation", id |-> id, title |-> title, current |-> current]
\* recipient: "all", or the tool the model calls; reasoning: a thought, by
\* the type of the content, by its channel or by its metadata
ChatGptNode(id, parent, role, recipient, reasoning, hidden, v) ==
  [type |-> "node", id |-> id, parent |-> parent, role |-> role, recipient |-> recipient,
   reasoning |-> reasoning, hidden |-> hidden, v |-> v]

ChatGptNodes(log) == Where(log, LAMBDA l : l.type = "node")
NodeAt(log, id) == Where(ChatGptNodes(log), LAMBDA n : n.id = id)

(***************************************************************************)
(* From the current node up to the root.  A tree without a current node,   *)
(* with a parent that is not there or that runs in a circle is shown       *)
(* whole, by time, rather than cut.                                        *)
(***************************************************************************)
ChatGptParentOf(log, found) == IF found = <<>> THEN <<>> ELSE NodeAt(log, found[1].parent)
ChatGptAncestors(log) ==
  LET up[k \in 0 .. Len(log)] ==
        IF k = 0 THEN NodeAt(log, log[1].current) ELSE ChatGptParentOf(log, up[k - 1])
  IN [k \in 1 .. Len(log) |-> up[k - 1]]
ChatGptActivePath(log) ==
  LET up == ChatGptAncestors(log)
      roots == {k \in DOMAIN up : up[k] # <<>> /\ up[k][1].parent = NoId}
      root == CHOOSE k \in roots : TRUE
  IN IF roots = {} THEN ChatGptNodes(log) ELSE Reverse([k \in 1 .. root |-> up[k][1]])

IsCall(node) == node.recipient \notin {"all", "assistant"}

\* A result answers its parent, if that is a call; else the last call shown.
ParentToolId(log, node) ==
  LET parent == NodeAt(log, node.parent)
  IN IF parent # <<>> /\ IsCall(parent[1]) THEN parent[1].id ELSE NoId
ChatGptResultId(log, node, lastToolId) ==
  CASE ParentToolId(log, node) # NoId -> ParentToolId(log, node)
    [] ParentToolId(log, node) = NoId /\ lastToolId # NoId -> lastToolId
    [] OTHER -> node.id

OnNode(log, s, node) ==
  CASE node.role = "tool" ->
         [s EXCEPT !.out = @ \o IF node.v = Blank THEN <<>>
            ELSE <<User(<<Result(ChatGptResultId(log, node, s.lastToolId), node.v, FALSE)>>)>>]
    [] node.role = "assistant" /\ ~ node.hidden /\ IsCall(node) ->
         [out |-> Append(s.out, Assistant(<<Use(node.id, node.recipient)>>)),
          lastToolId |-> node.id]
    [] /\ node.role = "user" \/ (node.role = "assistant" /\ ~ IsCall(node))
       /\ ~ node.hidden /\ node.v # Blank ->
         [s EXCEPT !.out = Append(@, Message(node.role,
            <<IF node.reasoning THEN Thinking(node.v) ELSE Text(node.v)>>))]
    [] OTHER -> s

ChatGptToCommon(log) ==
  LET path == ChatGptActivePath(log)
      shown[i \in 0 .. Len(path)] ==
        IF i = 0 THEN [out |-> <<>>, lastToolId |-> NoId]
        ELSE OnNode(log, shown[i - 1], path[i])
  IN shown[Len(path)].out

ChatGptMetaOf(log) == [id |-> log[1].id, title |-> log[1].title]
=============================================================================
