------------------------------ MODULE NativeLogs ------------------------------
(***************************************************************************)
(* What the harnesses themselves write: not txcript's code, but the inputs *)
(* of its decoders, taken from the fixtures of the tests and from the      *)
(* format notes.  Each harness has an empty session and, for a session and *)
(* the number of the step, the sessions that one more thing said or done   *)
(* can make of it.  Every text, thought and output is the step's number.   *)
(* Of the messages a harness writes, pi's and fx's are also cut short; in  *)
(* the others a stop comes by conversion.                                  *)
(***************************************************************************)
EXTENDS PiCodec, CodexCodec, ClaudeCodec, SimpleCodec, HermesCodec, OpenCodeCodec,
        AmpCodec, FxCodec, GrokCodec, GrokBotCodec, AntigravityCodec, CursorCodec,
        CursorDesktopCodec, ChatGptCodec, ClaudeChatCodec, CoworkCodec, ShareCodec

SessionId == <<"session", 1>>
SessionTitle == <<"title", 1>>
Renamed == <<"title", 2>>

\* A call, or two at once; the second of two fails.
Calls(n, tool) == { <<Use(<<"a", n>>, tool)>>,
                    <<Use(<<"a", n>>, tool), Use(<<"b", n>>, tool)>> }
Own(id) == id[1] \in {"a", "b"}
Fails(id) == id[1] = "b"
\* What a call gives is a piece of its own: of the step and of the call.
Output(n, id) == <<n + 10 * id[2] + IF Fails(id) THEN 100 ELSE 0>>
Asks(n) == { <<Text(<<n>>)>>, <<Text(<<n>>), Image(<<n>>)>> }
Says(n) == <<Thinking(<<n>>), Text(<<n>>)>>

\* The ids of the harness's own calls that are still without a result.
Open(body) ==
  LET flat == Each(LAMBDA f : f.block, Flat(body))
      Ids(kind) == {OfKind(flat, {kind})[i].id : i \in DOMAIN OfKind(flat, {kind})}
  IN {id \in Ids("use") \ Ids("result") : Own(id)}

Appending(log, lines) == {Append(log, line) : line \in lines}

PiGrow(log, n) == Appending(log,
  {PiEntry("user", c) : c \in Asks(n)}
  \cup {PiEntry("assistant", c) : c \in {Says(n)} \cup Calls(n, "bash")}
  \cup {StoppedAs(Aborted(c), PiEntry("assistant", c)) : c \in Calls(n, "bash")}
  \cup {PiToolResult(id, Output(n, id), Fails(id)) : id \in Open(PiToCommon(log))}
  \cup {BashExecution(<<n>>, FALSE, excluded) : excluded \in BOOLEAN}
  \cup {[type |-> "session_info", title |-> Renamed], PiLine("junk")})

CodexGrow(log, n) ==
  LET open == Open(CodexToCommon(log))
      ended == {log[i].id : i \in {i \in DOMAIN log : log[i].type = "exec_command_end"}}
      Times(type, action) ==
        Cardinality({i \in DOMAIN log : log[i].type = type /\ log[i].action = action})
      \* the item of a search may follow its end
      ending == {action \in {"a", "b"} :
                   Times("web_search_end", action) <= Times("web_search_call", action)}
  IN Appending(log,
       {CodexItem("user", c) : c \in Asks(n)}
       \cup {CodexItem("assistant", <<Text(<<n>>)>>), CodexReasoning(<<n>>), CodexSetup}
       \cup {FunctionCall(<<"a", n>>, "exec_command"), FunctionCall(<<"b", n>>, "update_plan"),
             CustomCall(<<"a", n>>, "apply_patch: one hunk")}
       \cup {ExecEnd(e[1], Output(n, e[1]), e[2]) : e \in {id \in open : id[1] = "a"} \X BOOLEAN}
       \cup {FunctionOutput(id, Output(n, id)) : id \in (open \cup ended)}
       \cup {CustomOutput(id, Output(n, id), FALSE) : id \in {id \in open : id[1] = "a"}}
       \cup {SearchCall(NoId, action) : action \in {"a", "b"}}
       \cup {SearchEnd(<<"s", n>>, <<n>>, action) : action \in ending})

\* Each block the model writes is an entry of its own; a file is published by
\* a call whose result follows.
ClaudeGrow(log, session, n) ==
  LET entries == SelectSeq(log, LAMBDA l : l.type \in {"user", "assistant", "system"})
      uuid == <<"uuid", n>>
      parent == IF entries = <<>> THEN NoId ELSE Last(entries).uuid
      Entry(role, content) == ClaudeEntry(role, uuid, parent, session, content)
      command == entries # <<>> /\ Last(entries).envelope = "command"
      flat == Each(LAMBDA f : f.block, Flat(ClaudeToCommon(log)))
      answered == {OfKind(flat, {"result"})[i].id : i \in DOMAIN OfKind(flat, {"result"})}
      published == Where(flat, Published)
      files == {published[i].id : i \in DOMAIN published}
      open == Open(ClaudeToCommon(log))
  IN Appending(log,
       {Entry("user", c) : c \in Asks(n)}
       \cup {Entry("assistant", c) : c \in {<<Thinking(<<n>>)>>, <<Text(<<n>>)>>} \cup Calls(n, "Bash")}
       \cup {Entry("assistant", <<ArtifactCall(<<"a", n>>, <<n>>)>>)}
       \cup {Entry("user", <<Result(id, Output(n, id), Fails(id))>>) :
               id \in open \cup (files \ answered)}
       \cup {Envelope("user", e, uuid, parent, session, <<n>>) : e \in {"command", "caveat"}}
       \cup {Envelope("system", "stdout", uuid, parent, session, <<n>>) :
               i \in IF command THEN {1} ELSE {}}
       \cup {Title("custom-title", Renamed)})

\* Cowork's session is renamed in its record.
CoworkGrow(log, n) ==
  {<<log[1]>> \o grown : grown \in ClaudeGrow(Tail(log), log[1].cli, n)}
  \cup {[log EXCEPT ![1].title = Renamed]}

\* Written by hand: ids may be left out, and so may a call's result.
SimpleGrow(log, n) == Appending(log,
  {SimpleEntry("user", c) : c \in Asks(n) \cup {<<Artifact(<<"f", n>>, <<n>>, "inline")>>}}
  \cup {SimpleEntry("assistant", c) :
          c \in {Says(n), <<Use(NoId, "Bash")>>, <<Artifact(<<"f", n>>, <<n>>, "path")>>}
                  \cup Calls(n, "Bash")}
  \cup {SimpleEntry("user", <<Result(id, Output(n, id), Fails(id))>>) :
          id \in Open(SimpleToCommon(log)) \cup {NoId}}
  \cup {SimpleEntry("system", <<Text(<<n>>)>>)})

\* The document is put again, longer.
ShareGrow(log, n) == {<<log[1]>> \o doc : doc \in SimpleGrow(Tail(log), n)}

HermesGrow(log, n) ==
  Appending(log,
    {HermesRow("user", c, Blank, <<>>) : c \in Asks(n)}
    \cup {HermesRow("assistant", <<Text(<<n>>)>>, <<n>>, <<>>)}
    \cup {HermesRow("assistant", <<>>, Blank, c) : c \in Calls(n, "terminal")}
    \cup {ToolRow(id, Output(n, id), Fails(id)) : id \in Open(HermesToCommon(log))})
  \cup {[log EXCEPT ![i] = Rewound(@)] : i \in {i \in {Len(log)} : log[i].type = "row"}}

\* A call's part is updated in place when it ends.
OpenCodeGrow(log, n) ==
  LET parts == {p \in (DOMAIN log) \X (1 .. 4) :
                  LET i == p[1]
                      j == p[2]
                  IN /\ log[i].type = "message" /\ j \in DOMAIN log[i].parts
                     /\ log[i].parts[j].kind = "tool" /\ log[i].parts[j].status = "running"
                     /\ Own(log[i].parts[j].id)}
      Running(id) == OpenCodeTool(id, "bash", "running", Blank)
  IN Appending(log,
       {OpenCodeRecord("user", c) : c \in Asks(n) \cup {<<Synthetic(<<n>>)>>}}
       \cup {OpenCodeRecord("assistant", <<StepStart>> \o c) :
               c \in {Says(n), <<Running(<<"a", n>>)>>,
                      <<Text(<<n>>), Running(<<"a", n>>), Running(<<"b", n>>)>>}})
     \cup {[log EXCEPT ![p[1]].parts[p[2]] =
              OpenCodeTool(@.id, @.tool, IF Fails(@.id) THEN "error" ELSE "completed", Output(n, @.id))]
             : p \in parts}

AmpGrow(log, n) ==
  LET Ran(id) == Run(id, Output(n, id), IF Fails(id) THEN "cancelled" ELSE "done")
      open == Open(AmpToCommon(log))
  IN Appending(log,
       {AmpEntry("user", c) : c \in Asks(n)}
       \cup {AmpEntry("assistant", c) : c \in {Says(n)} \cup Calls(n, "shell_command")}
       \cup {AmpEntry("user", <<Ran(id)>>) : id \in open}
       \cup {AmpEntry("user", <<Ran(p[1]), Ran(p[2])>>) : p \in {p \in open \X open : p[1] # p[2]}})

\* A turn is written when it is over, or was interrupted.
FxGrow(log, n) ==
  LET Step(calls) == FxStep(<<n>>, calls,
                       Each(LAMBDA c : Result(c.id, Output(n, c.id), Fails(c.id)), calls))
      Steps == {<<>>} \cup {<<Step(calls)>> : calls \in Calls(n, "terminal")}
  IN Appending(log,
       {FxTurn(<<n>>, <<>>, steps, <<n>>) : steps \in Steps}
       \cup {FxTurn(<<n>>, <<Image(<<n>>)>>, <<>>, <<n>>)}
       \cup {FxInterrupted(<<n>>, <<>>, <<n>>, call) :
               call \in {<<>>, <<Use(<<"a", n>>, "terminal")>>}})

GrokGrow(log, n) ==
  LET prompts == Cardinality({i \in DOMAIN log : IsPromptLine(log[i])})
      asked == <<UserLine(<<n>>)>>
  IN {log \o lines : lines \in
        { asked, asked \o <<ImageChunk(prompts, <<n>>)>>, <<UserInfo>>,
          <<GrokReasoning(<<n>>)>>, <<AssistantLine(<<n>>, <<>>)>> }
        \cup {<<AssistantLine(Blank, c)>> : c \in Calls(n, "Shell")}
        \cup {<<CallUpdate(id, Fails(id)), GrokToolResult(id, Output(n, id))>> :
                id \in Open(GrokToCommon(log))}}

GrokBotGrow(log, n) == Appending(log,
  {GrokBotRecord("user", <<Text(<<n>>)>>), GrokBotRecord("assistant", Says(n)),
   GrokBotRecord("assistant", <<NativeUse(NoId, "read")>>)}
  \cup {GrokBotRecord("assistant", Each(LAMBDA c : NativeUse(c.id, c.tool), calls)) :
          calls \in Calls(n, "shell")}
  \cup {GrokBotRecord("tool", <<NativeResult("shell", <<n + 10>>, FALSE)>>) :
          id \in Open(GrokBotToCommon(log))})

\* A call's step is written when it starts and updated in place.
AntigravityGrow(log, n) ==
  LET Started(calls) == Each(LAMBDA c : ToolStep(c.id, "pending", Blank, FALSE), calls)
      pending == {i \in DOMAIN log : /\ log[i].type = "tool" /\ log[i].status = "pending"
                                     /\ Own(log[i].id)}
  IN {log \o steps : steps \in
        {<<UserInput(<<n>>, <<>>)>>, <<UserInput(<<n>>, << <<n>> >>)>>,
         <<Planner(<<n>>, <<n>>, <<>>)>>, <<Checkpoint(Renamed)>>}
        \cup {<<Planner(Blank, <<n>>, c)>> \o Started(c) : c \in Calls(n, "run_command")}}
     \cup {[log EXCEPT ![i] = ToolStep(@.id, "done", Output(n, @.id), Fails(@.id))] : i \in pending}

CursorGrow(log, n) == Appending(log,
  {Json("user", c) : c \in Asks(n)}
  \cup {Json("assistant", c) :
          c \in {Says(n), <<Use(NoId, "Read")>>} \cup Calls(n, "Shell")}
  \cup {Json("tool", <<Result(id, Output(n, id), Fails(id))>>) : id \in Open(CursorToCommon(log))}
  \cup {Injected(<<n>>), Json("system", <<Text(<<n>>)>>)})

\* A call's bubble is written when it starts and updated in place.
CursorDesktopGrow(log, n) ==
  LET Started(id) == ToolBubble(id, "run_terminal_command_v2", "started", Blank)
      started == {i \in DOMAIN log : /\ log[i].type = "tool" /\ log[i].status = "started"
                                     /\ Own(log[i].id)}
  IN Appending(log,
       {UserBubble(<<n>>), ThinkingBubble(<<n>>),
        TextBubble(<<n>>), Started(<<"a", n>>), Started(<<"b", n>>)})
     \cup {[log EXCEPT ![i] = ToolBubble(@.id, @.tool,
                                IF Fails(@.id) THEN "error" ELSE "completed", Output(n, @.id))]
             : i \in started}

\* Whoever tries again leaves the current branch for one beside it.
ChatGptGrow(log, n) ==
  LET id == <<"node", n>>
      here == log[1].current
      at == NodeAt(log, here)
      beside == IF at = <<>> THEN {} ELSE {at[1].parent}
      Node(parent, role, recipient, reasoning, hidden) ==
        ChatGptNode(id, parent, role, recipient, reasoning, hidden, <<n>>)
      called == at # <<>> /\ IsCall(at[1])
  IN {Append([log EXCEPT ![1].current = id], node) : node \in
        {Node(here, "user", "all", FALSE, FALSE), Node(here, "assistant", "all", TRUE, FALSE),
         Node(here, "system", "all", FALSE, TRUE), Node(here, "assistant", "python", FALSE, FALSE)}
        \cup {Node(parent, "assistant", "all", FALSE, FALSE) : parent \in {here} \cup beside}
        \cup {Node(here, "tool", "all", FALSE, FALSE) : i \in IF called THEN {1} ELSE {}}}

ClaudeChatGrow(log, n) ==
  LET uuid == <<"uuid", n>>
      here == log[1].leaf
      at == Named(log, here)
      beside == IF at = <<>> THEN {} ELSE {at[1].parent}
      Answered(calls) ==
        calls \o Each(LAMBDA c : Returned(c.id, Output(n, c.id), Fails(c.id), <<>>), calls)
      published == <<Use(<<"a", n>>, "present"),
                     Returned(NoId, <<n>>, FALSE, <<Artifact(<<"f", n>>, <<n>>, "inline")>>)>>
  IN {Append([log EXCEPT ![1].leaf = uuid], message) : message \in
        {Native(uuid, here, "user", <<>>, <<n>>, <<Image(<<n>>)>>),
         Native(uuid, here, "user", <<Text(<<n>>)>>, <<n>>, <<>>)}
        \cup {Native(uuid, parent, "assistant", Says(n), Blank, <<>>) :
                parent \in {here} \cup beside}
        \cup {Native(uuid, here, "assistant", c, Blank, <<>>) :
                c \in {Answered(calls) : calls \in Calls(n, "bash_tool")} \cup {published}}}

(***************************************************************************)
(* All of them.                                                            *)
(***************************************************************************)
Empty ==
  [pi |-> <<PiHeader(SessionId)>>,
   codex |-> <<SessionMeta(SessionId)>>,
   claude |-> <<Title("summary", SessionTitle)>>,
   simple |-> <<Doc(SessionId, SessionTitle)>>,
   hermes |-> <<HermesSession(SessionId, SessionTitle)>>,
   opencode |-> <<OpenCodeSession(SessionId, Placeholder)>>,
   amp |-> <<Thread(SessionId, SessionTitle, TRUE)>>,
   fx |-> <<FxSession(SessionId, NoId, <<>>)>>,
   grok |-> <<GrokSummary(SessionId, SessionTitle)>>,
   grok_bot |-> <<>>,
   antigravity |-> <<Trajectory(SessionId)>>,
   cursor |-> <<CursorHeader(SessionId, SessionTitle)>>,
   cursor_desktop |-> <<CursorDesktopHeader(SessionId, NoId)>>,
   chatgpt |-> <<ChatGptConversation(SessionId, SessionTitle, NoId)>>,
   claude_chat |-> <<Chat(SessionId, SessionTitle, NoId)>>,
   cowork |-> <<CoworkHeader(<<"local", 1>>, SessionId, NoId)>>,
   campfire |-> <<PiHeader(SessionId)>>,
   share |-> <<Slug(SessionId), Doc(NoId, SessionTitle)>>]

\* Campfire embeds pi: its codec and its store are pi's, under another name.
OfPi == {"pi", "campfire"}

Grow(harness, log, n) ==
  CASE harness \in OfPi -> PiGrow(log, n)
    [] harness = "codex" -> CodexGrow(log, n)
    [] harness = "claude" ->
         LET id == ClaudeMetaOf(log).id
         IN ClaudeGrow(log, IF id = NoId THEN SessionId ELSE id, n)
    [] harness = "simple" -> SimpleGrow(log, n)
    [] harness = "hermes" -> HermesGrow(log, n)
    [] harness = "opencode" -> OpenCodeGrow(log, n)
    [] harness = "amp" -> AmpGrow(log, n)
    [] harness = "fx" -> FxGrow(log, n)
    [] harness = "grok" -> GrokGrow(log, n)
    [] harness = "grok_bot" -> GrokBotGrow(log, n)
    [] harness = "antigravity" -> AntigravityGrow(log, n)
    [] harness = "cursor" -> CursorGrow(log, n)
    [] harness = "cursor_desktop" -> CursorDesktopGrow(log, n)
    [] harness = "chatgpt" -> ChatGptGrow(log, n)
    [] harness = "claude_chat" -> ClaudeChatGrow(log, n)
    [] harness = "cowork" -> CoworkGrow(log, n)
    [] harness = "share" -> ShareGrow(log, n)
=============================================================================
