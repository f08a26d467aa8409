------------------------------- MODULE FxCodec -------------------------------
(***************************************************************************)
(* fx: a log of committed turns, each a prompt, the steps the model took   *)
(* with their calls and results, and its concluding text.  fx has no place *)
(* for thoughts: txcript keeps them in a file of its own beside the log,   *)
(* under the number of the turn and of the model's message in it.  A turn  *)
(* that was interrupted has no steps, but the text so far and the call the *)
(* model was about to make.                                                *)
(***************************************************************************)
EXTENDS Conversation

\* reasoning: <<turn, message>> |-> thoughts
FxSession(id, title, reasoning) ==
  [type |-> "session", id |-> id, title |-> title, reasoning |-> reasoning]
FxStep(text, calls, results) == [text |-> text, calls |-> calls, results |-> results]
FxTurn(text, images, steps, final) ==
  [type |-> "turn", kind |-> "assistant", text |-> text, images |-> images,
   steps |-> steps, final |-> final]
\* call: none or one
FxInterrupted(text, images, final, call) ==
  [type |-> "turn", kind |-> "interrupted", text |-> text, images |-> images,
   final |-> final, call |-> call]

FxNames == [Read |-> "read_file", Write |-> "write_file", Edit |-> "edit_file",
            Bash |-> "terminal"]
FxDenormalizeTool(tool) == IF tool \in DOMAIN FxNames THEN FxNames[tool] ELSE tool
FxNormalizeTool(name) ==
  IF \E t \in DOMAIN FxNames : FxNames[t] = name
  THEN CHOOSE t \in DOMAIN FxNames : FxNames[t] = name
  ELSE name

Spoken(v) == IF v = Blank THEN <<>> ELSE <<Text(v)>>

\* The model's messages of a turn are numbered from 0, empty ones included.
EmitTurn(turn, t, reasoning) ==
  LET With(a, content) ==
        (IF <<t, a>> \in DOMAIN reasoning THEN reasoning[<<t, a>>] ELSE <<>>) \o content
      Says(a, content) == IfSome(With(a, content), <<Assistant(With(a, content))>>)
      Calls(calls) == Each(LAMBDA c : Use(c.id, FxNormalizeTool(c.tool)), calls)
      prompt == Spoken(turn.text) \o turn.images
      Took(k) == LET step == turn.steps[k]
                 IN Says(k - 1, Spoken(step.text) \o Calls(step.calls))
                    \o IfSome(step.results, <<User(step.results)>>)
      Broken(content) == IfSome(With(0, content), <<Aborted(With(0, content))>>)
  IN IfSome(prompt, <<User(prompt)>>)
     \o IF turn.kind = "interrupted"
        THEN Broken(Spoken(turn.final) \o Calls(turn.call))
        ELSE FlattenSeq([k \in DOMAIN turn.steps |-> Took(k)])
             \o Says(Len(turn.steps), Spoken(turn.final))

FxToCommon(log) ==
  LET turns == Where(log, LAMBDA l : l.type = "turn")
  IN FlattenSeq([t \in DOMAIN turns |-> EmitTurn(turns[t], t - 1, log[1].reasoning)])

(***************************************************************************)
(* Encoding cuts the conversation into turns at the user's prompts.        *)
(***************************************************************************)
IsPrompt(msg) == msg.role = "user"
                 /\ \E i \in DOMAIN msg.content :
                      msg.content[i].kind \in {"text", "image", "artifact"}
JoinedText(msg) == Joined(OfKind(msg.content, {"text", "artifact"}))
ToolCalls(msg) == Each(LAMBDA b : Use(b.id, FxDenormalizeTool(b.tool)), OfKind(msg.content, {"use"}))

\* Results ride on the latest step, and are dropped when there is none; a
\* last message without calls concludes the turn.
FxOnMessage(s, msg, last) ==
  LET calls == ToolCalls(msg)
      results == OfKind(msg.content, {"result"})
  IN CASE msg.role = "assistant" /\ calls = <<>> /\ last -> [s EXCEPT !.final = JoinedText(msg)]
       [] msg.role = "assistant" /\ ~ (calls = <<>> /\ last) ->
            [s EXCEPT !.steps = Append(@, FxStep(JoinedText(msg), calls, <<>>))]
       [] msg.role = "user" /\ results # <<>> /\ s.steps # <<>> ->
            [s EXCEPT !.steps[Len(s.steps)].results = @ \o results]
       [] OTHER -> s

FxTaken(body) ==
  LET upTo[j \in 0 .. Len(body)] ==
        IF j = 0 THEN [steps |-> <<>>, final |-> Blank]
        ELSE FxOnMessage(upTo[j - 1], body[j], j = Len(body))
  IN upTo[Len(body)]

\* The turn is one message, cut short at a call: its first call is kept.
Interrupted(body) ==
  /\ Len(body) = 1 /\ body[1].role = "assistant" /\ IsAborted(body[1])
  /\ Mentions(body[1].content, "use")

BuildTurn(prompt, body) ==
  LET text == FlattenSeq(Each(JoinedText, prompt))
      images == FlattenSeq(Each(LAMBDA msg : OfKind(msg.content, {"image"}), prompt))
      taken == FxTaken(body)
  IN IF Interrupted(body)
     THEN FxInterrupted(text, images, JoinedText(body[1]), <<ToolCalls(body[1])[1]>>)
     ELSE FxTurn(text, images, taken.steps, taken.final)

FxSegments(body) ==
  LET starts == Where([i \in DOMAIN body |-> i], LAMBDA i : i = 1 \/ IsPrompt(body[i]))
      End(k) == IF k = Len(starts) THEN Len(body) ELSE starts[k + 1] - 1
  IN [k \in DOMAIN starts |-> SubSeq(body, starts[k], End(k))]

\* The prompt of a segment, none when the conversation does not open with one.
FxPrompt(segment) == IF IsPrompt(segment[1]) THEN <<segment[1]>> ELSE <<>>
FxRest(segment) == IF IsPrompt(segment[1]) THEN Tail(segment) ELSE segment

RecordReasoning(segments) ==
  LET Turned(t) == Where(FxRest(segments[t + 1]), LAMBDA msg : msg.role = "assistant")
      Thoughts(t, a) == OfKind(Turned(t)[a + 1].content, {"thinking"})
      places == UNION {{<<t, a>> : a \in 0 .. Len(Turned(t)) - 1} : t \in 0 .. Len(segments) - 1}
  IN [p \in {p \in places : Thoughts(p[1], p[2]) # <<>>} |-> Thoughts(p[1], p[2])]

FxFromCommon(meta, body) ==
  LET segments == FxSegments(body)
  IN <<FxSession(meta.id, meta.title, RecordReasoning(segments))>>
     \o Each(LAMBDA seg : BuildTurn(FxPrompt(seg), FxRest(seg)), segments)

\* Without a title of its own a session is called by its first prompt.
FxMetaOf(log) ==
  LET prompted == SelectSeq(log, LAMBDA l : l.type = "turn" /\ l.text # Blank)
  IN [id |-> log[1].id,
      title |-> CASE log[1].title # NoId -> log[1].title
                  [] log[1].title = NoId /\ prompted # <<>> -> <<"prompt", prompted[1].text>>
                  [] OTHER -> NoId]
=============================================================================
