---------------------------- MODULE AntigravityCodec ----------------------------
(***************************************************************************)
(* Antigravity: a database of steps.  What the model said in a turn is one *)
(* planner step, and each of its calls a step of its own, which is given   *)
(* its result when the call ends.                                          *)
(***************************************************************************)
EXTENDS Conversation

Trajectory(id) == [type |-> "trajectory", id |-> id]
UserInput(v, images) == [type |-> "user_input", v |-> v, images |-> images]
\* thought is Blank in a turn without one
Planner(thought, v, calls) == [type |-> "planner", thought |-> thought, v |-> v, calls |-> calls]
\* status: "pending", "done", "canceled" or "error"; failed: a nonzero exit
\* code, an error of the search or a message of failure beside the payload
ToolStep(id, status, v, failed) ==
  [type |-> "tool", id |-> id, status |-> status, v |-> v, failed |-> failed]
Checkpoint(title) == [type |-> "checkpoint", title |-> title]

AntigravityNames == [Bash |-> "run_command", Read |-> "view_file", Write |-> "write_to_file",
                     Edit |-> "replace_file_content"]
AntigravityDenormalizeTool(tool) ==
  IF tool \in DOMAIN AntigravityNames THEN AntigravityNames[tool] ELSE tool
AntigravityNormalizeTool(name) ==
  IF \E t \in DOMAIN AntigravityNames : AntigravityNames[t] = name
  THEN CHOOSE t \in DOMAIN AntigravityNames : AntigravityNames[t] = name
  ELSE name

AntigravityNotBlank(v, block) == IF v = Blank THEN <<>> ELSE <<block>>

UserInputMessage(step) ==
  LET content == AntigravityNotBlank(step.v, Text(step.v)) \o Each(Image, step.images)
  IN IfSome(content, <<User(content)>>)

PlannerMessage(step) ==
  LET content == AntigravityNotBlank(step.thought, Thinking(step.thought))
                 \o AntigravityNotBlank(step.v, Text(step.v))
                 \o Each(LAMBDA c : Use(c.id, AntigravityNormalizeTool(c.tool)), step.calls)
  IN IfSome(content, <<StoppedAs(step, Assistant(content))>>)

ToolResultMessage(step) ==
  IF step.status = "pending" THEN <<>>
  ELSE <<User(<<Result(step.id, step.v, step.failed \/ step.status \in {"error", "canceled"})>>)>>

AntigravityTurns(step) ==
  CASE step.type = "user_input" -> UserInputMessage(step)
    [] step.type = "planner" -> PlannerMessage(step)
    [] step.type = "tool" -> ToolResultMessage(step)
    [] OTHER -> <<>>

AntigravityToCommon(log) == FlattenSeq(Each(AntigravityTurns, log))

(***************************************************************************)
(* Encoding looks a call's result up by its id, in the whole conversation, *)
(* where the last one written wins.  A result whose call is nowhere is     *)
(* shown as a text of the user's.                                          *)
(***************************************************************************)
\* the index among the results of the last one with that id, 0 if none has it
LastResult(results, id) ==
  LET at == {r \in DOMAIN results : results[r].id = id}
  IN IF at = {} THEN 0 ELSE CHOOSE r \in at : \A k \in at : k <= r

UserSteps(msg, knownUses) ==
  LET said == Where(msg.content, LAMBDA b : b.kind \in {"text", "thinking", "artifact"})
      orphans == Where(msg.content, LAMBDA b : b.kind = "result" /\ b.id \notin knownUses)
      text == Joined(said \o orphans)
      images == Each(LAMBDA b : b.v, OfKind(msg.content, {"image"}))
  IN IF text = Blank /\ images = <<>> THEN <<>> ELSE <<UserInput(text, images)>>

\* An image of the model's, which has no place, becomes a text naming it.
PlannerStep(msg) ==
  LET thoughts == Where(msg.content, LAMBDA b : b.kind = "thinking" /\ b.v # Blank)
      calls == OfKind(msg.content, {"use"})
  IN StoppedAs(msg,
       Planner(IF thoughts = <<>> THEN Blank ELSE thoughts[1].v,
               Joined(OfKind(msg.content, {"text", "image", "artifact"})),
               Each(LAMBDA c : Use(c.id, AntigravityDenormalizeTool(c.tool)), calls)))

\* A failed command is done and its exit code tells; another failed call ends
\* in a step of the status error.
ToolStepOf(call, results) ==
  LET r == LastResult(results, call.id)
  IN IF r = 0 THEN ToolStep(call.id, "pending", Blank, FALSE)
     ELSE ToolStep(call.id,
                   IF results[r].err /\ call.tool # "Bash" THEN "error" ELSE "done",
                   results[r].v,
                   results[r].err /\ call.tool = "Bash")

AssistantSteps(msg, results) ==
  <<PlannerStep(msg)>>
  \o Each(LAMBDA c : ToolStepOf(c, results), OfKind(msg.content, {"use"}))

AntigravityFromCommon(meta, body) ==
  LET flat == Each(LAMBDA f : f.block, Flat(body))
      results == OfKind(flat, {"result"})
      knownUses == ToSet(Each(LAMBDA b : b.id, OfKind(flat, {"use"})))
      Steps(msg) == IF msg.role = "user" THEN UserSteps(msg, knownUses)
                    ELSE AssistantSteps(msg, results)
  IN <<Trajectory(meta.id)>> \o FlattenSeq(Each(Steps, body))

\* The last checkpoint's title, else the first thing the user said.
AntigravityMetaOf(log) ==
  LET titles == SelectSeq(log, LAMBDA l : l.type = "checkpoint" /\ l.title # NoId)
      said == SelectSeq(log, LAMBDA l : l.type = "user_input" /\ l.v # Blank)
  IN [id |-> log[1].id,
      title |-> CASE titles # <<>> -> titles[Len(titles)].title
                  [] titles = <<>> /\ said # <<>> -> <<"said", said[1].v>>
                  [] OTHER -> NoId]
=============================================================================
