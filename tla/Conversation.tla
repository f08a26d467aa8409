----------------------------- MODULE Conversation -----------------------------
(***************************************************************************)
(* The canonical model every conversion goes through (common.rs), and what *)
(* transcript.rs computes about it: which messages a tool call and its     *)
(* result tie together, and what a crop may keep.                          *)
(*                                                                         *)
(* A text, a thought, an output, an image or a file is the sequence of the *)
(* pieces it was put together from, each the number of the step that wrote *)
(* it, so that a codec that joins two texts keeps both; Blank is a text of *)
(* nothing but whitespace.  A message may be marked as cut short, the one  *)
(* stop reason a codec looks at; the others, model, usage and time are     *)
(* left out.  A tool is its name: inputs are not told apart.               *)
(***************************************************************************)
EXTENDS Naturals, FiniteSets, Sequences, SequencesExt

Blank == <<>>
\* A text whose words are the codec's own.
OwnWords == <<0>>
\* An id is a pair: who made it up, and a number of its own.
NoId == <<"none", 0>>

Text(v) == [kind |-> "text", v |-> v]
Thinking(v) == [kind |-> "thinking", v |-> v]
Image(v) == [kind |-> "image", v |-> v]
\* source: "path" for a file on this machine, "inline" for its contents
Artifact(id, v, source) == [kind |-> "artifact", id |-> id, v |-> v, source |-> source]
Use(id, tool) == [kind |-> "use", id |-> id, tool |-> tool]
Result(id, v, err) == [kind |-> "result", id |-> id, v |-> v, err |-> err]

User(content) == [role |-> "user", content |-> content]
Assistant(content) == [role |-> "assistant", content |-> content]
Message(role, content) == [role |-> role, content |-> content]

\* An aborted message, and an entry that was written for one, has a stop.
Aborted(content) == [role |-> "assistant", content |-> content, stop |-> "aborted"]
IsAborted(entry) == "stop" \in DOMAIN entry
\* The entry, stopped the way another is.
StoppedAs(other, entry) ==
  IF IsAborted(other)
  THEN [field \in DOMAIN entry \cup {"stop"} |-> IF field = "stop" THEN "aborted" ELSE entry[field]]
  ELSE entry

\* A file no codec can carry is shown as a text that names it.
DisplayText(artifact) == Text(artifact.v)

\* The elements of s at the places in at, in order.
Kept(s, at) ==
  LET upTo[i \in 0 .. Len(s)] ==
        IF i = 0 THEN <<>> ELSE IF i \in at THEN Append(upTo[i - 1], s[i]) ELSE upTo[i - 1]
  IN upTo[Len(s)]
Where(s, Test(_)) == Kept(s, {i \in DOMAIN s : Test(s[i])})
Each(Op(_), s) == [i \in DOMAIN s |-> Op(s[i])]
OfKind(content, kinds) == Where(content, LAMBDA b : b.kind \in kinds)
Mentions(content, kind) == \E i \in DOMAIN content : content[i].kind = kind
Joined(blocks) == FlattenSeq([i \in DOMAIN blocks |-> blocks[i].v])
IfSome(content, s) == IF content = <<>> THEN <<>> ELSE s

(***************************************************************************)
(* Every block with its role, in order, and the ids of calls replaced by   *)
(* the order of their first mention: the fingerprint by which the          *)
(* property tests compare conversations whatever the grouping into         *)
(* messages and whatever ids a codec mints.                                *)
(***************************************************************************)
Flat(body) ==
  FlattenSeq([i \in DOMAIN body |->
    [j \in DOMAIN body[i].content |->
       [role |-> body[i].role, block |-> body[i].content[j]]]])

Tied(block) == block.kind \in {"use", "result"}

Renumbered(flat, i) ==
  LET id == flat[i].block.id
      First == CHOOSE k \in DOMAIN flat :
                 /\ Tied(flat[k].block) /\ flat[k].block.id = id
                 /\ \A l \in 1 .. k - 1 : Tied(flat[l].block) => flat[l].block.id # id
  IN Cardinality({flat[k].block.id : k \in {k \in 1 .. First : Tied(flat[k].block)}})

Signature(body) ==
  LET flat == Flat(body)
  IN [i \in DOMAIN flat |->
        IF Tied(flat[i].block)
        THEN [flat[i] EXCEPT !.block.id = Renumbered(flat, i)]
        ELSE flat[i]]

(***************************************************************************)
(* The call a result answers: the last one before it that has its id.      *)
(***************************************************************************)
CallOf(flat, i) ==
  LET before == {k \in 1 .. i - 1 : /\ flat[k].block.kind = "use"
                                    /\ flat[k].block.id = flat[i].block.id}
  IN IF before = {} THEN 0 ELSE CHOOSE k \in before : \A l \in before : l <= k
=============================================================================
