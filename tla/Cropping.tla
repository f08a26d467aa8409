------------------------------- MODULE Cropping -------------------------------
(***************************************************************************)
(* What may be cut out of a conversation (transcript.rs): a call and its   *)
(* result are kept or dropped together, and a conversation in which it is  *)
(* not clear which call a result answers is not cut at all.                *)
(***************************************************************************)
EXTENDS Conversation

\* outstanding: the calls that wait, by id, with their messages; a call that
\* has its result is resolved until its id is used again.
Untied == [outstanding |-> {}, resolved |-> {}, pairs |-> {}, ambiguous |-> FALSE]
Waiting(s, id) == {w \in s.outstanding : w.id = id}

OnUse(s, at, id) ==
  IF Waiting(s, id) # {} THEN [s EXCEPT !.ambiguous = TRUE]
  ELSE [s EXCEPT !.outstanding = @ \cup {[id |-> id, at |-> at]}, !.resolved = @ \ {id}]

OnResult(s, at, id) ==
  CASE id \in s.resolved -> [s EXCEPT !.ambiguous = TRUE]
    [] id \notin s.resolved /\ Waiting(s, id) # {} ->
         LET call == CHOOSE w \in Waiting(s, id) : TRUE
         IN [s EXCEPT !.outstanding = @ \ {call}, !.resolved = @ \cup {id},
                      !.pairs = @ \cup {<<call.at, at>>}]
    [] OTHER -> s

OnBlock(s, at, block) ==
  CASE block.kind = "use" -> OnUse(s, at, block.id)
    [] block.kind = "result" -> OnResult(s, at, block.id)
    [] OTHER -> s

\* The blocks of one message, from the first on; and message after message.
InMessage(s, at, content) ==
  LET upTo[j \in 0 .. Len(content)] ==
        IF j = 0 THEN s ELSE OnBlock(upTo[j - 1], at, content[j])
  IN upTo[Len(content)]

ToolPairs(body) ==
  LET upTo[i \in 0 .. Len(body)] ==
        IF i = 0 THEN Untied ELSE InMessage(upTo[i - 1], i, body[i].content)
  IN upTo[Len(body)]

Ambiguous(body) == ToolPairs(body).ambiguous
Pairs(body) == ToolPairs(body).pairs

\* kept: the numbers of the messages that stay
Splits(pair, kept) == (pair[1] \in kept) # (pair[2] \in kept)
MayKeep(body, kept) ==
  /\ kept # {} /\ kept \subseteq DOMAIN body
  /\ ~ Ambiguous(body)
  /\ \A pair \in Pairs(body) : ~ Splits(pair, kept)
CropTo(body, kept) == [k \in 1 .. Cardinality(kept) |-> body[SetToSortSeq(kept, <)[k]]]
===============================================================================
