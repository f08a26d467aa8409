------------------------------ MODULE SimpleCodec ------------------------------
(***************************************************************************)
(* The simple format: a document with an array of messages, canonical but  *)
(* for the ids a hand-written one leaves out.                              *)
(***************************************************************************)
EXTENDS Conversation

Doc(id, title) == [type |-> "doc", id |-> id, title |-> title]
\* A message of whichever role, known or not; id NoId where none is written.
SimpleEntry(role, content) == [type |-> "message", role |-> role, content |-> content]

\* The id of a block that has none is a function of where it stands.
SynthId(i, j) == <<"simple", i, j>>
Without(pending, id) ==
  IF Contains(pending, id)
  THEN RemoveAt(pending, SelectInSeq(pending, LAMBDA p : p = id))
  ELSE pending

\* pending: the calls no result has named yet, in order.  A result without an
\* id answers the oldest of them.
BlockToCommon(s, b, i, j) ==
  CASE b.kind = "use" ->
         LET id == IF b.id = NoId THEN SynthId(i, j) ELSE b.id
         IN [out |-> Append(s.out, Use(id, b.tool)), pending |-> Append(s.pending, id)]
    [] b.kind = "result" ->
         LET id == CASE b.id # NoId -> b.id
                     [] b.id = NoId /\ s.pending # <<>> -> s.pending[1]
                     [] b.id = NoId /\ s.pending = <<>> -> SynthId(i, j)
         IN [out |-> Append(s.out, Result(id, b.v, b.err)), pending |-> Without(s.pending, id)]
    [] OTHER -> [s EXCEPT !.out = Append(@, b)]

BlocksToCommon(pending, content, i) ==
  LET read[j \in 0 .. Len(content)] ==
        IF j = 0 THEN [out |-> <<>>, pending |-> pending]
        ELSE BlockToCommon(read[j - 1], content[j], i, j)
  IN read[Len(content)]

\* An element of another role stays in the document and says nothing.
EntryToCommon(s, line, i) ==
  IF line.type # "message" \/ line.role \notin {"user", "assistant"} THEN s
  ELSE LET read == BlocksToCommon(s.pending, line.content, i)
       IN [out |-> Append(s.out, StoppedAs(line, Message(line.role, read.out))),
           pending |-> read.pending]

SimpleToCommon(log) ==
  LET read[i \in 0 .. Len(log)] ==
        IF i = 0 THEN [out |-> <<>>, pending |-> <<>>]
        ELSE EntryToCommon(read[i - 1], log[i], i)
  IN read[Len(log)].out

SimpleFromCommon(meta, body) ==
  <<Doc(meta.id, meta.title)>>
  \o Each(LAMBDA msg : StoppedAs(msg, SimpleEntry(msg.role, msg.content)), body)

SimpleMetaOf(log) == [id |-> log[1].id, title |-> log[1].title]
=============================================================================
