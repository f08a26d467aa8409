------------------------------ MODULE CoworkCodec ------------------------------
(***************************************************************************)
(* Cowork runs Claude Code and keeps a record of its own next to the log   *)
(* Claude Code writes: a session is that record and, found by the id of    *)
(* the Claude Code session the record names, the log.                      *)
(***************************************************************************)
EXTENDS ClaudeCodec

\* session: Cowork's id; cli: the Claude Code session it resumes.
CoworkHeader(session, cli, title) ==
  [type |-> "header", session |-> session, cli |-> cli, title |-> title]

CoworkToCommon(log) == ClaudeToCommon(Tail(log))

\* Cowork lists only what is named local_...; what a copy is written under is
\* never without an id, which would have one minted.
SessionIdFor(id) == <<"local", id[2]>>

\* A function of the session's id.
CliSessionIdFor(session) == <<"cli", session[2]>>

\* The log is Claude Code's, under the id Cowork resumes it by.
CoworkFromCommon(meta, body) ==
  LET session == SessionIdFor(meta.id)
      cli == CliSessionIdFor(session)
  IN <<CoworkHeader(session, cli, meta.title)>> \o ClaudeFromCommon([meta EXCEPT !.id = cli], body)

MetaFromParts(header, transcript) ==
  [id |-> header.session,
   title |-> IF header.title # NoId THEN header.title ELSE transcript.title]

CoworkMetaOf(log) == MetaFromParts(log[1], ClaudeMetaOf(Tail(log)))

\* Discovery reads the record and scans the log as Claude Code's does.
CoworkScan(log) == {MetaFromParts(log[1], meta) : meta \in ClaudeScan(Tail(log))}
=============================================================================
