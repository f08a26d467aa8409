---------------------------- MODULE MCConversions ----------------------------
(***************************************************************************)
(* Every harness the repository has a codec for.                           *)
(***************************************************************************)
EXTENDS Conversions

AllHarnesses == DOMAIN Empty
Chats == {"chatgpt", "claude_chat"}
\* without a live store a session could go on in
Unwritten == {"simple", "hermes", "amp", "share"}
LiveHarnesses == AllHarnesses \ (Chats \cup Unwritten)
\* and Claude Code, whose files are exported otherwise than continued
Exported == Unwritten \cup {"claude"}
=============================================================================
