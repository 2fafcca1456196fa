----------------------------- MODULE MCMcpServers -----------------------------
(***************************************************************************)
(* Small instances of McpServers for TLC.                                  *)
(***************************************************************************)
EXTENDS McpServers

\* Every server offers every tool, so that a call has to choose.
SameTools == [s \in Server |-> Tool]

AllFaults == {"kill", "config", "start", "server", "llm", "no_message"}

=============================================================================
