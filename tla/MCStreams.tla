----------------------------- MODULE MCStreams ------------------------------
(* The two kinds of event streams the broker serves, the MCP transport and   *)
(* the events of a cycle.  They share nothing: a behaviour is one of either, *)
(* chosen in its first state.                                                *)
EXTENDS Mcp, Watch

VARIABLE kind

StreamsInit == McpInit /\ WatchInit /\ kind \in {"mcp", "cycle"}

McpGoes   == kind = "mcp" /\ McpNext /\ UNCHANGED <<watchVars, kind>>
WatchGoes == kind = "cycle" /\ WatchNext /\ UNCHANGED <<mcpVars, kind>>

StreamsSpec ==
  /\ StreamsInit /\ [][McpGoes \/ WatchGoes]_<<mcpVars, watchVars, kind>>
  /\ McpFair /\ WatchFair
=============================================================================
