----------------------------- MODULE MCRtspPush -----------------------------
(* RtspPush for TLC, with every set of installed tools. *)
EXTENDS RtspPush

MCPushFaults == {"reuse", "foreign", "exit"}
=============================================================================
