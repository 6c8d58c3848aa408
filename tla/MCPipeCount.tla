----------------------------- MODULE MCPipeCount -----------------------------
(* Bounds for TLC are in the configuration.                                *)
EXTENDS PipeCount
=============================================================================
