----------------------------- MODULE MCPingTask -----------------------------
(***************************************************************************)
(* Instances of PingTask for TLC.                                          *)
(***************************************************************************)
EXTENDS PingTask
=============================================================================
