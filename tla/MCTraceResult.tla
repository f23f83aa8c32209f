--------------------------- MODULE MCTraceResult ---------------------------
(***************************************************************************)
(* Instance of TraceResult for TLC: the destination and two routers.       *)
(***************************************************************************)
EXTENDS TraceResult
=============================================================================
