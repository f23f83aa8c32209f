--------------------------- MODULE MCResultStore ----------------------------
(***************************************************************************)
(* Instances of ResultStore for TLC.                                       *)
(***************************************************************************)
EXTENDS ResultStore
=============================================================================
