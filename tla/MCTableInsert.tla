--------------------------- MODULE MCTableInsert ----------------------------
(***************************************************************************)
(* An instance of TableInsert for TLC: two kinds of results, three tables  *)
(* when a transfer goes over midnight.                                     *)
(***************************************************************************)
EXTENDS TableInsert
=============================================================================
