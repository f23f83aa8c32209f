------------------------------ MODULE MCRounds ------------------------------
(***************************************************************************)
(* Instances of Rounds for TLC.                                            *)
(***************************************************************************)
EXTENDS Rounds
=============================================================================
